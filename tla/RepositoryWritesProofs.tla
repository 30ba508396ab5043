----------------------- MODULE RepositoryWritesProofs -----------------------
(***************************************************************************)
(* Proofs about the writes to one repository, for any requests, workloads, *)
(* files and number of commits: what is promised of a plan, a commit and a *)
(* receipt, whatever those without the lock do.                            *)
(***************************************************************************)
EXTENDS RepositoryWrites, FiniteSetTheorems, TLAPS

-----------------------------------------------------------------------------
(* The inductive invariant.                                                *)

\* Commits are there before their children; head, remote and upstream are some.
History ==
    /\ \A c \in 1..Len(commits) : commits[c].parent < c
    /\ head \in 1..Len(commits) /\ remote \in 1..Len(commits) /\ upstream \in 1..Len(commits)

\* A request that is under way has the lock; a process left running was a
\* request's of git.
LockFits ==
    /\ \A r \in Requests : phase[r] # "idle" => holder = r
    /\ running \subseteq abandoned \ Plans
    /\ \A r \in running \cap (Commits \cup Pushes) : seen[r] # None

\* What a client saw is not newer than the head.
SeenFits(r) ==
    /\ seen[r] # None => seen[r].head <= head
    /\ phase[r] # "idle" /\ r \in Plans \cup Commits \cup Pushes => seen[r] # None
    /\ phase[r] = "acting" => receipt[r] = None

AllReplaced(r) == \A f \in Files : \E a \in Authors : <<r, f, a>> \in overwrote

PlanFits(r) ==
    r \in Plans =>
        /\ \A f \in Files, a \in Authors :
              <<r, f, a>> \in overwrote => seen[r] # None /\ a = seen[r].tree[f]
        /\ phase[r] = "sealing" \/ receipt[r] # None => AllReplaced(r)

IsMade(c, r) == c \in 1..Len(commits) /\ commits[c].by = r

\* The commits of a request were the head when they were made, and the head only
\* moves on: a guarded commit that was made is past the head it was for.
CommitFits(r) ==
    r \in Commits =>
        /\ \A c : IsMade(c, r) => c <= head
        /\ phase[r] = "sealing" => (\E c : IsMade(c, r)) /\ (~disturbed => IsMade(head, r))
        /\ receipt[r] # None =>
              (\E c : IsMade(c, r)) /\ (r \notin misnamed => IsMade(receipt[r], r))
        /\ r \notin abandoned /\ receipt[r] # None => \A c : IsMade(c, r) => c <= receipt[r]
        /\ r \in Guarded \ abandoned =>
              /\ \A c : IsMade(c, r) => seen[r] # None /\ seen[r].head < head /\ phase[r] # "acting"
              /\ \A c, d : IsMade(c, r) /\ IsMade(d, r) => c = d

RequestFits(r) == SeenFits(r) /\ PlanFits(r) /\ CommitFits(r)

IInv == TypeOK /\ History /\ LockFits /\ \A r \in Requests : RequestFits(r)

-----------------------------------------------------------------------------
(* Git.                                                                    *)

RepoShape == /\ tree \in Snapshots /\ index \in Snapshots
             /\ commits \in Seq(Commit) /\ Len(commits) <= MaxCommits
             /\ History

\* The commits stay, and the head moves on.
Keeps == RepoShape' /\ head <= head'
MakesNone == Keeps /\ \A c, p : IsMade(c, p)' <=> IsMade(c, p)
Makes(by) ==
    Keeps /\ \A c, p : IsMade(c, p)' <=> IsMade(c, p) \/ (c = Len(commits) + 1 /\ p = by)

LEMMA CommitTypes ==
    ASSUME RepoShape
    PROVE  /\ MaxCommits \in Nat /\ Len(commits) \in Nat
           /\ \A c \in 1..Len(commits) :
                 /\ commits[c].parent \in Nat /\ commits[c].parent < c
                 /\ commits[c].snap \in Snapshots
<1>1. MaxCommits \in Nat /\ Len(commits) \in Nat
  BY WritesAssumption DEF RepoShape
<1>2. \A c \in 1..Len(commits) : commits[c] \in Commit
  BY DEF RepoShape
<1> QED BY <1>1, <1>2 DEF RepoShape, History, Commit, CommitIds

\* Whoever is reached by parents is older.
LEMMA AncestorsAreOlder ==
    ASSUME RepoShape, NEW c \in 1..Len(commits), NEW d \in Ancestors(c)
    PROVE  d \in 0..c
<1> DEFINE s == {e \in 0..Len(commits) : e <= c}
<1>1. Len(commits) \in Nat /\ \A e \in 1..Len(commits) : commits[e].parent \in Nat /\ commits[e].parent < e
  BY CommitTypes
<1>2. s \in SUBSET (0..Len(commits)) /\ c \in s
  BY <1>1
<1>3. ASSUME NEW e \in s \ {0}
      PROVE  commits[e].parent \in s
  BY <1>1, <1>3
<1>4. d \in s
  BY <1>2, <1>3 DEF Ancestors
<1> QED BY <1>1, <1>4

LEMMA NewCommitEffect ==
    ASSUME RepoShape, NEW p \in 1..Len(commits), NEW snap \in Snapshots, NEW by \in Authors,
           NewCommit(p, snap, by)
    PROVE  /\ commits' \in Seq(Commit) /\ Len(commits') = Len(commits) + 1
           /\ Len(commits') <= MaxCommits
           /\ \A c \in 1..Len(commits') : commits'[c].parent < c
           /\ \A c, q : IsMade(c, q)' <=> IsMade(c, q) \/ (c = Len(commits) + 1 /\ q = by)
<1> DEFINE new == [parent |-> p, snap |-> snap, by |-> by]
<1>1. /\ commits \in Seq(Commit) /\ Len(commits) \in Nat /\ MaxCommits \in Nat
      /\ Len(commits) < MaxCommits /\ commits' = Append(commits, new)
      /\ \A c \in 1..Len(commits) : commits[c].parent < c
  BY CommitTypes DEF RepoShape, NewCommit
<1>2. new \in Commit /\ new.parent = p /\ new.by = by
  BY <1>1 DEF Commit, CommitIds
<1> HIDE DEF new
<1>3. /\ commits' \in Seq(Commit) /\ Len(commits') = Len(commits) + 1
      /\ \A c \in 1..Len(commits) : commits'[c] = commits[c]
      /\ commits'[Len(commits) + 1] = new
  BY <1>1, <1>2
<1>4. \A c \in 1..Len(commits') : c = Len(commits) + 1 \/ c \in 1..Len(commits)
  BY <1>1, <1>3
<1>5. \A c \in 1..Len(commits') : commits'[c].parent < c
  BY <1>1, <1>2, <1>3, <1>4
<1>6. ASSUME NEW c, NEW q
      PROVE  IsMade(c, q)' <=> IsMade(c, q) \/ (c = Len(commits) + 1 /\ q = by)
  <2>1. CASE c \in 1..Len(commits)
    BY <1>1, <1>3, <2>1 DEF IsMade
  <2>2. CASE c = Len(commits) + 1
    BY <1>1, <1>2, <1>3, <2>2 DEF IsMade
  <2>3. CASE c \notin 1..Len(commits) /\ c # Len(commits) + 1
    BY <1>4, <2>3 DEF IsMade
  <2> QED BY <2>1, <2>2, <2>3
<1> QED BY <1>1, <1>3, <1>5, <1>6

LEMMA GitCommitMakes ==
    ASSUME RepoShape, NEW r \in Requests, GitCommit(r)
    PROVE  Makes(r) /\ head' = Len(commits) + 1
<1>1. /\ head \in 1..Len(commits) /\ remote \in 1..Len(commits) /\ upstream \in 1..Len(commits)
      /\ index \in Snapshots /\ tree \in Snapshots /\ r \in Authors /\ Len(commits) \in Nat
  BY CommitTypes DEF RepoShape, History, Authors
<1>2. /\ NewCommit(head, index, r) /\ head' = Len(commits) + 1
      /\ tree' = tree /\ index' = index /\ remote' = remote /\ upstream' = upstream
  BY DEF GitCommit
<1>3. /\ commits' \in Seq(Commit) /\ Len(commits') = Len(commits) + 1
      /\ Len(commits') <= MaxCommits
      /\ \A c \in 1..Len(commits') : commits'[c].parent < c
      /\ \A c, q : IsMade(c, q)' <=> IsMade(c, q) \/ (c = Len(commits) + 1 /\ q = r)
  BY <1>1, <1>2, NewCommitEffect
<1> QED BY <1>1, <1>2, <1>3 DEF Makes, Keeps, RepoShape, History

LEMMA GitAddMakes ==
    ASSUME RepoShape, GitAdd
    PROVE  MakesNone /\ head' = head
<1>1. index' = tree /\ tree' = tree /\ commits' = commits /\ head' = head
      /\ remote' = remote /\ upstream' = upstream
  BY DEF GitAdd
<1> QED BY <1>1 DEF MakesNone, Keeps, RepoShape, History, IsMade

LEMMA GitPushMakes ==
    ASSUME RepoShape, NEW r \in Requests, GitPush(r), seen[r] \in Seen, seen[r].head <= head
    PROVE  MakesNone /\ head' = head
<1>1. tree' = tree /\ index' = index /\ commits' = commits /\ head' = head
  BY DEF GitPush
<1>2. remote' \in 1..Len(commits) /\ upstream' \in 1..Len(commits)
  <2>1. CASE seen[r].remote = seen[r].head
    BY <2>1 DEF GitPush, RepoShape, History
  <2>2. CASE seen[r].remote # seen[r].head
    <3>1. /\ remote' = seen[r].head /\ upstream' = seen[r].head /\ remote \in Ancestors(seen[r].head)
          /\ remote \in 1..Len(commits) /\ head \in 1..Len(commits) /\ Len(commits) \in Nat
      BY <2>2, CommitTypes DEF GitPush, RepoShape, History
    <3>2. seen[r].head \in Nat
      BY DEF Seen, CommitIds
    <3>3. seen[r].head # 0
      <4>1. ASSUME seen[r].head = 0 PROVE FALSE
        <5>1. {0} \in SUBSET (0..Len(commits)) /\ 0 \in {0} /\ {0} \ {0} = {}
          BY <3>1
        <5>2. remote \in {0}
          BY <3>1, <4>1, <5>1 DEF Ancestors
        <5> QED BY <3>1, <5>2
      <4> QED BY <4>1
    <3> QED BY <3>1, <3>2, <3>3
  <2> QED BY <2>1, <2>2
<1> QED BY <1>1, <1>2 DEF MakesNone, Keeps, RepoShape, History, IsMade

LEMMA GitForwardMakes ==
    ASSUME RepoShape, GitForward
    PROVE  MakesNone
<1>1. /\ head' = upstream /\ tree' = Snap(upstream) /\ index' = Snap(upstream)
      /\ commits' = commits /\ remote' = remote /\ upstream' = upstream
      /\ head \in Ancestors(upstream)
  BY DEF GitForward
<1>2. upstream \in 1..Len(commits) /\ head \in 1..Len(commits) /\ Len(commits) \in Nat
  BY CommitTypes DEF RepoShape, History
<1>3. head <= upstream
  BY <1>1, <1>2, AncestorsAreOlder
<1>4. Snap(upstream) \in Snapshots
  BY <1>2, CommitTypes DEF Snap
<1> QED BY <1>1, <1>2, <1>3, <1>4 DEF MakesNone, Keeps, RepoShape, History, IsMade
-----------------------------------------------------------------------------
(* What a step leaves of the requests it is not about.                     *)

LEMMA Shape ==
    ASSUME IInv
    PROVE  /\ RepoShape /\ seen \in [Requests -> Seen \cup {None}]
           /\ phase \in [Requests -> {"idle", "checking", "acting", "sealing"}]
           /\ receipt \in [Requests -> CommitIds \cup {None}]
  BY DEF IInv, TypeOK, RepoShape

Untouched(p) ==
    /\ phase'[p] = phase[p] /\ receipt'[p] = receipt[p] /\ seen'[p] = seen[p]
    /\ (p \in abandoned' <=> p \in abandoned) /\ (p \in misnamed' <=> p \in misnamed)
    /\ \A c : IsMade(c, p)' <=> IsMade(c, p)
    /\ \A f, a : <<p, f, a>> \in overwrote' <=> <<p, f, a>> \in overwrote
    /\ head <= head'
    /\ phase[p] = "sealing" /\ ~disturbed' => ~disturbed /\ head' = head

LEMMA HeadTypes ==
    ASSUME IInv, RepoShape'
    PROVE  /\ head \in Nat /\ head' \in Nat
           /\ \A p \in Requests : seen[p] # None => seen[p].head \in Nat
<1>1. head \in Nat
  BY Shape, CommitTypes DEF RepoShape, History
<1>2. RepoShape' => head' \in 1..Len(commits') /\ Len(commits') \in Nat
  BY DEF RepoShape, History
<1>3. \A p \in Requests : seen[p] # None => seen[p] \in Seen
  BY Shape
<1> QED BY <1>1, <1>2, <1>3 DEF Seen, CommitIds

LEMMA UntouchedFits ==
    ASSUME IInv, RepoShape', NEW p \in Requests, Untouched(p)
    PROVE  RequestFits(p)'
<1>1. RequestFits(p) /\ head \in Nat /\ head' \in Nat /\ head <= head'
      /\ (seen[p] # None => seen[p].head \in Nat)
  BY HeadTypes DEF IInv, Untouched
<1>2. SeenFits(p)'
  BY <1>1 DEF RequestFits, SeenFits, Untouched
<1>3. PlanFits(p)'
  BY <1>1 DEF RequestFits, PlanFits, AllReplaced, Untouched
<1>4. CommitFits(p)'
  <2> SUFFICES ASSUME p \in Commits PROVE CommitFits(p)'
    BY DEF CommitFits
  <2>1. \A c : IsMade(c, p) => c \in Nat /\ c <= head
    BY <1>1 DEF RequestFits, CommitFits, IsMade
  <2>2. \A c : IsMade(c, p)' <=> IsMade(c, p)
    BY DEF Untouched
  <2>3. \A c : IsMade(c, p)' => c <= head'
    BY <1>1, <2>1, <2>2
  <2>4. phase'[p] = "sealing" => (\E c : IsMade(c, p)') /\ (~disturbed' => head' = head /\ \E c : c = head /\ IsMade(c, p)')
    BY <1>1, <2>2 DEF RequestFits, CommitFits, Untouched
  <2>5. phase'[p] = "sealing" /\ ~disturbed' => IsMade(head, p)'
    BY <2>4 DEF IsMade
  <2>6. receipt'[p] # None =>
           /\ \E c : IsMade(c, p)'
           /\ p \notin misnamed' => receipt'[p] = receipt[p] /\ \E c : c = receipt[p] /\ IsMade(c, p)'
    BY <1>1, <2>2 DEF RequestFits, CommitFits, Untouched
  <2>7. receipt'[p] # None /\ p \notin misnamed' => IsMade(receipt[p], p)'
    BY <2>6 DEF IsMade
  <2>8. p \notin abandoned' /\ receipt'[p] # None => \A c : IsMade(c, p)' => c <= receipt'[p]
    BY <1>1, <2>2 DEF RequestFits, CommitFits, Untouched
  <2>9. p \in Guarded \ abandoned' =>
           /\ \A c : IsMade(c, p)' => seen'[p] # None /\ seen'[p].head < head' /\ phase'[p] # "acting"
           /\ \A c, d : IsMade(c, p)' /\ IsMade(d, p)' => c = d
    BY <1>1, <2>2 DEF RequestFits, CommitFits, Untouched
  <2> QED BY <2>3, <2>4, <2>5, <2>6, <2>7, <2>8, <2>9 DEF CommitFits
<1> QED BY <1>2, <1>3, <1>4 DEF RequestFits

\* A step of r keeps the invariant if it leaves the others' requests, and what it
\* makes of r's own fits.
LEMMA StepFits ==
    ASSUME IInv, TypeOK', History', LockFits', NEW r \in Requests, RequestFits(r)',
           \A p \in Requests \ {r} : Untouched(p)
    PROVE  IInv'
<1>1. RepoShape'
  BY DEF TypeOK, RepoShape
<1>2. \A p \in Requests : RequestFits(p)'
  BY <1>1, UntouchedFits
<1> QED BY <1>2 DEF IInv

\* So does a step of somebody else.
LEMMA OthersFit ==
    ASSUME IInv, TypeOK', History', LockFits', \A p \in Requests : Untouched(p)
    PROVE  IInv'
<1>1. RepoShape'
  BY DEF TypeOK, RepoShape
<1>2. \A p \in Requests : RequestFits(p)'
  BY <1>1, UntouchedFits
<1> QED BY <1>2 DEF IInv
-----------------------------------------------------------------------------
(* The steps.                                                              *)

LEMMA ShapeTyped ==
    ASSUME RepoShape', TypeOK,
           load' = load, seen' \in [Requests -> Seen \cup {None}], holder' \in Requests \cup {None},
           phase' \in [Requests -> {"idle", "checking", "acting", "sealing"}],
           receipt' \in [Requests -> CommitIds \cup {None}],
           running' \subseteq Requests, others' \in Nat, abandoned' \subseteq Requests,
           disturbed' \in BOOLEAN, overwrote' \subseteq (Plans \X Files \X Authors),
           misnamed' \subseteq Requests
    PROVE  TypeOK' /\ History'
<1>1. Len(commits') \in Nat /\ Len(commits') <= MaxCommits /\ MaxCommits \in Nat
  BY WritesAssumption DEF RepoShape
<1>2. head' \in CommitIds /\ remote' \in CommitIds /\ upstream' \in CommitIds
  BY <1>1 DEF RepoShape, History, CommitIds
<1> QED BY <1>2 DEF TypeOK, RepoShape

\* A step that is not git's leaves the repository.
LEMMA RepositoryStays ==
    ASSUME RepoShape, UNCHANGED repository
    PROVE  MakesNone /\ head' = head
<1>1. /\ tree' = tree /\ index' = index /\ commits' = commits /\ head' = head
      /\ remote' = remote /\ upstream' = upstream
  BY DEF repository
<1>2. head <= head
  BY CommitTypes DEF RepoShape, History
<1> QED BY <1>1, <1>2 DEF MakesNone, Keeps, RepoShape, History, IsMade

\* Nobody but the holder of the lock is under way.
LEMMA OthersIdle ==
    ASSUME IInv, NEW r \in Requests, phase[r] # "idle", NEW p \in Requests \ {r}
    PROVE  phase[p] = "idle"
  BY DEF IInv, LockFits

LEMMA PreparesKeeps ==
    ASSUME IInv, NEW r \in Requests, Prepares(r)
    PROVE  IInv'
<1>1. RepoShape /\ TypeOK /\ LockFits /\ RequestFits(r)
  BY Shape DEF IInv
<1> DEFINE s == [tree |-> tree, index |-> index, head |-> head, remote |-> remote]
<1>2. /\ s \in Seen /\ s.head = head /\ head \in Nat
  BY <1>1, CommitTypes DEF TypeOK, RepoShape, History, Seen
<1>3. /\ seen[r] = None /\ r \notin Stages \cup Forwards /\ seen' = [seen EXCEPT ![r] = s]
      /\ UNCHANGED repository /\ load' = load /\ holder' = holder /\ phase' = phase
      /\ receipt' = receipt /\ running' = running /\ others' = others /\ abandoned' = abandoned
      /\ disturbed' = disturbed /\ overwrote' = overwrote /\ misnamed' = misnamed
  BY DEF Prepares, requests, history
<1> HIDE DEF s
<1>4. MakesNone /\ head' = head
  BY <1>1, <1>3, RepositoryStays
<1>5. TypeOK' /\ History'
  <2>1. seen' \in [Requests -> Seen \cup {None}]
    BY <1>1, <1>2, <1>3 DEF TypeOK
  <2> QED BY <1>1, <1>3, <1>4, <2>1, ShapeTyped DEF MakesNone, Keeps, TypeOK
<1>6. r \in Plans \cup Commits \cup Pushes /\ phase[r] = "idle"
  BY <1>1, <1>3 DEF RequestFits, SeenFits, Requests, TypeOK
<1>7. seen'[r] = s /\ \A p \in Requests \ {r} : seen'[p] = seen[p]
  BY <1>1, <1>3 DEF TypeOK
<1>8. \A p \in Requests \ {r} : Untouched(p)
  BY <1>3, <1>4, <1>7 DEF Untouched, MakesNone, Keeps
<1>9. RequestFits(r)'
  <2>1. SeenFits(r)'
    BY <1>2, <1>3, <1>4, <1>6, <1>7 DEF SeenFits
  <2>2. PlanFits(r)'
    BY <1>1, <1>3 DEF RequestFits, PlanFits, AllReplaced
  <2>3. CommitFits(r)'
    <3>1. \A c : IsMade(c, r)' <=> IsMade(c, r)
      BY <1>4 DEF MakesNone
    <3>2. \A c : IsMade(c, r) /\ r \in Commits => r \notin Guarded \ abandoned
      BY <1>1, <1>3 DEF RequestFits, CommitFits
    <3>3. IsMade(receipt[r], r)' <=> IsMade(receipt[r], r)
      BY <1>3, <1>4 DEF IsMade, repository
    <3> QED BY <1>1, <1>3, <1>4, <1>6, <3>1, <3>2, <3>3 DEF RequestFits, CommitFits
  <2> QED BY <2>1, <2>2, <2>3 DEF RequestFits
<1>10. LockFits'
  BY <1>1, <1>3, <1>6, <1>7 DEF LockFits
<1> QED BY <1>5, <1>8, <1>9, <1>10, StepFits

LEMMA BeginsKeeps ==
    ASSUME IInv, NEW r \in Requests, Begins(r)
    PROVE  IInv'
<1>1. RepoShape /\ TypeOK /\ LockFits /\ RequestFits(r)
  BY Shape DEF IInv
<1>2. /\ phase[r] = "idle" /\ holder = None /\ holder' = r
      /\ (r \in Plans \cup Commits \cup Pushes => seen[r] # None)
      /\ phase' = [phase EXCEPT ![r] = "checking"] /\ disturbed' = FALSE
      /\ UNCHANGED repository /\ load' = load /\ seen' = seen
      /\ receipt' = receipt /\ running' = running /\ others' = others /\ abandoned' = abandoned
      /\ overwrote' = overwrote /\ misnamed' = misnamed
  BY DEF Begins, MayBegin
<1>3. MakesNone /\ head' = head
  BY <1>1, <1>2, RepositoryStays
<1>4. phase'[r] = "checking" /\ \A p \in Requests \ {r} : phase'[p] = phase[p] /\ phase[p] = "idle"
  BY <1>1, <1>2, WritesAssumption DEF TypeOK, LockFits
<1>5. TypeOK' /\ History'
  <2>1. phase' \in [Requests -> {"idle", "checking", "acting", "sealing"}]
    BY <1>1, <1>2 DEF TypeOK
  <2> QED BY <1>1, <1>2, <1>3, <2>1, ShapeTyped DEF MakesNone, Keeps, TypeOK
<1>6. \A p \in Requests \ {r} : Untouched(p)
  BY <1>2, <1>3, <1>4 DEF Untouched, MakesNone, Keeps
<1>7. LockFits'
  BY <1>1, <1>2, <1>4 DEF LockFits
<1>8. RequestFits(r)'
  <2>1. SeenFits(r)' /\ PlanFits(r)'
    BY <1>1, <1>2, <1>3, <1>4 DEF RequestFits, SeenFits, PlanFits, AllReplaced
  <2>2. CommitFits(r)'
    BY <1>1, <1>2, <1>3, <1>4 DEF RequestFits, CommitFits, IsMade, repository
  <2> QED BY <2>1, <2>2 DEF RequestFits
<1> QED BY <1>5, <1>6, <1>7, <1>8, StepFits

LEMMA ChecksKeeps ==
    ASSUME IInv, NEW r \in Requests, Checks(r)
    PROVE  IInv'
<1>1. RepoShape /\ TypeOK /\ LockFits /\ RequestFits(r)
  BY Shape DEF IInv
<1>2. /\ phase[r] = "checking" /\ receipt[r] = None /\ MayAct(r)
      /\ phase' = [phase EXCEPT ![r] = "acting"] /\ disturbed' = disturbed
      /\ UNCHANGED repository /\ load' = load /\ seen' = seen /\ holder' = holder
      /\ receipt' = receipt /\ running' = running /\ others' = others /\ abandoned' = abandoned
      /\ overwrote' = overwrote /\ misnamed' = misnamed
  BY DEF Checks, Unsealed, history
<1>3. MakesNone /\ head' = head
  BY <1>1, <1>2, RepositoryStays
<1>4. phase'[r] = "acting" /\ \A p \in Requests \ {r} : phase'[p] = phase[p]
  BY <1>1, <1>2 DEF TypeOK
<1>5. TypeOK' /\ History'
  <2>1. phase' \in [Requests -> {"idle", "checking", "acting", "sealing"}]
    BY <1>1, <1>2 DEF TypeOK
  <2> QED BY <1>1, <1>2, <1>3, <2>1, ShapeTyped DEF MakesNone, Keeps, TypeOK
<1>6. \A p \in Requests \ {r} : Untouched(p)
  BY <1>2, <1>3, <1>4 DEF Untouched, MakesNone, Keeps
<1>7. LockFits'
  BY <1>1, <1>2, <1>4 DEF LockFits
<1>8. RequestFits(r)'
  <2>1. SeenFits(r)' /\ PlanFits(r)'
    BY <1>1, <1>2, <1>3, <1>4 DEF RequestFits, SeenFits, PlanFits, AllReplaced
  <2>2. r \in Guarded \ abandoned => \A c : ~IsMade(c, r)
    <3>1. r \in Guarded => r \in Commits /\ head = seen[r].head
      BY <1>2, WritesAssumption DEF MayAct, MayCommit
    <3>2. head \in Nat
      BY <1>1, CommitTypes DEF RepoShape, History
    <3> QED BY <1>1, <3>1, <3>2 DEF RequestFits, CommitFits
  <2>3. CommitFits(r)'
    BY <1>1, <1>2, <1>3, <1>4, <2>2 DEF RequestFits, CommitFits, IsMade, repository
  <2> QED BY <2>1, <2>3 DEF RequestFits
<1> QED BY <1>5, <1>6, <1>7, <1>8, StepFits

\* A request that gives the lock back.
LEMMA ReleaseEffect ==
    ASSUME IInv, NEW r \in Requests, phase[r] # "idle", Release(r)
    PROVE  /\ phase' \in [Requests -> {"idle", "checking", "acting", "sealing"}]
           /\ phase'[r] = "idle" /\ \A p \in Requests : phase'[p] = "idle"
           /\ \A p \in Requests \ {r} : phase'[p] = phase[p]
           /\ holder' = None
  BY Shape DEF Release, IInv, LockFits

\* What a request that ends leaves, if it made nothing.
LEMMA EndedFits ==
    ASSUME IInv, RepoShape', NEW r \in Requests, phase'[r] = "idle",
           seen'[r] = seen[r], receipt'[r] = receipt[r], abandoned \subseteq abandoned',
           misnamed' = misnamed, MakesNone
    PROVE  SeenFits(r)' /\ CommitFits(r)'
<1>1. RequestFits(r) /\ head \in Nat /\ head' \in Nat /\ head <= head'
      /\ (seen[r] # None => seen[r].head \in Nat)
  BY HeadTypes DEF IInv, MakesNone, Keeps
<1>2. SeenFits(r)'
  BY <1>1 DEF RequestFits, SeenFits
<1>3. CommitFits(r)'
  <2> SUFFICES ASSUME r \in Commits PROVE CommitFits(r)'
    BY DEF CommitFits
  <2>1. \A c : IsMade(c, r)' <=> IsMade(c, r)
    BY DEF MakesNone
  <2>2. \A c : IsMade(c, r) => c \in Nat /\ c <= head
    BY <1>1 DEF RequestFits, CommitFits, IsMade
  <2>3. \A c : IsMade(c, r)' => c <= head'
    BY <1>1, <2>1, <2>2
  <2>4. receipt'[r] # None =>
           /\ \E c : IsMade(c, r)'
           /\ r \notin misnamed' => receipt'[r] = receipt[r] /\ \E c : c = receipt[r] /\ IsMade(c, r)'
    BY <1>1, <2>1 DEF RequestFits, CommitFits
  <2>5. receipt'[r] # None /\ r \notin misnamed' => IsMade(receipt[r], r)'
    BY <2>4 DEF IsMade
  <2>6. r \notin abandoned' /\ receipt'[r] # None => \A c : IsMade(c, r)' => c <= receipt'[r]
    BY <1>1, <2>1 DEF RequestFits, CommitFits
  <2>7. r \in Guarded \ abandoned' =>
           /\ \A c : IsMade(c, r)' => seen'[r] # None /\ seen'[r].head < head' /\ phase'[r] # "acting"
           /\ \A c, d : IsMade(c, r)' /\ IsMade(d, r)' => c = d
    BY <1>1, <2>1 DEF RequestFits, CommitFits
  <2> QED BY <2>3, <2>4, <2>5, <2>6, <2>7 DEF CommitFits
<1> QED BY <1>2, <1>3

LEMMA EndsKeeps ==
    ASSUME IInv, NEW r \in Requests, Ends(r)
    PROVE  IInv'
<1>1. RepoShape /\ TypeOK /\ LockFits /\ RequestFits(r)
  BY Shape DEF IInv
<1>2. /\ phase[r] # "idle" /\ Release(r) /\ disturbed' = disturbed
      /\ UNCHANGED repository /\ load' = load /\ seen' = seen
      /\ receipt' = receipt /\ running' = running /\ others' = others /\ abandoned' = abandoned
      /\ overwrote' = overwrote /\ misnamed' = misnamed
  BY DEF Ends, history
<1>3. MakesNone /\ head' = head
  BY <1>1, <1>2, RepositoryStays
<1>4. /\ phase' \in [Requests -> {"idle", "checking", "acting", "sealing"}]
      /\ phase'[r] = "idle" /\ \A p \in Requests : phase'[p] = "idle"
      /\ \A p \in Requests \ {r} : phase'[p] = phase[p]
      /\ holder' = None
  BY <1>2, ReleaseEffect
<1>5. TypeOK' /\ History'
  BY <1>1, <1>2, <1>3, <1>4, ShapeTyped DEF MakesNone, Keeps, TypeOK
<1>6. \A p \in Requests \ {r} : Untouched(p)
  BY <1>2, <1>3, <1>4 DEF Untouched, MakesNone, Keeps
<1>7. LockFits'
  BY <1>1, <1>2, <1>4 DEF LockFits
<1>8. SeenFits(r)' /\ CommitFits(r)'
  <2>1. seen'[r] = seen[r] /\ receipt'[r] = receipt[r] /\ abandoned \subseteq abandoned'
    BY <1>2
  <2> QED BY <1>2, <1>3, <1>4, <2>1, EndedFits DEF MakesNone, Keeps
<1>9. PlanFits(r)'
  BY <1>1, <1>2, <1>4 DEF RequestFits, PlanFits, AllReplaced
<1> QED BY <1>5, <1>6, <1>7, <1>8, <1>9, StepFits DEF RequestFits

LEMMA ActsUnsealedKeeps ==
    ASSUME IInv, NEW r \in Requests, ActsUnsealed(r)
    PROVE  IInv'
<1>1. RepoShape /\ TypeOK /\ LockFits /\ RequestFits(r)
  BY Shape DEF IInv
<1>2. /\ phase[r] # "idle" /\ Release(r) /\ disturbed' = disturbed /\ (GitAdd \/ GitForward)
      /\ load' = load /\ seen' = seen
      /\ receipt' = receipt /\ running' = running /\ others' = others /\ abandoned' = abandoned
      /\ overwrote' = overwrote /\ misnamed' = misnamed
  BY DEF ActsUnsealed, history
<1>3. MakesNone
  BY <1>1, <1>2, GitAddMakes, GitForwardMakes
<1>4. /\ phase' \in [Requests -> {"idle", "checking", "acting", "sealing"}]
      /\ phase'[r] = "idle" /\ \A p \in Requests : phase'[p] = "idle"
      /\ \A p \in Requests \ {r} : phase'[p] = phase[p] /\ phase[p] = "idle"
      /\ holder' = None
  BY <1>2, ReleaseEffect, OthersIdle
<1>5. TypeOK' /\ History'
  BY <1>1, <1>2, <1>3, <1>4, ShapeTyped DEF MakesNone, Keeps, TypeOK
<1>6. \A p \in Requests \ {r} : Untouched(p)
  BY <1>2, <1>3, <1>4 DEF Untouched, MakesNone, Keeps
<1>7. LockFits'
  BY <1>1, <1>2, <1>4 DEF LockFits
<1>8. SeenFits(r)' /\ CommitFits(r)'
  <2>1. seen'[r] = seen[r] /\ receipt'[r] = receipt[r] /\ abandoned \subseteq abandoned'
    BY <1>2
  <2> QED BY <1>2, <1>3, <1>4, <2>1, EndedFits DEF MakesNone, Keeps
<1>9. PlanFits(r)'
  BY <1>1, <1>2, <1>4 DEF RequestFits, PlanFits, AllReplaced
<1> QED BY <1>5, <1>6, <1>7, <1>8, <1>9, StepFits DEF RequestFits

LEMMA AbandonsKeeps ==
    ASSUME IInv, NEW r \in Requests, Abandons(r)
    PROVE  IInv'
<1>1. RepoShape /\ TypeOK /\ LockFits /\ RequestFits(r)
  BY Shape DEF IInv
<1>2. /\ phase[r] # "idle" /\ Release(r) /\ disturbed' = disturbed /\ r \notin Plans
      /\ load' = load /\ seen' = seen /\ UNCHANGED repository
      /\ receipt' = receipt /\ others' = others
      /\ running' = running \cup {r} /\ abandoned' = abandoned \cup {r}
      /\ overwrote' = overwrote /\ misnamed' = misnamed
  BY DEF Abandons
<1>3. MakesNone /\ head' = head
  BY <1>1, <1>2, RepositoryStays
<1>4. /\ phase' \in [Requests -> {"idle", "checking", "acting", "sealing"}]
      /\ phase'[r] = "idle" /\ \A p \in Requests : phase'[p] = "idle"
      /\ \A p \in Requests \ {r} : phase'[p] = phase[p]
      /\ holder' = None
  BY <1>2, ReleaseEffect
<1>5. TypeOK' /\ History'
  BY <1>1, <1>2, <1>3, <1>4, ShapeTyped DEF MakesNone, Keeps, TypeOK
<1>6. \A p \in Requests \ {r} : Untouched(p)
  BY <1>2, <1>3, <1>4 DEF Untouched, MakesNone, Keeps
<1>7. LockFits'
  <2>1. r \in Commits \cup Pushes => seen[r] # None
    BY <1>1, <1>2 DEF RequestFits, SeenFits
  <2> QED BY <1>1, <1>2, <1>4, <2>1 DEF LockFits
<1>8. SeenFits(r)' /\ CommitFits(r)'
  <2>1. seen'[r] = seen[r] /\ receipt'[r] = receipt[r] /\ abandoned \subseteq abandoned'
    BY <1>2
  <2> QED BY <1>2, <1>3, <1>4, <2>1, EndedFits DEF MakesNone, Keeps
<1>9. PlanFits(r)'
  BY <1>1, <1>2, <1>4 DEF RequestFits, PlanFits, AllReplaced
<1> QED BY <1>5, <1>6, <1>7, <1>8, <1>9, StepFits DEF RequestFits

\* The changes of a plan replace what its author has seen.
LEMMA ChangeEffect ==
    ASSUME IInv, NEW r \in Plans, NEW n \in 1..NFiles, Change(r, n), seen[r] # None
    PROVE  /\ MakesNone /\ head' = head
           /\ overwrote' \subseteq (Plans \X Files \X Authors)
           /\ \A p, f, a : <<p, f, a>> \in overwrote' <=>
                 <<p, f, a>> \in overwrote \/ (p = r /\ f \in 1..n /\ a = seen[r].tree[f])
<1>1. RepoShape /\ TypeOK /\ r \in Authors /\ NFiles \in Nat
  BY Shape, WritesAssumption DEF IInv, Authors, Requests
<1>2. /\ tree = seen[r].tree /\ tree' = [f \in Files |-> IF f <= n THEN r ELSE tree[f]]
      /\ overwrote' = overwrote \cup {<<r, f, tree[f]>> : f \in 1..n}
      /\ index' = index /\ commits' = commits /\ head' = head /\ remote' = remote
      /\ upstream' = upstream
  BY DEF Change, Expected
<1>3. tree \in [Files -> Authors] /\ tree' \in [Files -> Authors]
  BY <1>1, <1>2 DEF TypeOK, Snapshots
<1>4. MakesNone
  <2>1. head <= head
    BY <1>1, CommitTypes DEF RepoShape, History
  <2> QED BY <1>1, <1>2, <1>3, <2>1 DEF MakesNone, Keeps, RepoShape, History, IsMade, Snapshots
<1>5. 1..n \subseteq Files
  BY <1>1 DEF Files
<1>6. overwrote' \subseteq (Plans \X Files \X Authors)
  <2>1. \A f \in 1..n : <<r, f, tree[f]>> \in Plans \X Files \X Authors
    BY <1>3, <1>5
  <2>2. overwrote \subseteq (Plans \X Files \X Authors)
    BY <1>1 DEF TypeOK
  <2> QED BY <1>2, <2>1, <2>2
<1> QED BY <1>2, <1>4, <1>6

\* What a plan has replaced after a change of its first n files.
LEMMA ChangedFits ==
    ASSUME IInv, NEW r \in Plans, NEW n \in 1..NFiles, Change(r, n), phase[r] = "acting",
           seen' = seen, receipt' = receipt, phase'[r] # "sealing" \/ n = NFiles
    PROVE  PlanFits(r)'
<1>1. RequestFits(r) /\ r \in Requests /\ NFiles \in Nat
  BY WritesAssumption DEF IInv, Requests
<1>2. seen[r] # None /\ receipt[r] = None
  BY <1>1 DEF RequestFits, SeenFits
<1>3. \A p, f, a : <<p, f, a>> \in overwrote' <=>
         <<p, f, a>> \in overwrote \/ (p = r /\ f \in 1..n /\ a = seen[r].tree[f])
  BY <1>2, ChangeEffect
<1>4. ASSUME NEW f \in Files, NEW a \in Authors, <<r, f, a>> \in overwrote'
      PROVE  a = seen[r].tree[f]
  BY <1>1, <1>3, <1>4 DEF RequestFits, PlanFits
<1>5. n = NFiles => \A f \in Files : \E a \in Authors : <<r, f, a>> \in overwrote'
  <2>1. \A f \in Files : seen[r].tree[f] \in Authors
    <3>1. seen[r] \in Seen
      BY <1>1, <1>2, Shape
    <3> QED BY <3>1 DEF Seen, Snapshots
  <2> QED BY <1>3, <2>1 DEF Files
<1> QED BY <1>2, <1>4, <1>5 DEF PlanFits, AllReplaced

LEMMA BreaksKeeps ==
    ASSUME IInv, NEW r \in Requests, Breaks(r)
    PROVE  IInv'
<1>1. RepoShape /\ TypeOK /\ LockFits /\ RequestFits(r)
  BY Shape DEF IInv
<1>2. /\ phase[r] = "acting" /\ r \in Plans /\ Release(r) /\ disturbed' = disturbed
      /\ load' = load /\ seen' = seen
      /\ receipt' = receipt /\ running' = running /\ others' = others /\ abandoned' = abandoned
      /\ misnamed' = misnamed
  BY DEF Breaks
<1>3. PICK n \in 1..(NFiles - 1) : Change(r, n)
  BY DEF Breaks
<1>4. n \in 1..NFiles /\ seen[r] # None
  BY <1>1, <1>2, WritesAssumption DEF RequestFits, SeenFits
<1>5. /\ MakesNone /\ head' = head
      /\ overwrote' \subseteq (Plans \X Files \X Authors)
      /\ \A p, f, a : <<p, f, a>> \in overwrote' <=>
            <<p, f, a>> \in overwrote \/ (p = r /\ f \in 1..n /\ a = seen[r].tree[f])
  BY <1>2, <1>3, <1>4, ChangeEffect
<1>6. /\ phase' \in [Requests -> {"idle", "checking", "acting", "sealing"}]
      /\ phase'[r] = "idle" /\ \A p \in Requests : phase'[p] = "idle"
      /\ \A p \in Requests \ {r} : phase'[p] = phase[p]
      /\ holder' = None
  BY <1>2, ReleaseEffect
<1>7. TypeOK' /\ History'
  BY <1>1, <1>2, <1>5, <1>6, ShapeTyped DEF MakesNone, Keeps, TypeOK
<1>8. \A p \in Requests \ {r} : Untouched(p)
  BY <1>2, <1>5, <1>6 DEF Untouched, MakesNone, Keeps
<1>9. LockFits'
  BY <1>1, <1>2, <1>6 DEF LockFits
<1>10. SeenFits(r)' /\ CommitFits(r)'
  <2>1. seen'[r] = seen[r] /\ receipt'[r] = receipt[r] /\ abandoned \subseteq abandoned'
    BY <1>2
  <2> QED BY <1>2, <1>5, <1>6, <2>1, EndedFits DEF MakesNone, Keeps
<1>11. PlanFits(r)'
  BY <1>2, <1>3, <1>4, <1>6, ChangedFits
<1> QED BY <1>7, <1>8, <1>9, <1>10, <1>11, StepFits DEF RequestFits

LEMMA ActsKeeps ==
    ASSUME IInv, NEW r \in Requests, Acts(r)
    PROVE  IInv'
<1>1. RepoShape /\ TypeOK /\ LockFits /\ RequestFits(r)
  BY Shape DEF IInv
<1>2. /\ phase[r] = "acting" /\ phase' = [phase EXCEPT ![r] = "sealing"]
      /\ load' = load /\ seen' = seen /\ holder' = holder
      /\ receipt' = receipt /\ running' = running /\ others' = others /\ abandoned' = abandoned
      /\ disturbed' = disturbed /\ misnamed' = misnamed
  BY DEF Acts
<1>3. /\ phase' \in [Requests -> {"idle", "checking", "acting", "sealing"}]
      /\ phase'[r] = "sealing"
      /\ \A p \in Requests \ {r} : phase'[p] = phase[p] /\ phase[p] = "idle"
  BY <1>1, <1>2, OthersIdle DEF TypeOK
<1>4. LockFits'
  BY <1>1, <1>2, <1>3 DEF LockFits
<1>5. receipt[r] = None /\ (r \in Plans \cup Commits \cup Pushes => seen[r] # None)
  BY <1>1, <1>2 DEF RequestFits, SeenFits
<1>6. ASSUME Keeps PROVE SeenFits(r)'
  <2>1. head \in Nat /\ head' \in Nat /\ head <= head' /\ (seen[r] # None => seen[r].head \in Nat)
    BY <1>6, HeadTypes DEF Keeps
  <2> QED BY <1>1, <1>2, <1>3, <2>1 DEF RequestFits, SeenFits
<1>7. CASE r \in Plans /\ Change(r, NFiles)
  <2>1. NFiles \in 1..NFiles
    BY WritesAssumption
  <2>2. /\ MakesNone /\ head' = head
        /\ overwrote' \subseteq (Plans \X Files \X Authors)
        /\ \A p, f, a : <<p, f, a>> \in overwrote' <=>
              <<p, f, a>> \in overwrote \/ (p = r /\ f \in 1..NFiles /\ a = seen[r].tree[f])
    BY <1>5, <1>7, <2>1, ChangeEffect
  <2>3. TypeOK' /\ History'
    BY <1>1, <1>2, <1>3, <2>2, ShapeTyped DEF MakesNone, Keeps, TypeOK
  <2>4. \A p \in Requests \ {r} : Untouched(p)
    BY <1>2, <1>3, <2>2 DEF Untouched, MakesNone, Keeps
  <2>5. PlanFits(r)'
    BY <1>2, <1>7, <2>1, ChangedFits
  <2>6. CommitFits(r)'
    BY <1>7, OneKind DEF CommitFits
  <2> QED BY <1>4, <1>6, <2>2, <2>3, <2>4, <2>5, <2>6, StepFits DEF RequestFits, MakesNone
<1>8. CASE r \in Commits /\ GitCommit(r) /\ UNCHANGED overwrote
  <2>1. Makes(r) /\ head' = Len(commits) + 1
    BY <1>1, <1>8, GitCommitMakes
  <2>2. TypeOK' /\ History'
    BY <1>1, <1>2, <1>3, <1>8, <2>1, ShapeTyped DEF Makes, Keeps, TypeOK
  <2>3. \A p \in Requests \ {r} : Untouched(p)
    BY <1>2, <1>3, <1>8, <2>1 DEF Untouched, Makes, Keeps
  <2>4. PlanFits(r)'
    BY <1>8, OneKind DEF PlanFits
  <2>5. \A c : IsMade(c, r)' <=> IsMade(c, r) \/ c = Len(commits) + 1
    BY <2>1 DEF Makes
  <2>6. Len(commits) \in Nat /\ head <= Len(commits) /\ head \in Nat
        /\ \A c : IsMade(c, r) => c \in Nat /\ c <= Len(commits)
    BY <1>1, CommitTypes DEF RepoShape, History, IsMade
  <2>7. CommitFits(r)'
    <3>1. \A c : IsMade(c, r)' => c <= head'
      BY <2>1, <2>5, <2>6
    <3>2. \E c : c = head' /\ IsMade(c, r)'
      BY <2>1, <2>5
    <3>3. IsMade(head, r)'
      BY <3>2 DEF IsMade
    <3>4. r \in Guarded \ abandoned => \A c : ~IsMade(c, r)
      BY <1>1, <1>2, <1>8 DEF RequestFits, CommitFits
    <3>5. r \in Guarded \ abandoned => \A c : IsMade(c, r)' => c = Len(commits) + 1
      BY <2>5, <3>4
    <3>6. seen[r] # None /\ seen[r].head \in Nat /\ seen[r].head < head'
      <4>1. seen[r] # None /\ seen[r].head <= head
        BY <1>1, <1>5, <1>8 DEF RequestFits, SeenFits
      <4>2. seen[r] \in Seen
        BY <4>1, Shape
      <4>3. seen[r].head \in Nat
        BY <4>2 DEF Seen, CommitIds
      <4> QED BY <2>1, <2>6, <4>1, <4>3
    <3> QED BY <1>2, <1>3, <1>5, <3>1, <3>2, <3>3, <3>5, <3>6 DEF CommitFits
  <2> QED BY <1>4, <1>6, <2>1, <2>2, <2>3, <2>4, <2>7, StepFits DEF RequestFits, Makes
<1>9. CASE r \in Pushes /\ GitPush(r) /\ UNCHANGED overwrote
  <2>1. seen[r] \in Seen /\ seen[r].head <= head
    BY <1>1, <1>5, <1>9, Shape DEF RequestFits, SeenFits
  <2>2. MakesNone /\ head' = head
    BY <1>1, <1>9, <2>1, GitPushMakes
  <2>3. TypeOK' /\ History'
    BY <1>1, <1>2, <1>3, <1>9, <2>2, ShapeTyped DEF MakesNone, Keeps, TypeOK
  <2>4. \A p \in Requests \ {r} : Untouched(p)
    BY <1>2, <1>3, <1>9, <2>2 DEF Untouched, MakesNone, Keeps
  <2>5. PlanFits(r)' /\ CommitFits(r)'
    BY <1>9, OneKind DEF PlanFits, CommitFits
  <2> QED BY <1>4, <1>6, <2>2, <2>3, <2>4, <2>5, StepFits DEF RequestFits, MakesNone
<1> QED BY <1>7, <1>8, <1>9 DEF Acts

LEMMA SealsKeeps ==
    ASSUME IInv, NEW r \in Requests, Seals(r)
    PROVE  IInv'
<1>1. RepoShape /\ TypeOK /\ LockFits /\ RequestFits(r)
  BY Shape DEF IInv
<1> DEFINE h == IF r \in Pushes THEN seen[r].head ELSE head
<1>2. /\ phase[r] = "sealing" /\ r \notin Stages \cup Forwards /\ Release(r)
      /\ receipt' = [receipt EXCEPT ![r] = h]
      /\ misnamed' = IF disturbed THEN misnamed \cup {r} ELSE misnamed \ {r}
      /\ UNCHANGED repository
      /\ load' = load /\ seen' = seen /\ running' = running /\ others' = others
      /\ abandoned' = abandoned /\ disturbed' = disturbed /\ overwrote' = overwrote
  BY DEF Seals, MaySeal
<1>3. MakesNone /\ head' = head
  BY <1>1, <1>2, RepositoryStays
<1>4. /\ phase' \in [Requests -> {"idle", "checking", "acting", "sealing"}]
      /\ phase'[r] = "idle" /\ \A p \in Requests : phase'[p] = "idle"
      /\ \A p \in Requests \ {r} : phase'[p] = phase[p]
      /\ holder' = None
  BY <1>2, ReleaseEffect
<1>5. h \in CommitIds
  <2>1. CASE r \in Pushes
    <3>1. seen[r] \in Seen
      BY <1>1, <1>2, <2>1, Shape DEF RequestFits, SeenFits
    <3> QED BY <2>1, <3>1 DEF Seen
  <2>2. CASE r \notin Pushes
    BY <1>1, <2>2 DEF TypeOK
  <2> QED BY <2>1, <2>2
<1> HIDE DEF h
<1>6. /\ receipt' \in [Requests -> CommitIds \cup {None}] /\ receipt'[r] = h
      /\ \A p \in Requests \ {r} : receipt'[p] = receipt[p]
  BY <1>1, <1>2, <1>5 DEF TypeOK
<1>7. misnamed' \subseteq Requests
  BY <1>1, <1>2 DEF TypeOK
<1>8. TypeOK' /\ History'
  BY <1>1, <1>2, <1>3, <1>4, <1>6, <1>7, ShapeTyped DEF MakesNone, Keeps, TypeOK
<1>9. \A p \in Requests \ {r} : Untouched(p)
  <2>1. \A p \in Requests \ {r} : p \in misnamed' <=> p \in misnamed
    BY <1>2
  <2> QED BY <1>2, <1>3, <1>4, <1>6, <2>1 DEF Untouched, MakesNone, Keeps
<1>10. LockFits'
  BY <1>1, <1>2, <1>4 DEF LockFits
<1>11. SeenFits(r)'
  BY <1>1, <1>2, <1>3, <1>4 DEF RequestFits, SeenFits
<1>12. PlanFits(r)'
  BY <1>1, <1>2, <1>4 DEF RequestFits, PlanFits, AllReplaced
<1>13. CommitFits(r)'
  <2> SUFFICES ASSUME r \in Commits PROVE CommitFits(r)'
    BY DEF CommitFits
  <2>1. h = head
    BY OneKind DEF h
  <2>2. \A c : IsMade(c, r)' <=> IsMade(c, r)
    BY <1>3 DEF MakesNone
  <2>3. /\ \A c : IsMade(c, r)' => c <= head
        /\ \E c : IsMade(c, r)'
        /\ ~disturbed => \E c : c = head /\ IsMade(c, r)'
        /\ r \in Guarded \ abandoned =>
              /\ \A c : IsMade(c, r)' => seen[r] # None /\ seen[r].head < head
              /\ \A c, d : IsMade(c, r)' /\ IsMade(d, r)' => c = d
    BY <1>1, <1>2, <2>2 DEF RequestFits, CommitFits
  <2>4. r \notin misnamed' => ~disturbed
    BY <1>2
  <2>5. r \notin misnamed' => IsMade(head, r)'
    BY <1>3, <2>3, <2>4 DEF IsMade
  <2>6. r \notin misnamed' => IsMade(receipt[r], r)'
    BY <1>3, <1>6, <2>1, <2>5 DEF IsMade
  <2> QED BY <1>2, <1>3, <1>4, <1>6, <2>1, <2>3, <2>6 DEF CommitFits
<1> QED BY <1>8, <1>9, <1>10, <1>11, <1>12, <1>13, StepFits DEF RequestFits
-----------------------------------------------------------------------------
(* Those without the lock.                                                 *)

LEMMA LeftOverActsKeeps ==
    ASSUME IInv, NEW r \in Requests, LeftOverActs(r)
    PROVE  IInv'
<1>1. RepoShape /\ TypeOK /\ LockFits /\ RequestFits(r)
  BY Shape DEF IInv
<1>2. /\ r \in running /\ running' = running \ {r} /\ disturbed' = TRUE
      /\ load' = load /\ seen' = seen /\ holder' = holder /\ phase' = phase
      /\ receipt' = receipt /\ others' = others /\ abandoned' = abandoned
      /\ overwrote' = overwrote /\ misnamed' = misnamed
  BY DEF LeftOverActs, Disturbs
<1>3. r \in abandoned /\ (r \in Commits \cup Pushes => seen[r] # None)
  BY <1>1, <1>2 DEF LockFits
<1>4. ASSUME Keeps PROVE TypeOK' /\ History' /\ LockFits'
  BY <1>1, <1>2, <1>4, ShapeTyped DEF Keeps, TypeOK, LockFits
<1>5. CASE MakesNone
  <2>1. \A p \in Requests : Untouched(p)
    BY <1>2, <1>5 DEF Untouched, MakesNone, Keeps
  <2> QED BY <1>4, <1>5, <2>1, OthersFit DEF MakesNone
<1>6. CASE r \in Commits /\ GitCommit(r)
  <2>1. Makes(r) /\ head' = Len(commits) + 1
    BY <1>1, <1>6, GitCommitMakes
  <2>2. \A p \in Requests \ {r} : Untouched(p)
    BY <1>2, <2>1 DEF Untouched, Makes, Keeps
  <2>3. PlanFits(r)'
    BY <1>6, OneKind DEF PlanFits
  <2>4. SeenFits(r)'
    <3>1. head \in Nat /\ head' \in Nat /\ head <= head' /\ (seen[r] # None => seen[r].head \in Nat)
      BY <2>1, HeadTypes DEF Makes, Keeps
    <3> QED BY <1>1, <1>2, <3>1 DEF RequestFits, SeenFits
  <2>5. \A c : IsMade(c, r)' <=> IsMade(c, r) \/ c = Len(commits) + 1
    BY <2>1 DEF Makes
  <2>6. Len(commits) \in Nat /\ \A c : IsMade(c, r) => c \in Nat /\ c <= Len(commits)
    BY <1>1, CommitTypes DEF RepoShape, History, IsMade
  <2>7. CommitFits(r)'
    <3>1. \A c : IsMade(c, r)' => c <= head'
      BY <2>1, <2>5, <2>6
    <3>2. receipt'[r] # None /\ r \notin misnamed' => \E c : c = receipt[r] /\ IsMade(c, r)'
      BY <1>1, <1>2, <1>6, <2>5 DEF RequestFits, CommitFits
    <3>3. receipt'[r] # None /\ r \notin misnamed' => IsMade(receipt[r], r)'
      BY <1>2, <3>2 DEF IsMade
    <3>4. \E c : IsMade(c, r)'
      BY <2>5
    <3> QED BY <1>2, <1>3, <3>1, <3>3, <3>4 DEF CommitFits
  <2> QED BY <1>4, <2>1, <2>2, <2>3, <2>4, <2>7, StepFits DEF RequestFits, Makes
<1>7. CASE r \in Stages /\ GitAdd
  BY <1>1, <1>5, <1>7, GitAddMakes
<1>8. CASE r \in Pushes /\ GitPush(r)
  <2>1. seen[r] \in Seen /\ seen[r].head <= head
    BY <1>1, <1>3, <1>8, Shape DEF RequestFits, SeenFits
  <2> QED BY <1>1, <1>5, <1>8, <2>1, GitPushMakes
<1>9. CASE r \in Forwards /\ GitForward
  BY <1>1, <1>5, <1>9, GitForwardMakes
<1> QED BY <1>6, <1>7, <1>8, <1>9 DEF LeftOverActs

LEMMA LeftOverEndsKeeps ==
    ASSUME IInv, NEW r \in Requests, LeftOverEnds(r)
    PROVE  IInv'
<1>1. RepoShape /\ TypeOK /\ LockFits
  BY Shape DEF IInv
<1>2. /\ running' = running \ {r} /\ UNCHANGED repository /\ disturbed' = disturbed
      /\ load' = load /\ seen' = seen /\ holder' = holder /\ phase' = phase
      /\ receipt' = receipt /\ others' = others /\ abandoned' = abandoned
      /\ overwrote' = overwrote /\ misnamed' = misnamed
  BY DEF LeftOverEnds, history
<1>3. MakesNone /\ head' = head
  BY <1>1, <1>2, RepositoryStays
<1>4. TypeOK' /\ History' /\ LockFits'
  BY <1>1, <1>2, <1>3, ShapeTyped DEF MakesNone, Keeps, TypeOK, LockFits
<1>5. \A p \in Requests : Untouched(p)
  BY <1>2, <1>3 DEF Untouched, MakesNone, Keeps
<1> QED BY <1>4, <1>5, OthersFit

\* Jobs, the owner and the team make commits of their own, which move the head
\* forward or leave it.
LEMMA OutsidersKeep ==
    ASSUME IInv, NEW by \in {"job", "team"}, MakesNone \/ Makes(by),
           head' = head \/ disturbed' = TRUE, others' \in Nat, UNCHANGED <<load, seen, requests>>,
           disturbed' \in BOOLEAN, disturbed' = disturbed \/ disturbed' = TRUE,
           UNCHANGED <<abandoned, overwrote, misnamed>>
    PROVE  IInv'
<1>1. RepoShape /\ TypeOK /\ LockFits
  BY Shape DEF IInv
<1>2. /\ load' = load /\ seen' = seen /\ holder' = holder /\ phase' = phase /\ running' = running
      /\ receipt' = receipt /\ abandoned' = abandoned
      /\ overwrote' = overwrote /\ misnamed' = misnamed
  BY DEF requests
<1>3. TypeOK' /\ History' /\ LockFits'
  BY <1>1, <1>2, ShapeTyped DEF MakesNone, Makes, Keeps, TypeOK, LockFits
<1>4. ASSUME NEW p \in Requests
      PROVE  Untouched(p)
  <2>1. p # by
    BY WritesAssumption
  <2>2. (\A c : IsMade(c, p)' <=> IsMade(c, p)) /\ head <= head'
    BY <2>1 DEF MakesNone, Makes, Keeps
  <2> QED BY <1>2, <2>2 DEF Untouched
<1> QED BY <1>3, <1>4, OthersFit

LEMMA JobEditsKeeps ==
    ASSUME IInv, NEW f \in Files, JobEdits(f)
    PROVE  IInv'
<1>1. RepoShape /\ TypeOK
  BY Shape DEF IInv
<1>2. /\ tree' = [tree EXCEPT ![f] = "job"] /\ index' = index /\ commits' = commits
      /\ head' = head /\ remote' = remote /\ upstream' = upstream
      /\ others' \in Nat /\ disturbed' = TRUE /\ UNCHANGED <<abandoned, overwrote, misnamed>>
      /\ UNCHANGED <<load, seen, requests>>
  BY <1>1 DEF JobEdits, Act, Disturbs, TypeOK
<1>3. tree' \in Snapshots
  BY <1>1, <1>2 DEF TypeOK, Snapshots, Authors
<1>4. head <= head
  BY <1>1, CommitTypes DEF RepoShape, History
<1>5. MakesNone
  BY <1>1, <1>2, <1>3, <1>4 DEF MakesNone, Keeps, RepoShape, History, IsMade
<1>6. "job" \in {"job", "team"} /\ disturbed' \in BOOLEAN
  BY <1>2
<1> QED BY <1>2, <1>5, <1>6, OutsidersKeep

LEMMA JobCommitsKeeps ==
    ASSUME IInv, JobCommits
    PROVE  IInv'
<1>1. RepoShape /\ TypeOK
  BY Shape DEF IInv
<1>2. /\ NewCommit(head, tree, "job") /\ head' = Len(commits) + 1
      /\ index' = tree /\ tree' = tree /\ remote' = remote /\ upstream' = upstream
      /\ others' \in Nat /\ disturbed' = TRUE /\ UNCHANGED <<abandoned, overwrote, misnamed>>
      /\ UNCHANGED <<load, seen, requests>>
  BY <1>1 DEF JobCommits, Act, Disturbs, TypeOK
<1>3. /\ head \in 1..Len(commits) /\ remote \in 1..Len(commits) /\ upstream \in 1..Len(commits)
      /\ tree \in Snapshots /\ "job" \in Authors /\ Len(commits) \in Nat
  BY <1>1, CommitTypes DEF RepoShape, History, Authors
<1>4. /\ commits' \in Seq(Commit) /\ Len(commits') = Len(commits) + 1
      /\ Len(commits') <= MaxCommits
      /\ \A c \in 1..Len(commits') : commits'[c].parent < c
      /\ \A c, q : IsMade(c, q)' <=> IsMade(c, q) \/ (c = Len(commits) + 1 /\ q = "job")
  BY <1>1, <1>2, <1>3, NewCommitEffect
<1>5. Makes("job")
  BY <1>2, <1>3, <1>4 DEF Makes, Keeps, RepoShape, History
<1>6. "job" \in {"job", "team"} /\ disturbed' \in BOOLEAN
  BY <1>2
<1> QED BY <1>2, <1>5, <1>6, OutsidersKeep

LEMMA TeamPushesKeeps ==
    ASSUME IInv, TeamPushes
    PROVE  IInv'
<1>1. RepoShape /\ TypeOK
  BY Shape DEF IInv
<1> DEFINE snap == [f \in Files |-> "team"]
<1>2. /\ NewCommit(remote, snap, "team") /\ remote' = Len(commits) + 1
      /\ tree' = tree /\ index' = index /\ head' = head /\ upstream' = upstream
      /\ others' \in Nat /\ disturbed' = TRUE /\ UNCHANGED <<abandoned, overwrote, misnamed>>
      /\ UNCHANGED <<load, seen, requests>>
  BY <1>1 DEF TeamPushes, Act, Disturbs, TypeOK
<1>3. /\ head \in 1..Len(commits) /\ remote \in 1..Len(commits) /\ upstream \in 1..Len(commits)
      /\ tree \in Snapshots /\ index \in Snapshots /\ snap \in Snapshots
      /\ "team" \in Authors /\ Len(commits) \in Nat
  BY <1>1, CommitTypes DEF RepoShape, History, Authors, Snapshots
<1> HIDE DEF snap
<1>4. /\ commits' \in Seq(Commit) /\ Len(commits') = Len(commits) + 1
      /\ Len(commits') <= MaxCommits
      /\ \A c \in 1..Len(commits') : commits'[c].parent < c
      /\ \A c, q : IsMade(c, q)' <=> IsMade(c, q) \/ (c = Len(commits) + 1 /\ q = "team")
  BY <1>1, <1>2, <1>3, NewCommitEffect
<1>5. Makes("team")
  BY <1>2, <1>3, <1>4 DEF Makes, Keeps, RepoShape, History
<1>6. "team" \in {"job", "team"} /\ disturbed' \in BOOLEAN
  BY <1>2
<1> QED BY <1>2, <1>5, <1>6, OutsidersKeep

LEMMA RemoteMovesKeeps ==
    ASSUME IInv, TeamResets \/ Fetches
    PROVE  IInv'
<1>1. RepoShape /\ TypeOK
  BY Shape DEF IInv
<1>2. /\ tree' = tree /\ index' = index /\ commits' = commits /\ head' = head
      /\ others' \in Nat /\ UNCHANGED <<abandoned, overwrote, misnamed>>
      /\ UNCHANGED <<load, seen, requests>>
  BY <1>1 DEF TeamResets, Fetches, Act, Disturbs, TypeOK, history
<1>3. disturbed' = TRUE \/ disturbed' = disturbed
  BY DEF TeamResets, Fetches, Act, Disturbs, history
<1>4. disturbed' \in BOOLEAN
  BY <1>1, <1>3 DEF TypeOK
<1>5. remote' \in 1..Len(commits) /\ upstream' \in 1..Len(commits)
  <2>1. remote \in 1..Len(commits) /\ upstream \in 1..Len(commits)
    BY <1>1 DEF RepoShape, History
  <2>2. commits[remote].parent \in Nat /\ commits[remote].parent < remote /\ Len(commits) \in Nat
    BY <1>1, <2>1, CommitTypes
  <2>3. CASE TeamResets
    BY <2>1, <2>2, <2>3 DEF TeamResets
  <2>4. CASE Fetches
    BY <2>1, <2>4 DEF Fetches
  <2> QED BY <2>3, <2>4
<1>6. head <= head
  BY <1>1, CommitTypes DEF RepoShape, History
<1>7. MakesNone
  BY <1>1, <1>2, <1>5, <1>6 DEF MakesNone, Keeps, RepoShape, History, IsMade
<1>8. "team" \in {"job", "team"}
  OBVIOUS
<1> QED BY <1>2, <1>3, <1>4, <1>7, <1>8, OutsidersKeep
-----------------------------------------------------------------------------
LEMMA StartsFit ==
    ASSUME Init
    PROVE  IInv
<1> DEFINE first == [parent |-> 0, snap |-> Clean, by |-> "start"]
<1>1. /\ load \in Loads /\ tree = Clean /\ index = Clean /\ commits = <<first>>
      /\ head = 1 /\ remote = 1 /\ upstream = 1
      /\ seen = [r \in Requests |-> None]
      /\ holder = None /\ phase = [r \in Requests |-> "idle"]
      /\ receipt = [r \in Requests |-> None] /\ running = {} /\ others = 0
      /\ abandoned = {} /\ disturbed = FALSE /\ overwrote = {} /\ misnamed = {}
  BY DEF Init
<1>2. Clean \in Snapshots /\ MaxCommits \in Nat /\ MaxCommits >= 1
  BY WritesAssumption DEF Clean, Snapshots, Authors
<1>3. first \in Commit /\ first.parent = 0 /\ first.by = "start"
  BY <1>2 DEF Commit, CommitIds, Authors
<1> HIDE DEF first
<1>4. commits \in Seq(Commit) /\ Len(commits) = 1 /\ commits[1] = first
  BY <1>1, <1>3
<1>5. TypeOK
  <2>1. tree \in Snapshots /\ index \in Snapshots /\ Len(commits) <= MaxCommits
    BY <1>1, <1>2, <1>4
  <2>2. head \in CommitIds /\ remote \in CommitIds /\ upstream \in CommitIds
    BY <1>1, <1>2 DEF CommitIds
  <2>3. /\ seen \in [Requests -> Seen \cup {None}]
        /\ phase \in [Requests -> {"idle", "checking", "acting", "sealing"}]
        /\ receipt \in [Requests -> CommitIds \cup {None}]
    BY <1>1
  <2> QED BY <1>1, <1>4, <2>1, <2>2, <2>3 DEF TypeOK
<1>6. History /\ LockFits
  BY <1>1, <1>3, <1>4 DEF History, LockFits
<1>7. ASSUME NEW r \in Requests
      PROVE  RequestFits(r)
  <2>1. \A c : ~IsMade(c, r)
    BY <1>3, <1>4, WritesAssumption DEF IsMade
  <2>2. seen[r] = None /\ phase[r] = "idle" /\ receipt[r] = None
    BY <1>1
  <2> QED BY <1>1, <2>1, <2>2 DEF RequestFits, SeenFits, PlanFits, CommitFits
<1> QED BY <1>5, <1>6, <1>7 DEF IInv

LEMMA Stutters ==
    ASSUME IInv, UNCHANGED vars
    PROVE  IInv'
<1>1. RepoShape /\ TypeOK /\ LockFits
  BY Shape DEF IInv
<1>2. /\ load' = load /\ seen' = seen /\ others' = others
      /\ UNCHANGED repository /\ UNCHANGED requests /\ UNCHANGED history
  BY DEF vars
<1>3. /\ holder' = holder /\ phase' = phase /\ receipt' = receipt /\ running' = running
      /\ abandoned' = abandoned /\ disturbed' = disturbed /\ overwrote' = overwrote
      /\ misnamed' = misnamed
  BY <1>2 DEF requests, history
<1>4. MakesNone /\ head' = head
  BY <1>1, <1>2, RepositoryStays
<1>5. TypeOK' /\ History' /\ LockFits'
  BY <1>1, <1>2, <1>3, <1>4, ShapeTyped DEF MakesNone, Keeps, TypeOK, LockFits
<1>6. \A p \in Requests : Untouched(p)
  BY <1>2, <1>3, <1>4 DEF Untouched, MakesNone, Keeps
<1> QED BY <1>5, <1>6, OthersFit

LEMMA NextKeeps ==
    ASSUME IInv, Next
    PROVE  IInv'
<1>1. ASSUME NEW r \in Requests, Prepares(r) \/ Begins(r) \/ Checks(r) \/ Ends(r)
      PROVE  IInv'
  BY <1>1, PreparesKeeps, BeginsKeeps, ChecksKeeps, EndsKeeps
<1>2. ASSUME NEW r \in Requests, Acts(r) \/ ActsUnsealed(r) \/ Breaks(r) \/ Seals(r)
      PROVE  IInv'
  BY <1>2, ActsKeeps, ActsUnsealedKeeps, BreaksKeeps, SealsKeeps
<1>3. ASSUME NEW r \in Requests, Abandons(r) \/ LeftOverActs(r) \/ LeftOverEnds(r)
      PROVE  IInv'
  BY <1>3, AbandonsKeeps, LeftOverActsKeeps, LeftOverEndsKeeps
<1>4. ASSUME NEW f \in Files, JobEdits(f)
      PROVE  IInv'
  BY <1>4, JobEditsKeeps
<1>5. CASE JobCommits \/ TeamPushes \/ TeamResets \/ Fetches
  BY <1>5, JobCommitsKeeps, TeamPushesKeeps, RemoteMovesKeeps
<1> QED BY <1>1, <1>2, <1>3, <1>4, <1>5 DEF Next

\* The inductive invariant: the lock keeps requests apart, and the head moves
\* forward only, past whatever a request committed.
THEOREM WritesFit == Spec => []IInv
<1>1. Init => IInv
  BY StartsFit
<1>2. IInv /\ [Next]_vars => IInv'
  BY NextKeeps, Stutters
<1> QED BY <1>1, <1>2, PTL DEF Spec

\* A guarded commit is made once, and none is made again after its receipt, for
\* any requests, workloads and numbers of commits (commit: "already_committed").
THEOREM CommitsAreMadeOnce == Spec => []CommitsOnce
<1>1. IInv => CommitsOnce
  <2> SUFFICES ASSUME IInv PROVE CommitsOnce
    OBVIOUS
  <2>1. \A c, r : c \in Made(r) <=> IsMade(c, r)
    <3>1. DOMAIN commits = 1..Len(commits)
      BY Shape DEF RepoShape
    <3> QED BY <3>1 DEF Made, IsMade
  <2>2. ASSUME NEW r \in Guarded \ abandoned
        PROVE  Cardinality(Made(r)) <= 1
    <3>1. \A c, d \in Made(r) : c = d
      <4>1. r \in Commits /\ r \in Requests
        BY WritesAssumption DEF Requests
      <4> QED BY <2>1, <4>1 DEF IInv, RequestFits, CommitFits
    <3>2. CASE Made(r) = {}
      BY <3>2, FS_EmptySet
    <3>3. CASE Made(r) # {}
      <4>1. PICK c : Made(r) = {c}
        BY <3>1, <3>3
      <4>2. Cardinality({c}) = 1
        BY FS_Singleton
      <4> QED BY <4>1, <4>2
    <3> QED BY <3>2, <3>3
  <2>3. ASSUME NEW r \in Commits \ abandoned, receipt[r] # None, NEW c \in Made(r)
        PROVE  c <= receipt[r]
    BY <2>1, <2>3 DEF IInv, RequestFits, CommitFits, Requests
  <2> QED BY <2>2, <2>3 DEF CommitsOnce
<1> QED BY <1>1, WritesFit, PTL

\* A plan never replaces a content its author has not seen, for any number of
\* files and plans (_check_preconditions).
THEOREM EditsAreKept == Spec => []NoLostEdit
<1>1. IInv => NoLostEdit
  <2> SUFFICES ASSUME IInv, NEW o \in overwrote PROVE o[3] = seen[o[1]].tree[o[2]]
    BY DEF NoLostEdit
  <2>1. PICK r \in Plans, f \in Files, a \in Authors : o = <<r, f, a>>
    BY DEF IInv, TypeOK
  <2>2. a = seen[r].tree[f]
    BY <2>1 DEF IInv, RequestFits, PlanFits, Requests
  <2> QED BY <2>1, <2>2
<1> QED BY <1>1, WritesFit, PTL

\* A receipt tells of what was done (apply, commit: effect, then receipt).
THEOREM ReceiptsAreTrue == Spec => []ReceiptTruth
<1>1. IInv => ReceiptTruth
  <2> SUFFICES ASSUME IInv, NEW r \in Requests, receipt[r] # None
               PROVE  /\ r \in Commits => Made(r) # {} /\ (r \notin misnamed => receipt[r] \in Made(r))
                      /\ r \in Plans => \A f \in Files : \E a \in Authors : <<r, f, a>> \in overwrote
    BY DEF ReceiptTruth
  <2>1. DOMAIN commits = 1..Len(commits)
    BY Shape DEF RepoShape
  <2>2. \A c : c \in Made(r) <=> IsMade(c, r)
    BY <2>1 DEF Made, IsMade
  <2>3. RequestFits(r)
    BY DEF IInv
  <2>4. r \in Plans => AllReplaced(r)
    BY <2>3 DEF RequestFits, PlanFits
  <2>5. r \in Commits => (\E c : IsMade(c, r)) /\ (r \notin misnamed => IsMade(receipt[r], r))
    BY <2>3 DEF RequestFits, CommitFits
  <2> QED BY <2>2, <2>4, <2>5 DEF AllReplaced
<1> QED BY <1>1, WritesFit, PTL
=============================================================================
