-------------------------- MODULE RepositoryWrites --------------------------
(***************************************************************************)
(* The writes of the Bridge to one repository: change plans                *)
(* (app/changes), git stage, commit and push (app/git/write_service.py)    *)
(* and fast-forward (app/git/workspace_service.py), one at a time under    *)
(* the mutation lock of app/projects/locking.py, each with a receipt that  *)
(* lets its client ask again.  Jobs, the owner and his colleagues write to *)
(* the same repository and take no lock.                                   *)
(*                                                                         *)
(* A request is a client's payload with its key or plan id; it may be made *)
(* any number of times.  Git does each of its commands at once.  A command *)
(* that fails, is killed by its timeout or dies with the Bridge ends the   *)
(* request before or after its effect; one whose client disconnects is     *)
(* left running by GitRunner.run, while the lock is given back.  One       *)
(* branch with its upstream; a job does not write between the check of a   *)
(* file and its replacement, which no await separates.                     *)
(***************************************************************************)
EXTENDS Naturals, FiniteSets, Sequences

CONSTANTS
    Plans, Stages, Commits, Pushes, Forwards,   \* requests
    Guarded,       \* commits that name expected_head and expected_index_revision
    NFiles,        \* files 1..NFiles, all of them changed by a plan, in order
    MaxCommits,    \* bound on the commits in the world
    Loads,         \* workloads: the requests made, and the acts of others
    None

Requests == Plans \cup Stages \cup Commits \cup Pushes \cup Forwards
Files == 1..NFiles

ASSUME WritesAssumption ==
    /\ NFiles \in Nat \ {0} /\ MaxCommits \in Nat \ {0}
    /\ Guarded \subseteq Commits
    /\ \A l \in Loads : l.asks \subseteq Requests /\ l.others \in Nat
    /\ None \notin Requests /\ {"start", "job", "team"} \cap Requests = {}

\* A request goes to one tool.
ASSUME OneKind ==
    /\ (Plans \cap (Stages \cup Commits \cup Pushes \cup Forwards)) = {}
    /\ (Stages \cap (Commits \cup Pushes \cup Forwards)) = {}
    /\ (Commits \cap (Pushes \cup Forwards)) = {} /\ (Pushes \cap Forwards) = {}

VARIABLES
    load,
    tree, index,   \* contents: who wrote the file last
    commits,       \* sequence of commits, of this clone and of the remote
    head, remote,  \* the branch here and at the remote, 0 when there is none
    upstream,      \* the remote as it was last fetched or pushed
    seen,          \* request -> what its client saw when it made the plan
    holder,        \* of the mutation lock, or None
    phase,         \* request -> how far it is
    receipt,       \* request -> the head its receipt names, or None
    running,       \* requests whose git process was left running
    others,        \* acts of others so far
    abandoned,     \* history: requests that were ever left running
    disturbed,     \* history: somebody without the lock wrote since it was taken
    overwrote,     \* history: <<plan, file, content it replaced>>
    misnamed       \* history: receipts written in a disturbed section

repository == <<tree, index, commits, head, remote, upstream>>
requests == <<holder, phase, receipt, running>>
history == <<abandoned, disturbed, overwrote, misnamed>>
vars == <<load, repository, seen, requests, others, history>>

Authors == Requests \cup {"start", "job", "team"}
Snapshots == [Files -> Authors]
CommitIds == 0..MaxCommits
Commit == [parent : CommitIds, snap : Snapshots, by : Authors]
Seen == [tree : Snapshots, index : Snapshots, head : CommitIds, remote : CommitIds]

TypeOK ==
    /\ load \in Loads
    /\ tree \in Snapshots /\ index \in Snapshots
    /\ commits \in Seq(Commit) /\ Len(commits) <= MaxCommits
    /\ head \in CommitIds /\ remote \in CommitIds /\ upstream \in CommitIds
    /\ seen \in [Requests -> Seen \cup {None}]
    /\ holder \in Requests \cup {None}
    /\ phase \in [Requests -> {"idle", "checking", "acting", "sealing"}]
    /\ receipt \in [Requests -> CommitIds \cup {None}]
    /\ running \subseteq Requests
    /\ others \in Nat
    /\ abandoned \subseteq Requests /\ disturbed \in BOOLEAN
    /\ overwrote \subseteq (Plans \X Files \X Authors)
    /\ misnamed \subseteq Requests

Clean == [f \in Files |-> "start"]

\* A clone with one commit, which the remote has too.
Init ==
    /\ load \in Loads
    /\ tree = Clean /\ index = Clean
    /\ commits = <<[parent |-> 0, snap |-> Clean, by |-> "start"]>>
    /\ head = 1 /\ remote = 1 /\ upstream = 1
    /\ seen = [r \in Requests |-> None]
    /\ holder = None /\ phase = [r \in Requests |-> "idle"]
    /\ receipt = [r \in Requests |-> None] /\ running = {}
    /\ others = 0
    /\ abandoned = {} /\ disturbed = FALSE /\ overwrote = {} /\ misnamed = {}

-----------------------------------------------------------------------------
(* Git. *)

Snap(c) == commits[c].snap

\* c and what is reached from it by parents: in every set that holds c and, with a
\* commit, its parent.
Ancestors(c) ==
    {d \in 0..Len(commits) :
        \A s \in SUBSET (0..Len(commits)) :
            c \in s /\ (\A e \in s \ {0} : commits[e].parent \in s) => d \in s}

\* git commit of the index on top of parent p; it refuses an empty one.
NewCommit(p, snap, by) ==
    /\ Len(commits) < MaxCommits
    /\ commits' = Append(commits, [parent |-> p, snap |-> snap, by |-> by])

GitCommit(r) ==
    /\ index # Snap(head)
    /\ NewCommit(head, index, r) /\ head' = Len(commits) + 1
    /\ UNCHANGED <<tree, index, remote, upstream>>

\* git add -A of the explicit paths.
GitAdd == index' = tree /\ UNCHANGED <<tree, commits, head, remote, upstream>>

\* git push of exactly the planned head, unless the plan says that the remote
\* has it; without force the remote moves forward only.
GitPush(r) ==
    /\ IF seen[r].remote = seen[r].head
       THEN UNCHANGED <<remote, upstream>>
       ELSE /\ remote \in Ancestors(seen[r].head)
            /\ remote' = seen[r].head /\ upstream' = seen[r].head
    /\ UNCHANGED <<tree, index, commits, head>>

\* git merge --ff-only of the upstream, which replaces no changed file.
GitForward ==
    /\ tree = index /\ index = Snap(head)
    /\ head \in Ancestors(upstream)
    /\ head' = upstream /\ tree' = Snap(upstream) /\ index' = Snap(upstream)
    /\ UNCHANGED <<commits, remote, upstream>>

-----------------------------------------------------------------------------
(* A request. *)

\* change_plan, the status a commit is guarded by, git_push_plan: all read
\* without the lock, once.
Prepares(r) ==
    /\ r \in load.asks \ (Stages \cup Forwards) /\ seen[r] = None
    /\ seen' = [seen EXCEPT ![r] = [tree |-> tree, index |-> index, head |-> head, remote |-> remote]]
    /\ UNCHANGED <<load, repository, requests, others, history>>

MayBegin(r) == phase[r] = "idle" /\ holder = None

Begins(r) ==
    /\ r \in load.asks /\ MayBegin(r)
    /\ r \in Plans \cup Commits \cup Pushes => seen[r] # None
    /\ holder' = r /\ phase' = [phase EXCEPT ![r] = "checking"]
    /\ disturbed' = FALSE
    /\ UNCHANGED <<load, repository, seen, receipt, running, others,
                   abandoned, overwrote, misnamed>>

\* ChangeRevisionCalculator.calculate: HEAD, the index and the working tree.
SameRevision(r) == tree = seen[r].tree /\ index = seen[r].index /\ head = seen[r].head

\* The guards of commit: what its client named, and something to commit.
MayCommit(r) ==
    /\ r \in Guarded => head = seen[r].head /\ index = seen[r].index
    /\ index # Snap(head)

\* Push revalidates the plan, and is a fast-forward.
MayPush(r) ==
    /\ head = seen[r].head /\ remote = seen[r].remote
    /\ remote \in Ancestors(head)

\* Fast-forward wants a clean clone that is behind its upstream.
MayForward ==
    /\ tree = index /\ index = Snap(head)
    /\ head \in Ancestors(upstream) \ {upstream}

\* What is checked under the lock before a request acts.
MayAct(r) ==
    /\ r \in Plans => SameRevision(r)
    /\ r \in Commits => MayCommit(r)
    /\ r \in Pushes => MayPush(r)
    /\ r \in Forwards => MayForward

\* Mutant of Unsealed: the receipt is not read first.
UnsealedBlind(r) == TRUE

\* A request that has a receipt is answered from it.
Unsealed(r) == receipt[r] = None

Checks(r) ==
    /\ phase[r] = "checking" /\ Unsealed(r) /\ MayAct(r)
    /\ phase' = [phase EXCEPT ![r] = "acting"]
    /\ UNCHANGED <<load, repository, seen, holder, receipt, running, others, history>>

Release(r) ==
    /\ phase' = [phase EXCEPT ![r] = "idle"]
    /\ holder' = IF holder = r THEN None ELSE holder

\* It is refused, answered from the receipt, fails, is killed or cancelled.
Ends(r) ==
    /\ phase[r] # "idle" /\ Release(r)
    /\ UNCHANGED <<load, repository, seen, receipt, running, others, history>>

\* Mutant of Expected: the revision was compared, the files are not again.
ExpectedBefore(r) == TRUE

\* _check_preconditions, in the same breath as the changes.
Expected(r) == tree = seen[r].tree

\* The first n changes of the plan, each by an atomic replace.
Change(r, n) ==
    /\ Expected(r)
    /\ tree' = [f \in Files |-> IF f <= n THEN r ELSE tree[f]]
    /\ overwrote' = overwrote \cup {<<r, f, tree[f]>> : f \in 1..n}
    /\ UNCHANGED <<index, commits, head, remote, upstream>>

\* All changes of the plan, or the effect of the git command.
Acts(r) ==
    /\ phase[r] = "acting"
    /\ \/ r \in Plans /\ Change(r, NFiles)
       \/ r \in Commits /\ GitCommit(r) /\ UNCHANGED overwrote
       \/ r \in Pushes /\ GitPush(r) /\ UNCHANGED overwrote
    /\ phase' = [phase EXCEPT ![r] = "sealing"]
    /\ UNCHANGED <<load, seen, holder, receipt, running, others, abandoned, disturbed, misnamed>>

\* Stage and fast-forward leave no receipt.
ActsUnsealed(r) ==
    /\ phase[r] = "acting"
    /\ (r \in Stages /\ GitAdd) \/ (r \in Forwards /\ GitForward)
    /\ Release(r)
    /\ UNCHANGED <<load, seen, receipt, running, others, history>>

\* An OSError, or the end of the Bridge, in the middle of a plan.
Breaks(r) ==
    /\ phase[r] = "acting" /\ r \in Plans
    /\ \E n \in 1..(NFiles - 1) : Change(r, n)
    /\ Release(r)
    /\ UNCHANGED <<load, seen, receipt, running, others, abandoned, disturbed, misnamed>>

\* Mutant of MaySeal: the receipt is written when the command is started.
MaySealEarly(r) == phase[r] \in {"acting", "sealing"}

MaySeal(r) == phase[r] = "sealing" /\ r \notin Stages \cup Forwards

\* The head is read, but for a push, which names the planned one, and the
\* receipt written.
Seals(r) ==
    /\ MaySeal(r)
    /\ receipt' = [receipt EXCEPT ![r] = IF r \in Pushes THEN seen[r].head ELSE head]
    /\ misnamed' = IF disturbed THEN misnamed \cup {r} ELSE misnamed \ {r}
    /\ Release(r)
    /\ UNCHANGED <<load, repository, seen, running, others, abandoned, disturbed, overwrote>>

\* The client is gone: CancelledError passes GitRunner.run and frees the lock,
\* while git goes on.
Abandons(r) ==
    /\ phase[r] = "acting" /\ r \notin Plans
    /\ running' = running \cup {r} /\ abandoned' = abandoned \cup {r}
    /\ Release(r)
    /\ UNCHANGED <<load, repository, seen, receipt, others, disturbed, overwrote, misnamed>>

-----------------------------------------------------------------------------
(* Those without the lock. *)

Disturbs == disturbed' = TRUE /\ UNCHANGED <<abandoned, overwrote, misnamed>>

\* A git process that was left running comes to its effect, or ends without.
LeftOverActs(r) ==
    /\ r \in running /\ running' = running \ {r}
    /\ \/ r \in Stages /\ GitAdd
       \/ r \in Commits /\ GitCommit(r)
       \/ r \in Pushes /\ GitPush(r)
       \/ r \in Forwards /\ GitForward
    /\ Disturbs
    /\ UNCHANGED <<load, seen, holder, phase, receipt, others>>

LeftOverEnds(r) ==
    /\ r \in running /\ running' = running \ {r}
    /\ UNCHANGED <<load, repository, seen, holder, phase, receipt, others, history>>

Act == others < load.others /\ others' = others + 1 /\ Disturbs

\* A job or the owner edits a file, or commits everything.
JobEdits(f) ==
    /\ Act /\ tree' = [tree EXCEPT ![f] = "job"]
    /\ UNCHANGED <<load, index, commits, head, remote, upstream, seen, requests>>

JobCommits ==
    /\ Act /\ tree # Snap(head)
    /\ index' = tree /\ NewCommit(head, tree, "job") /\ head' = Len(commits) + 1
    /\ UNCHANGED <<load, tree, remote, upstream, seen, requests>>

\* A colleague pushes, or takes the remote back by one commit.
TeamPushes ==
    /\ Act /\ NewCommit(remote, [f \in Files |-> "team"], "team")
    /\ remote' = Len(commits) + 1
    /\ UNCHANGED <<load, tree, index, head, upstream, seen, requests>>

TeamResets ==
    /\ Act /\ commits[remote].parent # 0
    /\ remote' = commits[remote].parent
    /\ UNCHANGED <<load, tree, index, commits, head, upstream, seen, requests>>

\* git_fetch of the Bridge takes the lock; others do not fetch.
Fetches ==
    /\ holder = None
    /\ upstream' = remote /\ upstream # remote
    /\ UNCHANGED <<load, tree, index, commits, head, remote, seen, requests, others, history>>

Next ==
    \/ \E r \in Requests :
         \/ Prepares(r) \/ Begins(r) \/ Checks(r) \/ Ends(r)
         \/ Acts(r) \/ ActsUnsealed(r) \/ Breaks(r) \/ Seals(r)
         \/ Abandons(r) \/ LeftOverActs(r) \/ LeftOverEnds(r)
    \/ \E f \in Files : JobEdits(f)
    \/ JobCommits \/ TeamPushes \/ TeamResets \/ Fetches

Spec == Init /\ [][Next]_vars

-----------------------------------------------------------------------------
(* What the services promise. *)

Made(r) == {c \in DOMAIN commits : commits[c].by = r}

\* However its requests end, a commit that names the head and the index it is
\* for is made once, and no commit is made again after its receipt, but by a
\* process that was left running (commit: "already_committed").
CommitsOnce ==
    /\ \A r \in Guarded \ abandoned : Cardinality(Made(r)) <= 1
    /\ \A r \in Commits \ abandoned :
          receipt[r] # None => \A c \in Made(r) : c <= receipt[r]

\* A plan never replaces a content its author has not seen, whatever jobs do
\* between the comparison of revisions and the changes (_check_preconditions).
NoLostEdit == \A o \in overwrote : o[3] = seen[o[1]].tree[o[2]]

\* A receipt tells of what was done: the commit it names is the request's, but
\* for a head that somebody without the lock moved just then, and the plan's
\* files were all replaced (apply, commit: effect, then receipt).
ReceiptTruth ==
    \A r \in Requests : receipt[r] # None =>
        /\ r \in Commits => Made(r) # {} /\ (r \notin misnamed => receipt[r] \in Made(r))
        /\ r \in Plans => \A f \in Files : \E a \in Authors : <<r, f, a>> \in overwrote
=============================================================================
