---------------------------- MODULE JobAdmission ----------------------------
(***************************************************************************)
(* How jobs are admitted and how run_command, bridge_restart and           *)
(* repository_gc_apply are kept apart from them: the admission locks and   *)
(* idle gates of app/jobs/service.py over the rows of app/jobs/store.py.   *)
(*                                                                         *)
(* A call takes its locks in order, and what it does under the last one    *)
(* has no await up to its operation, so it is one step with the grant.     *)
(* An asyncio.Lock is a FIFO: the head of its queue holds it, the others   *)
(* wait.  A row is named by the call that inserted it.                     *)
(***************************************************************************)
EXTENDS Naturals, Sequences, FiniteSets

CONSTANTS
    Calls,        \* tool calls that a behaviour may make, each once
    Repos,
    Request,      \* call -> [op, repo, key, digest, alone]
    Global,       \* _global_admission_lock; the others are named by their repo
    None,         \* no key, no row
    MaxRestarts   \* bound on the restarts of the server

\* "task" is start_task, "exec" start_execution, "command" a run_command in
\* run_when_repository_idle and "service" an operation in
\* run_when_globally_idle; alone is require_repository_idle.
Ops == {"task", "exec", "command", "service"}

ASSUME AdmissionAssumption ==
    /\ Global \notin Repos /\ None \notin Calls
    /\ \A c \in Calls : /\ Request[c].op \in Ops
                        /\ Request[c].repo \in Repos
                        /\ Request[c].alone => Request[c].op = "exec"
    /\ MaxRestarts \in Nat

VARIABLES
    row,        \* call -> "absent", "active" (QUEUED or RUNNING), "ended"
    queue,      \* lock -> its holder and then its waiters
    held,       \* call -> how many of its locks it holds
    pc,         \* call -> "idle", "locking", "operating", "done"
    result,     \* call -> what it answered
    answer,     \* call -> the row whose job it answered
    alive,      \* commands whose OS process runs
    restarts

memory == <<queue, held, pc>>
vars == <<row, memory, result, answer, alive, restarts>>

Locks == Repos \cup {Global}
Op(c) == Request[c].op
Repo(c) == Request[c].repo
Admits(c) == Op(c) \in {"task", "exec"}

\* "lost": the server restarted; "cancelled": the client gave the call up.
Results == {"none", "created", "existing", "conflict", "busy", "ok",
            "cancelled", "lost"}

TypeOK ==
    /\ row \in [Calls -> {"absent", "active", "ended"}]
    /\ queue \in [Locks -> Seq(Calls)]
    /\ held \in [Calls -> 0..2]
    /\ pc \in [Calls -> {"idle", "locking", "operating", "done"}]
    /\ result \in [Calls -> Results]
    /\ answer \in [Calls -> Calls \cup {None}]
    /\ alive \in SUBSET Calls
    /\ restarts \in 0..MaxRestarts

Init ==
    /\ row = [c \in Calls |-> "absent"]
    /\ queue = [l \in Locks |-> << >>]
    /\ held = [c \in Calls |-> 0]
    /\ pc = [c \in Calls |-> "idle"]
    /\ result = [c \in Calls |-> "none"]
    /\ answer = [c \in Calls |-> None]
    /\ alive = {}
    /\ restarts = 0

-----------------------------------------------------------------------------
(* The locks. *)

\* Mutant of LockOrder: admissions do not take the repository's lock.
OrderWithoutRepo(c) ==
    IF Op(c) = "command" THEN <<Repo(c)>> ELSE <<Global>>

\* Mutant of LockOrder: a command takes both, the wrong way round.
OrderInverted(c) ==
    IF Admits(c) THEN <<Global, Repo(c)>>
    ELSE IF Op(c) = "command" THEN <<Repo(c), Global>> ELSE <<Global>>

LockOrder(c) ==
    IF Admits(c) THEN <<Global, Repo(c)>>
    ELSE IF Op(c) = "command" THEN <<Repo(c)>> ELSE <<Global>>

NextLock(c) == LockOrder(c)[held[c] + 1]
Granted(c) == /\ pc[c] = "locking"
              /\ queue[NextLock(c)] # << >> /\ Head(queue[NextLock(c)]) = c
LastLock(c) == held[c] + 1 = Len(LockOrder(c))

\* The queue s when c has left it; a call is in it once.
Without(s, c) ==
    IF \A i \in DOMAIN s : s[i] # c THEN s
    ELSE LET k == CHOOSE i \in DOMAIN s : s[i] = c
         IN  SubSeq(s, 1, k - 1) \o SubSeq(s, k + 1, Len(s))

\* The call leaves every queue it is in, as a holder or as a waiter.
Leave(c, r) ==
    /\ queue' = [l \in Locks |-> Without(queue[l], c)]
    /\ held' = [held EXCEPT ![c] = 0]
    /\ pc' = [pc EXCEPT ![c] = "done"]
    /\ result' = [result EXCEPT ![c] = r]

Begin(c) ==
    /\ pc[c] = "idle"
    /\ pc' = [pc EXCEPT ![c] = "locking"]
    /\ queue' = [queue EXCEPT ![NextLock(c)] = Append(@, c)]
    /\ UNCHANGED <<row, held, result, answer, alive, restarts>>

\* The first of two locks is granted: the call queues for the second.
TakeLock(c) ==
    /\ Granted(c) /\ ~LastLock(c)
    /\ held' = [held EXCEPT ![c] = @ + 1]
    /\ queue' = [queue EXCEPT ![LockOrder(c)[held[c] + 2]] = Append(@, c)]
    /\ UNCHANGED <<row, pc, result, answer, alive, restarts>>

-----------------------------------------------------------------------------
(* Admission: JobStore.create and create_execution. *)

\* The rows that UNIQUE(project, repository, task, key) makes clash with c's.
Bound(c) == {d \in Calls : /\ row[d] # "absent" /\ Request[c].key # None
                           /\ Op(d) = Op(c) /\ Repo(d) = Repo(c)
                           /\ Request[d].key = Request[c].key}

ActiveIn(r) == {d \in Calls : row[d] = "active" /\ Repo(d) = r}

OtherSpec(c) == /\ Op(c) = "exec"
                /\ \E d \in Bound(c) : Request[d].digest # Request[c].digest

\* Mutant of Outcome: the digest is not compared.
OutcomeAnySpec(c) ==
    IF Bound(c) # {} THEN "existing"
    ELSE IF Request[c].alone /\ ActiveIn(Repo(c)) # {} THEN "busy"
    ELSE "created"

Outcome(c) ==
    IF OtherSpec(c) THEN "conflict"
    ELSE IF Bound(c) # {} THEN "existing"
    ELSE IF Request[c].alone /\ ActiveIn(Repo(c)) # {} THEN "busy"
    ELSE "created"

Admit(c) ==
    /\ Granted(c) /\ LastLock(c) /\ Admits(c)
    /\ row' = IF Outcome(c) = "created" THEN [row EXCEPT ![c] = "active"] ELSE row
    /\ \E d \in Calls \cup {None} :
          /\ CASE Outcome(c) = "created"  -> d = c
               [] Outcome(c) = "existing" -> d \in Bound(c)
               [] OTHER                   -> d = None
          /\ answer' = [answer EXCEPT ![c] = d]
    /\ Leave(c, Outcome(c))
    /\ UNCHANGED <<alive, restarts>>

\* The dispatcher, a cancel or a timeout brings the job to its end.
JobEnds(c) ==
    /\ row[c] = "active"
    /\ row' = [row EXCEPT ![c] = "ended"]
    /\ UNCHANGED <<memory, result, answer, alive, restarts>>

-----------------------------------------------------------------------------
(* Operations that want no job around. *)

\* has_active_for_repository, or has_active.
Blockers(c) == IF Op(c) = "command" THEN ActiveIn(Repo(c))
               ELSE {d \in Calls : row[d] = "active"}

Refuse(c) ==
    /\ Granted(c) /\ LastLock(c) /\ ~Admits(c) /\ Blockers(c) # {}
    /\ Leave(c, "busy")
    /\ UNCHANGED <<row, answer, alive, restarts>>

\* The gate is open: the operation is awaited with the lock held.
Operate(c) ==
    /\ Granted(c) /\ LastLock(c) /\ ~Admits(c) /\ Blockers(c) = {}
    /\ held' = [held EXCEPT ![c] = @ + 1]
    /\ pc' = [pc EXCEPT ![c] = "operating"]
    /\ alive' = IF Op(c) = "command" THEN alive \cup {c} ELSE alive
    /\ UNCHANGED <<row, queue, result, answer, restarts>>

\* By itself, or by the kill at timeout_seconds while its call is there.
ProcessExits(c) ==
    /\ c \in alive
    /\ alive' = alive \ {c}
    /\ UNCHANGED <<row, memory, result, answer, restarts>>

OperationReturns(c) ==
    /\ pc[c] = "operating" /\ c \notin alive
    /\ Leave(c, "ok")
    /\ UNCHANGED <<row, answer, alive, restarts>>

\* The client gives a call up: its task is cancelled at its await and the
\* locks are released.  Nothing in _execute ends the process on the way out.
Cancel(c) ==
    /\ pc[c] \in {"locking", "operating"}
    /\ Leave(c, "cancelled")
    /\ UNCHANGED <<row, answer, alive, restarts>>

\* The server restarts: calls and command processes are gone, rows are not;
\* those that were RUNNING are failed.
Restart ==
    /\ restarts < MaxRestarts
    /\ restarts' = restarts + 1
    /\ \E interrupted \in SUBSET {c \in Calls : row[c] = "active"} :
          row' = [c \in Calls |-> IF c \in interrupted THEN "ended" ELSE row[c]]
    /\ queue' = [l \in Locks |-> << >>]
    /\ held' = [c \in Calls |-> 0]
    /\ pc' = [c \in Calls |-> IF pc[c] = "idle" THEN "idle" ELSE "done"]
    /\ result' = [c \in Calls |-> IF pc[c] \in {"idle", "done"} THEN result[c]
                                  ELSE "lost"]
    /\ alive' = {}
    /\ UNCHANGED answer

-----------------------------------------------------------------------------
CallStep(c) == \/ TakeLock(c) \/ Admit(c) \/ Refuse(c) \/ Operate(c)
               \/ OperationReturns(c)
               \/ pc[c] = "operating" /\ ProcessExits(c)

Next ==
    \/ \E c \in Calls : \/ Begin(c) \/ CallStep(c) \/ Cancel(c)
                        \/ JobEnds(c) \/ ProcessExits(c)
    \/ Restart

\* The event loop resumes a call that was granted a lock, and an operation
\* that is awaited returns: a command is killed at its timeout, and what it
\* has left behind closes its pipes.  A call is made once and has finitely
\* many steps, so fairness to all calls together is fairness to each.
Fairness == WF_vars(\E c \in Calls : CallStep(c))

Spec == Init /\ [][Next]_vars /\ Fairness

-----------------------------------------------------------------------------
(* What admission promises. *)

Operating(op) == {c \in Calls : pc[c] = "operating" /\ Op(c) = op}

\* "Run a short structured argv call synchronously only when this repository
\* has no queued/running durable job": none is there when the call starts
\* its command, none is admitted until it returns, and no second command
\* runs in the repository, whatever the order of the calls.
CommandExclusion ==
    \A c \in Operating("command") :
        /\ ActiveIn(Repo(c)) = {}
        /\ \A d \in Operating("command") : Repo(d) = Repo(c) => d = c

\* "Serialize service-wide operations against durable job admission": no job
\* of any repository is queued or running while a restart is scheduled or a
\* collection runs, and two such operations never overlap.
ServiceExclusion ==
    \A c \in Operating("service") :
        /\ \A d \in Calls : row[d] # "active"
        /\ Operating("service") = {c}

\* A retry, after a crash or a lost answer too, never makes a second job of
\* the same key, and never gets a job of another specification.
RetriesShareOneRow ==
    /\ \A c \in Calls : row[c] # "absent" => Bound(c) \subseteq {c}
    /\ \A c \in Calls : answer[c] # None =>
          /\ row[answer[c]] # "absent" /\ Repo(answer[c]) = Repo(c)
          /\ Op(c) = "exec" => Request[answer[c]].digest = Request[c].digest

\* A retry of a submission whose job exists is answered with that job, and
\* not with JOB_BUSY because of that very job.
RetryNotRefused ==
    [][\A c \in Calls :
          Admits(c) /\ result'[c] = "busy" => result[c] = "busy" \/ Bound(c) = {}]_vars

\* Every call comes to an end: the two locks of an admission and the one of
\* a command or a service operation never wait for each other in a circle.
EveryCallEnds == <>[](\A c \in Calls : pc[c] \in {"idle", "done"})

\* What the description of run_command says of the command itself, and not
\* only of the call: no job is queued or running beside its process.  The
\* process outlives a call that was cancelled, the lock does not.
CommandRunsAlone == \A c \in alive : ActiveIn(Repo(c)) = {}
=============================================================================
