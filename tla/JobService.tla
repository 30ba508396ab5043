----------------------------- MODULE JobService -----------------------------
(***************************************************************************)
(* The durable job service of app/jobs/service.py: one asyncio event loop  *)
(* runs the dispatcher (_run_worker), one task per scheduled job           *)
(* (_run_scheduled_job / _execute), the calls that admit and cancel jobs,  *)
(* and stop().  A step is what a coroutine does between two awaits.  The   *)
(* rows of JobLifecycle survive a crash, everything else is memory.        *)
(*                                                                         *)
(* Terminal callbacks are the subject of TerminalWaiters; here a finished  *)
(* job awaits them ("notifying") and they may raise.  The admission locks  *)
(* and idle gates are the subject of JobAdmission.                         *)
(***************************************************************************)
EXTENDS JobLifecycle, Sequences, FiniteSets

CONSTANTS MaxConcurrency,   \* jobs.max_concurrency
          MaxBoots          \* bound on the number of starts of the server

ASSUME ServiceAssumption == /\ MaxConcurrency \in Nat \ {0}
                            /\ MaxBoots \in Nat

VARIABLES
    phase,      \* "down", "starting", "loading", "up", "stopping"
    boots,      \* starts so far, at most MaxBoots
    pending,    \* self._pending: the deque of job ids
    event,      \* self._dispatch_event
    worker,     \* "none", "parked" at event.wait(), "scanning", "done"
    scan,       \* iterations left of the loop in _next_eligible_job
    pc,         \* job -> where its task stands; "none": not in _active_tasks
    busy,       \* self._active_repositories
    procs,      \* keys of self._processes
    proc,       \* job -> its OS process
    doomed,     \* processes under _terminate: SIGTERM now, SIGKILL later
    signalled,  \* history: processes that were sent SIGTERM and have not died
    cancelReq,  \* self._cancel_requested
    stopper,    \* where stop() stands
    toStop,     \* ids left in stop()'s snapshot of self._processes
    stopCur     \* the job whose process stop() waits for, 0 for none

memVars == <<pending, event, worker, scan, pc, busy, procs, proc, doomed,
             signalled, cancelReq, stopper, toStop, stopCur>>
vars == <<rowVars, phase, boots, memVars>>

\* "none"       no task          "scheduled"  create_task, not yet run
\* "spawning"   row RUNNING, awaiting the worktree check and the process
\* "waiting"    wait_for(process.wait())
\* "killing"    the timeout fired, awaiting _terminate
\* "capturing"  process gone, exit code 0, capturing artifacts
\* "failing"    process gone, timeout or exit code # 0, capturing artifacts
\* "notifying"  row terminal, awaiting its callbacks and the audit record
\* "recovering" a step raised; awaiting the callbacks of _fail_active
TaskPcs == {"none", "scheduled", "spawning", "waiting", "killing",
            "capturing", "failing", "notifying", "recovering"}
Executing == {"spawning", "waiting", "killing", "capturing", "failing"}

\* A process that has been reaped by the child watcher is "gone" until the
\* loop sees its exit code: os.killpg raises ProcessLookupError on it while
\* returncode is still None.  "none" once its task has no use of it.
ProcStates == {"none", "live", "gone", "exited"}

Active == {j \in Jobs : pc[j] # "none"}
Serving == phase \in {"up", "stopping"}
Stopping == phase = "stopping"

\* The dispatcher's scan has no await in it: no other coroutine runs
\* before it ends.
LoopFree == Serving /\ worker # "scanning"

TypeOK ==
    /\ RowTypeOK
    /\ phase \in {"down", "starting", "loading", "up", "stopping"}
    /\ boots \in Nat
    /\ pending \in Seq(Jobs)
    /\ event \in BOOLEAN
    /\ worker \in {"none", "parked", "scanning", "done"}
    /\ scan \in Nat
    /\ pc \in [Jobs -> TaskPcs]
    /\ busy \in SUBSET (Repos \cup {NoRepo})
    /\ procs \in SUBSET Jobs
    /\ proc \in [Jobs -> ProcStates]
    /\ doomed \in SUBSET Jobs /\ signalled \in SUBSET Jobs
    /\ cancelReq \in SUBSET Jobs
    /\ stopper \in {"idle", "terminating", "gathering", "joining", "aborted"}
    /\ toStop \in SUBSET Jobs
    /\ stopCur \in Jobs \cup {0}

ColdMemory ==
    /\ pending = << >>
    /\ event = FALSE
    /\ worker = "none"
    /\ scan = 0
    /\ pc = [j \in Jobs |-> "none"]
    /\ busy = {}
    /\ procs = {}
    /\ proc = [j \in Jobs |-> "none"]
    /\ doomed = {} /\ signalled = {}
    /\ cancelReq = {}
    /\ stopper = "idle"
    /\ toStop = {}
    /\ stopCur = 0

\* The process is gone: memory is as the next start finds it.
MemoryLost ==
    /\ pending' = << >>
    /\ event' = FALSE
    /\ worker' = "none"
    /\ scan' = 0
    /\ pc' = [j \in Jobs |-> "none"]
    /\ busy' = {}
    /\ procs' = {}
    /\ proc' = [j \in Jobs |-> "none"]
    /\ doomed' = {} /\ signalled' = {}
    /\ cancelReq' = {}
    /\ stopper' = "idle"
    /\ toStop' = {}
    /\ stopCur' = 0

Init == RowInit /\ phase = "down" /\ boots = 0 /\ ColdMemory

-----------------------------------------------------------------------------
(* Start, crash. *)

\* start(): JobStore.initialize, then the durable waiters are restored and
\* the callbacks that are due are awaited.
Boot ==
    /\ phase = "down" /\ boots < MaxBoots
    /\ boots' = boots + 1
    /\ InterruptRows
    /\ phase' = "starting"
    /\ UNCHANGED memVars

\* A restored callback raises: start() raises and the server exits.
BootRaises ==
    /\ phase = "starting"
    /\ phase' = "down"
    /\ UNCHANGED <<rowVars, boots, memVars>>

BootRestored ==
    /\ phase = "starting"
    /\ phase' = "loading"
    /\ UNCHANGED <<rowVars, boots, memVars>>

InPending(j) == \E i \in 1..Len(pending) : pending[i] = j

\* One turn of the loop over JobStore.queued(), in creation order.
LoadQueued(j) ==
    /\ phase = "loading"
    /\ status[j] = "queued" /\ ~InPending(j)
    /\ \A i \in Jobs : i < j /\ status[i] = "queued" => InPending(i)
    /\ pending' = Append(pending, j)
    /\ UNCHANGED <<rowVars, phase, boots, event, worker, scan, pc, busy, procs,
                   proc, doomed, signalled, cancelReq, stopper, toStop,
                   stopCur>>

\* Mutant of StartWorker: the worker starts before the rows are read.
StartWorkerEarly ==
    /\ phase = "loading"
    /\ phase' = "up"
    /\ worker' = "parked"
    /\ event' = TRUE
    /\ UNCHANGED <<rowVars, boots, pending, scan, pc, busy, procs, proc, doomed,
                   signalled, cancelReq, stopper, toStop, stopCur>>

StartWorker ==
    /\ phase = "loading"
    /\ \A j \in Jobs : status[j] = "queued" => InPending(j)
    /\ phase' = "up"
    /\ worker' = "parked"
    /\ event' = TRUE
    /\ UNCHANGED <<rowVars, boots, pending, scan, pc, busy, procs, proc, doomed,
                   signalled, cancelReq, stopper, toStop, stopCur>>

\* The server process dies, or exits after stop() raised.
Crash ==
    /\ phase # "down"
    /\ phase' = "down"
    /\ UNCHANGED <<rowVars, boots>>
    /\ MemoryLost

-----------------------------------------------------------------------------
(* Calls of clients. *)

\* start_task / start_execution under the admission locks, then _enqueue.
Admit(j, r) ==
    /\ LoopFree
    /\ InsertRow(j, r)
    /\ pending' = Append(pending, j)
    /\ event' = TRUE
    /\ UNCHANGED <<phase, boots, worker, scan, pc, busy, procs, proc, doomed,
                   signalled, cancelReq, stopper, toStop, stopCur>>

\* cancel() of a QUEUED job; its id stays in the deque.
CancelQueued(j) ==
    /\ LoopFree
    /\ CancelQueuedRow(j)
    /\ UNCHANGED <<phase, boots, memVars>>

\* _terminate of a process that lives: SIGTERM now, SIGKILL after the grace period.
Terminate(j) == doomed' = doomed \cup {j} /\ signalled' = signalled \cup {j}

\* cancel() of a RUNNING job: the request is recorded before the process is
\* looked up; _terminate runs only if there is a process and no exit code,
\* and raises to the caller if the process has just been reaped.
CancelRunning(j) ==
    /\ LoopFree
    /\ status[j] = "running"
    /\ cancelReq' = cancelReq \cup {j}
    /\ IF j \in procs /\ proc[j] = "live" THEN Terminate(j) ELSE UNCHANGED <<doomed, signalled>>
    /\ UNCHANGED <<rowVars, phase, boots, pending, event, worker, scan, pc, busy,
                   procs, proc, stopper, toStop, stopCur>>

-----------------------------------------------------------------------------
(* The dispatcher. *)

\* event.wait() returns, the loop clears the event and calls
\* _next_eligible_job.
WorkerWakes ==
    /\ Serving /\ worker = "parked" /\ event
    /\ event' = FALSE
    /\ worker' = "scanning"
    /\ scan' = Len(pending)
    /\ UNCHANGED <<rowVars, phase, boots, pending, pc, busy, procs, proc,
                   doomed, signalled, cancelReq, stopper, toStop, stopCur>>

MayDispatch == ~Stopping /\ Cardinality(Active) < MaxConcurrency

Scanning == worker = "scanning" /\ scan > 0 /\ MayDispatch

\* The popped job is no longer QUEUED: it leaves the deque.
DropHead ==
    /\ Scanning
    /\ status[Head(pending)] # "queued"
    /\ pending' = Tail(pending)
    /\ scan' = scan - 1
    /\ UNCHANGED <<rowVars, phase, boots, event, worker, pc, busy, procs, proc,
                   doomed, signalled, cancelReq, stopper, toStop, stopCur>>

\* Its repository is busy: it goes to the back of the deque.
RotateHead ==
    /\ Scanning
    /\ status[Head(pending)] = "queued"
    /\ repo[Head(pending)] \in busy
    /\ pending' = Append(Tail(pending), Head(pending))
    /\ scan' = scan - 1
    /\ UNCHANGED <<rowVars, phase, boots, event, worker, pc, busy, procs, proc,
                   doomed, signalled, cancelReq, stopper, toStop, stopCur>>

\* Mutant of DispatchHead: the repository is not claimed.
DispatchUnclaimed ==
    /\ Scanning
    /\ status[Head(pending)] = "queued"
    /\ repo[Head(pending)] \notin busy
    /\ pending' = Tail(pending)
    /\ scan' = Len(pending) - 1
    /\ pc' = [pc EXCEPT ![Head(pending)] = "scheduled"]
    /\ UNCHANGED <<rowVars, phase, boots, event, worker, busy, procs, proc,
                   doomed, signalled, cancelReq, stopper, toStop, stopCur>>

\* It is eligible: claim the repository, create the task, scan again.
DispatchHead ==
    /\ Scanning
    /\ status[Head(pending)] = "queued"
    /\ repo[Head(pending)] \notin busy
    /\ pending' = Tail(pending)
    /\ scan' = Len(pending) - 1
    /\ busy' = busy \cup {repo[Head(pending)]}
    /\ pc' = [pc EXCEPT ![Head(pending)] = "scheduled"]
    /\ UNCHANGED <<rowVars, phase, boots, event, worker, procs, proc, doomed,
                   signalled, cancelReq, stopper, toStop, stopCur>>

\* Mutant of ScanEnds: a stopping worker waits for an empty deque.
ScanEndsDrained ==
    /\ worker = "scanning"
    /\ scan = 0 \/ ~MayDispatch
    /\ scan' = 0
    /\ worker' = IF Stopping /\ pending = << >> THEN "done" ELSE "parked"
    /\ UNCHANGED <<rowVars, phase, boots, pending, event, pc, busy, procs, proc,
                   doomed, signalled, cancelReq, stopper, toStop, stopCur>>

\* Nothing eligible, no free slot, or stopping: return or wait.
ScanEnds ==
    /\ worker = "scanning"
    /\ scan = 0 \/ ~MayDispatch
    /\ scan' = 0
    /\ worker' = IF Stopping /\ Active = {} THEN "done" ELSE "parked"
    /\ UNCHANGED <<rowVars, phase, boots, pending, event, pc, busy, procs, proc,
                   doomed, signalled, cancelReq, stopper, toStop, stopCur>>

-----------------------------------------------------------------------------
(* The task of a job. *)

\* Mutant of Release: the dispatcher is not woken.
ReleaseSilently(j) ==
    /\ pc' = [pc EXCEPT ![j] = "none"]
    /\ busy' = busy \ {repo[j]}
    /\ UNCHANGED event

\* Mutant of Release: the repository stays claimed.
ReleaseLeaking(j) ==
    /\ pc' = [pc EXCEPT ![j] = "none"]
    /\ event' = TRUE
    /\ UNCHANGED busy

\* The finally of _run_scheduled_job: leave _active_tasks, free the
\* repository, wake the dispatcher.
Release(j) ==
    /\ pc' = [pc EXCEPT ![j] = "none"]
    /\ busy' = busy \ {repo[j]}
    /\ event' = TRUE

\* First step of the task: the row is no longer QUEUED.
BeginStale(j) ==
    /\ LoopFree /\ pc[j] = "scheduled"
    /\ status[j] # "queued"
    /\ Release(j)
    /\ UNCHANGED <<rowVars, phase, boots, pending, worker, scan, procs, proc,
                   doomed, signalled, cancelReq, stopper, toStop, stopCur>>

\* First step of the task: the row is RUNNING.  While stopping it is
\* CANCELLED at once ("shutdown"); without its profile or repository it is
\* FAILED at once ("task_profile_unavailable").
Begin(j) ==
    /\ LoopFree /\ pc[j] = "scheduled"
    /\ \/ ~Stopping /\ StartRow(j) /\ pc' = [pc EXCEPT ![j] = "spawning"]
       \/ Stopping /\ CancelQueuedRow(j) /\ pc' = [pc EXCEPT ![j] = "notifying"]
       \/ ~Stopping /\ FailQueuedRow(j) /\ pc' = [pc EXCEPT ![j] = "notifying"]
    /\ UNCHANGED <<phase, boots, pending, event, worker, scan, busy, procs,
                   proc, doomed, signalled, cancelReq, stopper, toStop,
                   stopCur>>

\* The worktree is gone or create_subprocess_exec raised OSError.
SpawnFails(j) ==
    /\ LoopFree /\ pc[j] = "spawning"
    /\ FinishRow(j, "failed")
    /\ pc' = [pc EXCEPT ![j] = "notifying"]
    /\ UNCHANGED <<phase, boots, pending, event, worker, scan, busy, procs,
                   proc, doomed, signalled, cancelReq, stopper, toStop,
                   stopCur>>

\* Mutant of Spawn: the requests recorded meanwhile are not looked at.
SpawnUnasked(j) ==
    /\ LoopFree /\ pc[j] = "spawning"
    /\ procs' = procs \cup {j}
    /\ \E s \in {"live", "gone"} : proc' = [proc EXCEPT ![j] = s]
    /\ pc' = [pc EXCEPT ![j] = "waiting"]
    /\ UNCHANGED <<rowVars, phase, boots, pending, event, worker, scan, busy,
                   doomed, signalled, cancelReq, stopper, toStop, stopCur>>

\* The process exists and may already have been reaped.  A cancellation
\* that came first sends it SIGTERM only.
Spawn(j) ==
    /\ LoopFree /\ pc[j] = "spawning"
    /\ procs' = procs \cup {j}
    /\ \E s \in {"live", "gone"} :
          /\ s = "gone" => j \notin cancelReq
          /\ proc' = [proc EXCEPT ![j] = s]
    /\ signalled' = IF j \in cancelReq THEN signalled \cup {j} ELSE signalled
    /\ pc' = [pc EXCEPT ![j] = "waiting"]
    /\ UNCHANGED <<rowVars, phase, boots, pending, event, worker, scan, busy,
                   doomed, cancelReq, stopper, toStop, stopCur>>

\* That SIGTERM finds no process: the exception skips the cleanup of
\* _processes, and _fail_active ends the row.
SpawnCancelRaises(j) ==
    /\ LoopFree /\ pc[j] = "spawning" /\ j \in cancelReq
    /\ procs' = procs \cup {j}
    /\ proc' = [proc EXCEPT ![j] = "gone"]
    /\ FailActiveRow(j)
    /\ pc' = [pc EXCEPT ![j] = "recovering"]
    /\ UNCHANGED <<phase, boots, pending, event, worker, scan, busy, doomed,
                   signalled, cancelReq, stopper, toStop, stopCur>>

\* The process ends by itself or by a signal; the loop then learns its code.
\* (Its death changes nothing a dispatcher's scan reads.)
ProcessDies(j) ==
    /\ LoopFree /\ proc[j] = "live"
    /\ proc' = [proc EXCEPT ![j] = "gone"]
    /\ doomed' = doomed \ {j} /\ signalled' = signalled \ {j}
    /\ UNCHANGED <<rowVars, phase, boots, pending, event, worker, scan, pc, busy,
                   procs, cancelReq, stopper, toStop, stopCur>>

ProcessReported(j) ==
    /\ LoopFree /\ proc[j] = "gone"
    /\ proc' = [proc EXCEPT ![j] = "exited"]
    /\ UNCHANGED <<rowVars, phase, boots, pending, event, worker, scan, pc,
                   busy, procs, doomed, signalled, cancelReq, stopper, toStop,
                   stopCur>>

\* wait_for times out: _terminate signals the process.
TimesOut(j) ==
    /\ LoopFree /\ pc[j] = "waiting" /\ proc[j] = "live"
    /\ Terminate(j)
    /\ pc' = [pc EXCEPT ![j] = "killing"]
    /\ UNCHANGED <<rowVars, phase, boots, pending, event, worker, scan, busy,
                   procs, proc, cancelReq, stopper, toStop, stopCur>>

\* The timeout, or the SIGKILL after the grace period, meets a process that
\* was just reaped: the finally clause still cleans _processes.
KillRaises(j) ==
    /\ LoopFree /\ pc[j] \in {"waiting", "killing"} /\ proc[j] = "gone"
    /\ procs' = procs \ {j}
    /\ FailActiveRow(j)
    /\ pc' = [pc EXCEPT ![j] = "recovering"]
    /\ UNCHANGED <<phase, boots, pending, event, worker, scan, busy, proc,
                   doomed, signalled, cancelReq, stopper, toStop, stopCur>>

\* The process has exited and its output is drained: exit code 0 goes on to
\* the executor's result and the artifacts, any other code to failure.
Reap(j) ==
    /\ LoopFree /\ pc[j] \in {"waiting", "killing"} /\ proc[j] = "exited"
    /\ procs' = procs \ {j}
    /\ proc' = [proc EXCEPT ![j] = "none"]
    /\ \/ pc[j] = "waiting" /\ pc' = [pc EXCEPT ![j] = "capturing"]
       \/ pc' = [pc EXCEPT ![j] = "failing"]
    /\ UNCHANGED <<rowVars, phase, boots, pending, event, worker, scan, busy,
                   doomed, signalled, cancelReq, stopper, toStop, stopCur>>

\* The verdict.  A cancellation overrides everything; exit code 0 may still
\* fail on the executor's result or a required artifact.
Complete(j) ==
    /\ LoopFree /\ pc[j] \in {"capturing", "failing"}
    /\ \/ j \in cancelReq /\ FinishRow(j, "cancelled")
       \/ j \notin cancelReq /\ FinishRow(j, "failed")
       \/ j \notin cancelReq /\ pc[j] = "capturing" /\ FinishRow(j, "succeeded")
    /\ cancelReq' = cancelReq \ {j}
    /\ pc' = [pc EXCEPT ![j] = "notifying"]
    /\ UNCHANGED <<phase, boots, pending, event, worker, scan, busy, procs,
                   proc, doomed, signalled, stopper, toStop, stopCur>>

\* The callbacks and the audit record are done.
Notified(j) ==
    /\ LoopFree /\ pc[j] \in {"notifying", "recovering"}
    /\ Release(j)
    /\ UNCHANGED <<rowVars, phase, boots, pending, worker, scan, procs, proc,
                   doomed, signalled, cancelReq, stopper, toStop, stopCur>>

\* A callback raised: _fail_active finds the row terminal already and
\* collects the callbacks once more.
CallbackRaises(j) ==
    /\ LoopFree /\ pc[j] = "notifying"
    /\ FailActiveRow(j)
    /\ pc' = [pc EXCEPT ![j] = "recovering"]
    /\ UNCHANGED <<phase, boots, pending, event, worker, scan, busy, procs,
                   proc, doomed, signalled, cancelReq, stopper, toStop,
                   stopCur>>

-----------------------------------------------------------------------------
(* stop(). *)

StopBegins ==
    /\ LoopFree /\ phase = "up"
    /\ phase' = "stopping"
    /\ stopper' = "terminating"
    /\ toStop' = procs
    /\ UNCHANGED <<rowVars, boots, pending, event, worker, scan, pc, busy,
                   procs, proc, doomed, signalled, cancelReq, stopCur>>

\* One turn of the loop over the snapshot.  self._processes[job_id] raises
\* KeyError if the job has ended since; killpg raises on a reaped process.
StopTerminates(j) ==
    /\ LoopFree /\ stopper = "terminating" /\ stopCur = 0 /\ j \in toStop
    /\ toStop' = toStop \ {j}
    /\ cancelReq' = cancelReq \cup {j}
    /\ \/ /\ j \notin procs \/ proc[j] = "gone"
          /\ stopper' = "aborted"
          /\ UNCHANGED <<doomed, signalled, stopCur>>
       \/ /\ j \in procs /\ proc[j] = "live"
          /\ Terminate(j)
          /\ stopCur' = j
          /\ UNCHANGED stopper
       \/ /\ j \in procs /\ proc[j] = "exited"
          /\ UNCHANGED <<stopper, doomed, signalled, stopCur>>
    /\ UNCHANGED <<rowVars, phase, boots, pending, event, worker, scan, pc, busy,
                   procs, proc>>

\* The awaited process has exited, or its SIGKILL raised.
StopTerminated ==
    /\ LoopFree /\ stopper = "terminating" /\ stopCur # 0
    /\ \/ proc[stopCur] \in {"none", "exited"} /\ UNCHANGED stopper
       \/ proc[stopCur] = "gone" /\ stopper' = "aborted"
    /\ stopCur' = 0
    /\ UNCHANGED <<rowVars, phase, boots, pending, event, worker, scan, pc,
                   busy, procs, proc, doomed, signalled, cancelReq, toStop>>

\* Every process of the snapshot is handled: gather the active tasks.
StopGathers ==
    /\ LoopFree /\ stopper = "terminating" /\ stopCur = 0 /\ toStop = {}
    /\ stopper' = "gathering"
    /\ event' = TRUE
    /\ UNCHANGED <<rowVars, phase, boots, pending, worker, scan, pc, busy,
                   procs, proc, doomed, signalled, cancelReq, toStop, stopCur>>

StopJoins ==
    /\ LoopFree /\ stopper = "gathering" /\ Active = {}
    /\ stopper' = "joining"
    /\ event' = TRUE
    /\ UNCHANGED <<rowVars, phase, boots, pending, worker, scan, pc, busy,
                   procs, proc, doomed, signalled, cancelReq, toStop, stopCur>>

\* The worker has returned: stop() returns and the server exits.
StopEnds ==
    /\ LoopFree /\ stopper = "joining" /\ worker = "done"
    /\ phase' = "down"
    /\ UNCHANGED <<rowVars, boots>>
    /\ MemoryLost

-----------------------------------------------------------------------------
TaskStep(j) ==
    \/ BeginStale(j) \/ Begin(j) \/ SpawnFails(j) \/ Spawn(j)
    \/ SpawnCancelRaises(j) \/ Reap(j) \/ KillRaises(j) \/ Complete(j)
    \/ Notified(j) \/ CallbackRaises(j)

WorkerStep == WorkerWakes \/ DropHead \/ RotateHead \/ DispatchHead \/ ScanEnds

StopStep == \/ \E j \in Jobs : StopTerminates(j)
            \/ StopTerminated \/ StopGathers \/ StopJoins \/ StopEnds

BootStep == BootRestored \/ StartWorker \/ \E j \in Jobs : LoadQueued(j)

Next ==
    \/ Boot \/ BootRaises \/ BootStep \/ Crash
    \/ \E j \in Jobs, r \in Repos : Admit(j, r)
    \/ \E j \in Jobs : CancelQueued(j) \/ CancelRunning(j)
    \/ WorkerStep
    \/ \E j \in Jobs : TaskStep(j) \/ ProcessDies(j) \/ ProcessReported(j)
                       \/ TimesOut(j)
    \/ StopBegins \/ StopStep

\* The event loop runs every ready coroutine; a job's timeout is finite; a
\* process under _terminate is killed in the end.
Fairness ==
    /\ WF_vars(BootStep)
    /\ WF_vars(WorkerStep)
    /\ WF_vars(StopStep)
    /\ \A j \in Jobs : /\ WF_vars(TaskStep(j))
                       /\ WF_vars(ProcessReported(j))
                       /\ WF_vars(TimesOut(j))
                       /\ WF_vars(j \in doomed /\ ProcessDies(j))

Spec == Init /\ [][Next]_vars /\ Fairness

-----------------------------------------------------------------------------
(* What the service promises. *)

\* A repository is worked on by one task at a time, whatever interleaving
\* of dispatch, cancellation, failure and cleanup led there, and never more
\* tasks than jobs.max_concurrency run (_run_worker, _run_scheduled_job).
OneTaskPerRepository ==
    /\ \A j, k \in Active : repo[j] = repo[k] => j = k
    /\ Cardinality(Active) <= MaxConcurrency

\* While the server serves, a row is RUNNING exactly while its task is
\* between store.start and its verdict: no error path of _execute,
\* _fail_active or cancel leaves a RUNNING row without a task to end it.
RunningRowsHaveTask ==
    Serving => \A j \in Jobs : status[j] = "running" <=> pc[j] \in Executing

\* A QUEUED row is never forgotten: the dispatcher holds it in the deque or
\* has just handed it to a task (_enqueue, _next_eligible_job, start()).
NoJobLost ==
    Serving => \A j \in Jobs :
                  status[j] = "queued" => InPending(j) \/ pc[j] = "scheduled"

\* The dispatcher sleeps without a pending wake-up only when nothing could
\* be dispatched: each admission and each release sets the event after the
\* state it changes, and a scan that ends early leaves no eligible job.
NoMissedWakeup ==
    phase = "up" /\ worker = "parked" /\ ~event =>
        \/ Cardinality(Active) >= MaxConcurrency
        \/ \A j \in Jobs : status[j] = "queued" /\ pc[j] = "none" =>
                               repo[j] \in busy

\* A process that lives is in reach: its row has not ended, its task waits for
\* it, cancel() and stop() find it in _processes - and a cancellation recorded
\* for its job has reached it, also one that came while it was being created
\* and had nothing to signal yet (cancel, stop, _execute, _terminate).
CancelReachesProcess ==
    \A j \in Jobs : proc[j] = "live" =>
        /\ status[j] = "running" /\ pc[j] \in {"waiting", "killing"}
        /\ j \in procs
        /\ j \in cancelReq => j \in signalled

\* The rows the service writes behave as JobLifecycle says: statuses move
\* forward only, across crashes and restarts too, and a job starts only
\* when no other job of its repository runs.
ImplementsJobLifecycle == RowSpec

\* A queued job of a server that stays up reaches a terminal status: no
\* lost wake-up, no leaked slot and no starvation by busy repositories.
QueuedJobEnds ==
    \A j \in Jobs : (phase = "up" /\ status[j] = "queued")
                       ~> (status[j] \in Terminal \/ phase # "up")

\* stop() comes to an end: it returns, or it raises.
StopComesToAnEnd ==
    phase = "stopping" ~> (phase = "down" \/ stopper = "aborted")
=============================================================================
