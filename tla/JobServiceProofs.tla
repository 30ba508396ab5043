-------------------------- MODULE JobServiceProofs --------------------------
(***************************************************************************)
(* Proofs about JobService, for every number of jobs, set of repositories, *)
(* concurrency and number of restarts.  The invariants of the service are  *)
(* not inductive as they stand; IInv adds what the dispatcher relies on:   *)
(* the claims are exactly those of the active tasks, and a job that a scan *)
(* has already passed over belongs to a claimed repository.                *)
(***************************************************************************)
EXTENDS JobService, FiniteSetTheorems, TLAPS

-----------------------------------------------------------------------------
(* The inductive invariant. *)

\* A scan never looks past the end of the deque (_next_eligible_job).
ScanInRange == worker = "scanning" => scan <= Len(pending)

\* Only a row that exists has a task.
TasksHaveRows == \A j \in Active : status[j] # "absent"

\* _active_repositories holds the repositories of the active tasks, one each.
ClaimsOfTasks == /\ busy = {repo[j] : j \in Active}
                 /\ \A j, k \in Active : repo[j] = repo[k] => j = k

\* No more tasks than slots.
SlotsBounded == Cardinality(Active) <= MaxConcurrency

\* Before the worker starts there is no task, and after initialize() no row
\* is RUNNING.
NotServing == /\ ~Serving => Active = {}
              /\ phase \in {"starting", "loading"} => Running = {}
              /\ ~Serving => worker = "none"

\* A scan has put behind it only jobs of claimed repositories.
ScannedAreBusy ==
    worker = "scanning" =>
        \A i \in (scan + 1)..Len(pending) :
            status[pending[i]] = "queued" => repo[pending[i]] \in busy

IInv == /\ TypeOK
        /\ ScanInRange
        /\ TasksHaveRows
        /\ ClaimsOfTasks
        /\ SlotsBounded
        /\ NotServing
        /\ RunningRowsHaveTask
        /\ NoJobLost
        /\ ScannedAreBusy
        /\ NoMissedWakeup

-----------------------------------------------------------------------------
(* Type correctness. *)

\* The cold server has its variables in their domains.
LEMMA InitTypeOK == Init => TypeOK
  <1> SUFFICES ASSUME Init PROVE TypeOK
    OBVIOUS
  <1>1. RowTypeOK
    BY DEF Init, RowInit, RowTypeOK, Statuses
  <1>2. << >> \in Seq(Jobs) /\ {} \in SUBSET Jobs
    OBVIOUS
  <1> QED
    BY <1>1, <1>2 DEF Init, ColdMemory, TypeOK, TaskPcs, ProcStates

\* A scan that may go on has a head to look at.
LEMMA ScanHasHead ==
  ASSUME TypeOK, ScanInRange, Scanning
  PROVE  /\ pending # << >>
         /\ Head(pending) \in Jobs
         /\ Tail(pending) \in Seq(Jobs)
         /\ Len(Tail(pending)) = Len(pending) - 1
         /\ Len(pending) \in Nat \ {0}
  BY DEF TypeOK, ScanInRange, Scanning

\* Every step keeps the variables in their domains, the scan of the deque
\* included: it never takes the head of an empty one.
LEMMA TypeStep ==
  ASSUME TypeOK, ScanInRange, [Next]_vars
  PROVE  TypeOK'
  <1> USE DEF TypeOK, RowTypeOK, Statuses, Terminal, TaskPcs, ProcStates
  <1>1. CASE UNCHANGED vars
    BY <1>1 DEF vars, rowVars, memVars
  <1>2. CASE Boot \/ BootRaises \/ BootRestored
    BY <1>2 DEF Boot, BootRaises, BootRestored, InterruptRows, rowVars, memVars
  <1>3. CASE StartWorker
    BY <1>3 DEF StartWorker, rowVars
  <1>4. ASSUME NEW j \in Jobs, LoadQueued(j) PROVE TypeOK'
    BY <1>4 DEF LoadQueued, rowVars
  <1>5. CASE Crash \/ StopEnds
    <2>1. RowTypeOK'
      BY <1>5 DEF Crash, StopEnds, rowVars
    <2>2. MemoryLost /\ phase' = "down" /\ boots' = boots
      BY <1>5 DEF Crash, StopEnds
    <2>3. << >> \in Seq(Jobs) /\ {} \in SUBSET Jobs
      OBVIOUS
    <2>4. pc' \in [Jobs -> TaskPcs] /\ proc' \in [Jobs -> ProcStates]
      BY <2>2 DEF MemoryLost
    <2> QED
      BY <2>1, <2>2, <2>3, <2>4 DEF MemoryLost
  <1>6. ASSUME NEW j \in Jobs, NEW r \in Repos, Admit(j, r) PROVE TypeOK'
    BY <1>6 DEF Admit, InsertRow
  <1>7. ASSUME NEW j \in Jobs, CancelQueued(j) \/ CancelRunning(j) PROVE TypeOK'
    BY <1>7 DEF CancelQueued, CancelQueuedRow, CancelRunning, Terminate, rowVars, memVars
  <1>8. CASE WorkerWakes \/ ScanEnds
    <2>1. CASE WorkerWakes
      <3>1. scan' \in Nat
        BY <2>1 DEF WorkerWakes
      <3> QED
        BY <2>1, <3>1 DEF WorkerWakes, rowVars
    <2>2. CASE ScanEnds
      BY <2>2 DEF ScanEnds, rowVars
    <2> QED
      BY <1>8, <2>1, <2>2
  <1>9. CASE DropHead \/ RotateHead
    <2>1. Scanning
      BY <1>9 DEF DropHead, RotateHead
    <2>2. scan - 1 \in Nat
      BY <2>1 DEF Scanning
    <2>3. /\ Tail(pending) \in Seq(Jobs)
          /\ Append(Tail(pending), Head(pending)) \in Seq(Jobs)
      BY <2>1, ScanHasHead
    <2>4. pending' \in Seq(Jobs) /\ scan' \in Nat
      BY <1>9, <2>2, <2>3 DEF DropHead, RotateHead
    <2>5. /\ UNCHANGED <<status, repo>>
          /\ UNCHANGED <<phase, boots, event, worker, pc, busy, procs, proc,
                         doomed, signalled, cancelReq, stopper, toStop, stopCur>>
      BY <1>9 DEF DropHead, RotateHead, rowVars
    <2> QED
      BY <2>4, <2>5
  <1>10. CASE DispatchHead
    BY <1>10, ScanHasHead DEF DispatchHead, rowVars
  <1>11. ASSUME NEW j \in Jobs, TaskStep(j) PROVE TypeOK'
    <2>1. CASE BeginStale(j) \/ Notified(j)
      BY <2>1 DEF BeginStale, Notified, Release, rowVars
    <2>2. CASE Begin(j)
      BY <2>2 DEF Begin, StartRow, CancelQueuedRow, FailQueuedRow
    <2>3. CASE SpawnFails(j) \/ Complete(j)
      BY <2>3 DEF SpawnFails, Complete, FinishRow
    <2>4. CASE Spawn(j) \/ Reap(j)
      BY <2>4 DEF Spawn, Reap, rowVars
    <2>5. CASE SpawnCancelRaises(j) \/ KillRaises(j) \/ CallbackRaises(j)
      BY <2>5 DEF SpawnCancelRaises, KillRaises, CallbackRaises, FailActiveRow
    <2> QED
      BY <1>11, <2>1, <2>2, <2>3, <2>4, <2>5 DEF TaskStep
  <1>12. ASSUME NEW j \in Jobs, ProcessDies(j) \/ ProcessReported(j) \/ TimesOut(j)
         PROVE  TypeOK'
    BY <1>12 DEF ProcessDies, ProcessReported, TimesOut, Terminate, rowVars
  <1>13. CASE StopBegins \/ StopTerminated \/ StopGathers \/ StopJoins
    BY <1>13 DEF StopBegins, StopTerminated, StopGathers, StopJoins, rowVars
  <1>14. ASSUME NEW j \in Jobs, StopTerminates(j) PROVE TypeOK'
    BY <1>14 DEF StopTerminates, Terminate, rowVars
  <1> QED
    BY <1>1, <1>2, <1>3, <1>4, <1>5, <1>6, <1>7, <1>8, <1>9, <1>10, <1>11, <1>12,
       <1>13, <1>14
    DEF Next, BootStep, WorkerStep, StopStep

-----------------------------------------------------------------------------
(* What a step leaves alone. *)

\* The steps that write no row.
LEMMA RowsUntouched ==
  ASSUME [Next]_vars
  PROVE  \/ UNCHANGED <<status, repo>>
         \/ Boot
         \/ \E j \in Jobs, r \in Repos : Admit(j, r)
         \/ \E j \in Jobs : \/ CancelQueued(j) \/ Begin(j) \/ SpawnFails(j)
                            \/ Complete(j) \/ SpawnCancelRaises(j)
                            \/ KillRaises(j) \/ CallbackRaises(j)
  <1>1. ASSUME NEW j \in Jobs,
               \/ BeginStale(j) \/ Spawn(j) \/ Reap(j) \/ Notified(j)
               \/ LoadQueued(j) \/ CancelRunning(j) \/ ProcessDies(j)
               \/ ProcessReported(j) \/ TimesOut(j) \/ StopTerminates(j)
        PROVE  UNCHANGED <<status, repo>>
    BY <1>1 DEF BeginStale, Spawn, Reap, Notified, LoadQueued, CancelRunning,
                ProcessDies, ProcessReported, TimesOut, StopTerminates, rowVars
  <1>2. ASSUME \/ UNCHANGED vars \/ BootRaises \/ BootRestored \/ StartWorker
               \/ Crash \/ WorkerStep \/ StopBegins \/ StopTerminated
               \/ StopGathers \/ StopJoins \/ StopEnds
        PROVE  UNCHANGED <<status, repo>>
    BY <1>2 DEF vars, BootRaises, BootRestored, StartWorker, Crash, WorkerStep,
                WorkerWakes, DropHead, RotateHead, DispatchHead, ScanEnds,
                StopBegins, StopTerminated, StopGathers, StopJoins, StopEnds,
                rowVars
  <1> QED
    BY <1>1, <1>2 DEF Next, BootStep, TaskStep, StopStep

\* A row that exists stays, in its repository.
LEMMA RowsStay ==
  ASSUME TypeOK, [Next]_vars, NEW i \in Jobs, status[i] # "absent"
  PROVE  status'[i] # "absent" /\ repo'[i] = repo[i]
  <1> USE DEF TypeOK, RowTypeOK
  <1>1. CASE UNCHANGED <<status, repo>>
    BY <1>1
  <1>2. CASE Boot
    BY <1>2 DEF Boot, InterruptRows
  <1>3. ASSUME NEW j \in Jobs, NEW r \in Repos, Admit(j, r)
        PROVE  status'[i] # "absent" /\ repo'[i] = repo[i]
    BY <1>3 DEF Admit, InsertRow
  <1>4. ASSUME NEW j \in Jobs, CancelQueued(j) \/ Begin(j)
        PROVE  status'[i] # "absent" /\ repo'[i] = repo[i]
    BY <1>4 DEF CancelQueued, Begin, StartRow, CancelQueuedRow, FailQueuedRow
  <1>5. ASSUME NEW j \in Jobs, SpawnFails(j) \/ Complete(j)
        PROVE  status'[i] # "absent" /\ repo'[i] = repo[i]
    BY <1>5 DEF SpawnFails, Complete, FinishRow
  <1>6. ASSUME NEW j \in Jobs,
               SpawnCancelRaises(j) \/ KillRaises(j) \/ CallbackRaises(j)
        PROVE  status'[i] # "absent" /\ repo'[i] = repo[i]
    BY <1>6 DEF SpawnCancelRaises, KillRaises, CallbackRaises, FailActiveRow
  <1> QED
    BY <1>1, <1>2, <1>3, <1>4, <1>5, <1>6, RowsUntouched

\* Only a step of the worker leaves it scanning: the scan has no await in it.
LEMMA OnlyWorkerScans ==
  ASSUME TypeOK, NotServing, [Next]_vars
  PROVE  WorkerStep \/ UNCHANGED vars \/ worker' # "scanning"
  <1>1. CASE Boot \/ BootRaises \/ BootRestored \/ StartWorker \/ Crash \/ StopEnds
    BY <1>1 DEF Boot, BootRaises, BootRestored, StartWorker, Crash, StopEnds,
                MemoryLost, NotServing, Serving, memVars
  <1>2. ASSUME NEW j \in Jobs, LoadQueued(j) PROVE worker' # "scanning"
    BY <1>2 DEF LoadQueued, NotServing, Serving
  <1>3. ASSUME NEW j \in Jobs, NEW r \in Repos, Admit(j, r)
        PROVE  worker' # "scanning"
    BY <1>3 DEF Admit, LoopFree
  <1>4. ASSUME NEW j \in Jobs, CancelQueued(j) \/ CancelRunning(j)
        PROVE  worker' # "scanning"
    BY <1>4 DEF CancelQueued, CancelRunning, LoopFree, memVars
  <1>5. ASSUME NEW j \in Jobs, TaskStep(j) PROVE worker' # "scanning"
    BY <1>5 DEF TaskStep, BeginStale, Begin, SpawnFails, Spawn, SpawnCancelRaises,
                Reap, KillRaises, Complete, Notified, CallbackRaises, LoopFree
  <1>6. ASSUME NEW j \in Jobs,
               ProcessDies(j) \/ ProcessReported(j) \/ TimesOut(j)
                 \/ StopTerminates(j)
        PROVE  worker' # "scanning"
    BY <1>6 DEF ProcessDies, ProcessReported, TimesOut, StopTerminates, LoopFree
  <1>7. CASE StopBegins \/ StopTerminated \/ StopGathers \/ StopJoins
    BY <1>7 DEF StopBegins, StopTerminated, StopGathers, StopJoins, LoopFree
  <1> QED
    BY <1>1, <1>2, <1>3, <1>4, <1>5, <1>6, <1>7 DEF Next, BootStep, StopStep

\* A step starts one task, ends one, loses them all or keeps them all.
LEMMA TasksOfAStep ==
  ASSUME TypeOK, NotServing, [Next]_vars
  PROVE  \/ UNCHANGED busy /\ Active' = Active
         \/ DispatchHead
         \/ \E j \in Active : Release(j) /\ UNCHANGED <<status, repo>>
         \/ busy' = {} /\ Active' = {}
  <1> USE DEF Active, TypeOK
  <1>1. CASE UNCHANGED <<busy, pc>>
    BY <1>1
  <1>2. CASE Crash \/ StopEnds
    BY <1>2 DEF Crash, StopEnds, MemoryLost
  <1>3. ASSUME NEW j \in Jobs, BeginStale(j) \/ Notified(j)
        PROVE  j \in Active /\ Release(j) /\ UNCHANGED <<status, repo>>
    BY <1>3 DEF BeginStale, Notified, rowVars
  <1>4. ASSUME NEW j \in Jobs,
               \/ Begin(j) \/ SpawnFails(j) \/ Spawn(j) \/ SpawnCancelRaises(j)
               \/ Reap(j) \/ KillRaises(j) \/ Complete(j) \/ CallbackRaises(j)
               \/ TimesOut(j)
        PROVE  UNCHANGED busy /\ Active' = Active
    <2>1. /\ pc[j] # "none" /\ UNCHANGED busy
          /\ \E s \in TaskPcs \ {"none"} : pc' = [pc EXCEPT ![j] = s]
      BY <1>4 DEF Begin, SpawnFails, Spawn, SpawnCancelRaises, Reap, KillRaises,
                  Complete, CallbackRaises, TimesOut, TaskPcs
    <2> QED
      BY <2>1
  <1>5. ASSUME NEW j \in Jobs,
               \/ LoadQueued(j) \/ CancelQueued(j) \/ CancelRunning(j)
               \/ ProcessDies(j) \/ ProcessReported(j) \/ StopTerminates(j)
        PROVE  UNCHANGED <<busy, pc>>
    BY <1>5 DEF LoadQueued, CancelQueued, CancelRunning, ProcessDies,
                ProcessReported, StopTerminates, memVars
  <1>6. ASSUME NEW j \in Jobs, NEW r \in Repos, Admit(j, r)
        PROVE  UNCHANGED <<busy, pc>>
    BY <1>6 DEF Admit
  <1>7. ASSUME \/ UNCHANGED vars \/ Boot \/ BootRaises \/ BootRestored
               \/ StartWorker \/ WorkerWakes \/ DropHead \/ RotateHead \/ ScanEnds
               \/ StopBegins \/ StopTerminated \/ StopGathers \/ StopJoins
        PROVE  UNCHANGED <<busy, pc>>
    BY <1>7 DEF vars, Boot, BootRaises, BootRestored, StartWorker, WorkerWakes,
                DropHead, RotateHead, ScanEnds, StopBegins, StopTerminated,
                StopGathers, StopJoins, memVars
  <1> QED
    BY <1>1, <1>2, <1>3, <1>4, <1>5, <1>6, <1>7
    DEF Next, BootStep, TaskStep, WorkerStep, StopStep

-----------------------------------------------------------------------------
(* The parts of the invariant that speak of the dispatcher. *)

\* A scan has as many turns left as the deque has ids, at most: nobody else
\* touches the deque before the scan ends.
LEMMA ScanInRangeStep ==
  ASSUME TypeOK, ScanInRange, NotServing, [Next]_vars
  PROVE  ScanInRange'
  <1>1. CASE UNCHANGED vars
    BY <1>1 DEF vars, memVars, ScanInRange
  <1>2. CASE worker' # "scanning"
    BY <1>2 DEF ScanInRange
  <1>3. CASE WorkerWakes
    BY <1>3 DEF WorkerWakes, ScanInRange, TypeOK
  <1>4. ASSUME DropHead \/ RotateHead \/ DispatchHead PROVE ScanInRange'
    <2>1. Scanning
      BY <1>4 DEF DropHead, RotateHead, DispatchHead, Scanning
    <2>2. /\ Len(Tail(pending)) = Len(pending) - 1
          /\ Len(Append(Tail(pending), Head(pending))) = Len(pending)
          /\ Len(pending) \in Nat /\ scan \in Nat
      BY <2>1, ScanHasHead DEF TypeOK
    <2>3. scan - 1 <= Len(pending) - 1 /\ scan - 1 <= Len(pending)
      BY <2>1, <2>2 DEF Scanning, ScanInRange
    <2> QED
      BY <1>4, <2>2, <2>3 DEF DropHead, RotateHead, DispatchHead, ScanInRange
  <1>5. CASE ScanEnds
    BY <1>5 DEF ScanEnds, ScanInRange
  <1> QED
    BY <1>1, <1>2, <1>3, <1>4, <1>5, OnlyWorkerScans DEF WorkerStep

\* A repository is claimed with the creation of its task and given back with
\* the end of it, and DispatchHead claims only what is free.
LEMMA ClaimsStep ==
  ASSUME TypeOK, ScanInRange, TasksHaveRows, ClaimsOfTasks, NotServing,
         [Next]_vars
  PROVE  TasksHaveRows' /\ ClaimsOfTasks'
  <1> USE DEF TasksHaveRows, ClaimsOfTasks
  <1>1. \A i \in Active : status'[i] # "absent" /\ repo'[i] = repo[i]
    BY RowsStay DEF Active
  <1>2. CASE UNCHANGED busy /\ Active' = Active
    BY <1>1, <1>2
  <1>3. CASE DispatchHead
    <2> DEFINE h == Head(pending)
    <2>1. h \in Jobs
      BY <1>3, ScanHasHead DEF DispatchHead, Scanning
    <2>2. Active' = Active \cup {h}
      BY <1>3, <2>1 DEF DispatchHead, Active, TypeOK
    <2>3. /\ busy' = busy \cup {repo[h]}
          /\ repo[h] \notin busy /\ status[h] = "queued"
          /\ UNCHANGED <<status, repo>>
      BY <1>3 DEF DispatchHead, rowVars
    <2> QED
      BY <2>2, <2>3
  <1>4. ASSUME NEW j \in Active, Release(j), UNCHANGED <<status, repo>>
        PROVE  TasksHaveRows' /\ ClaimsOfTasks'
    <2>1. Active' = Active \ {j} /\ busy' = busy \ {repo[j]}
      BY <1>4 DEF Release, Active, TypeOK
    <2> QED
      BY <1>4, <2>1
  <1>5. CASE busy' = {} /\ Active' = {}
    BY <1>5
  <1> QED
    BY <1>2, <1>3, <1>4, <1>5, TasksOfAStep

\* Finitely many tasks, so that their number can be compared.
LEMMA ActiveFinite == IsFiniteSet(Active) /\ Cardinality(Active) \in Nat
  <1>1. IsFiniteSet(1..NumJobs)
    BY LifecycleAssumption, FS_Interval
  <1>2. Active \subseteq 1..NumJobs
    BY DEF Active, Jobs
  <1> QED
    BY <1>1, <1>2, FS_Subset, FS_CardinalityType

\* DispatchHead is the only step that adds a task, and looks for a slot first.
LEMMA SlotsStep ==
  ASSUME TypeOK, ScanInRange, SlotsBounded, NotServing, [Next]_vars
  PROVE  SlotsBounded'
  <1> USE DEF SlotsBounded
  <1>1. CASE Active' = Active
    BY <1>1
  <1>2. CASE DispatchHead
    <2>1. /\ Head(pending) \in Jobs
          /\ Cardinality(Active) < MaxConcurrency
      BY <1>2, ScanHasHead DEF DispatchHead, Scanning, MayDispatch
    <2>2. Active' = Active \cup {Head(pending)}
      BY <1>2, <2>1 DEF DispatchHead, Active, TypeOK
    <2>3. \/ Cardinality(Active') = Cardinality(Active)
          \/ Cardinality(Active') = Cardinality(Active) + 1
      BY <2>2, ActiveFinite, FS_AddElement
    <2> QED
      BY <2>1, <2>3, ActiveFinite, ServiceAssumption
  <1>3. ASSUME NEW j \in Active, Release(j) PROVE SlotsBounded'
    <2>1. Active' \subseteq Active
      BY <1>3 DEF Release, Active, TypeOK
    <2>2. Cardinality(Active') <= Cardinality(Active) /\ Cardinality(Active') \in Nat
      BY <2>1, ActiveFinite, FS_Subset, FS_CardinalityType
    <2> QED
      BY <2>2, ActiveFinite, ServiceAssumption
  <1>4. CASE Active' = {}
    BY <1>4, FS_EmptySet, ServiceAssumption
  <1> QED
    BY <1>1, <1>2, <1>3, <1>4, TasksOfAStep

\* A server that is down or starting has no task, no worker and, once
\* initialize() has run, no RUNNING row.
LEMMA NotServingStep ==
  ASSUME TypeOK, NotServing, [Next]_vars
  PROVE  NotServing'
  <1> USE DEF NotServing, Serving
  <1>1. CASE UNCHANGED vars
    BY <1>1 DEF vars, rowVars, memVars, Active, Running
  <1>2. CASE Boot
    BY <1>2 DEF Boot, InterruptRows, memVars, Active, Running, TypeOK, RowTypeOK
  <1>3. CASE BootRaises \/ BootRestored
    BY <1>3 DEF BootRaises, BootRestored, rowVars, memVars, Active, Running
  <1>4. ASSUME NEW j \in Jobs, LoadQueued(j) PROVE NotServing'
    BY <1>4 DEF LoadQueued, rowVars, Active, Running
  <1>5. CASE Crash \/ StopEnds
    BY <1>5 DEF Crash, StopEnds, MemoryLost, Active
  <1>6. ASSUME Serving' PROVE NotServing'
    BY <1>6
  <1>7. ASSUME NEW j \in Jobs,
               \/ CancelQueued(j) \/ CancelRunning(j) \/ TaskStep(j)
               \/ ProcessDies(j) \/ ProcessReported(j) \/ TimesOut(j)
               \/ StopTerminates(j)
        PROVE  Serving'
    BY <1>7 DEF CancelQueued, CancelRunning, TaskStep, BeginStale, Begin,
                SpawnFails, Spawn, SpawnCancelRaises, Reap, KillRaises, Complete,
                Notified, CallbackRaises, ProcessDies, ProcessReported, TimesOut,
                StopTerminates, LoopFree
  <1>8. ASSUME NEW j \in Jobs, NEW r \in Repos, Admit(j, r) PROVE Serving'
    BY <1>8 DEF Admit, LoopFree
  <1>9. ASSUME \/ StartWorker \/ WorkerStep \/ StopBegins \/ StopTerminated
               \/ StopGathers \/ StopJoins
        PROVE  Serving'
    BY <1>9 DEF StartWorker, WorkerStep, WorkerWakes, DropHead, RotateHead,
                DispatchHead, ScanEnds, Scanning, StopBegins, StopTerminated,
                StopGathers, StopJoins, LoopFree
  <1> QED
    BY <1>1, <1>2, <1>3, <1>4, <1>5, <1>6, <1>7, <1>8, <1>9
    DEF Next, BootStep, StopStep

-----------------------------------------------------------------------------
(* The rows and the tasks agree. *)

\* A row becomes RUNNING, and stops being so, in the very step in which its
\* task enters and leaves the part of _execute that ends it.
LEMMA RunningStep ==
  ASSUME TypeOK, ScanInRange, NotServing, RunningRowsHaveTask, [Next]_vars
  PROVE  RunningRowsHaveTask'
  <1> USE DEF RunningRowsHaveTask, Executing, TypeOK, RowTypeOK
  <1>1. CASE UNCHANGED vars
    BY <1>1 DEF vars, rowVars, memVars, Serving
  <1>2. ASSUME ~Serving' PROVE RunningRowsHaveTask'
    BY <1>2
  <1>3. CASE StartWorker
    BY <1>3 DEF StartWorker, NotServing, Running, Active, Serving, rowVars
  <1>4. ASSUME NEW j \in Jobs, NEW r \in Repos, Admit(j, r)
        PROVE  RunningRowsHaveTask'
    BY <1>4 DEF Admit, InsertRow, LoopFree, Serving
  <1>5. ASSUME NEW j \in Jobs, CancelQueued(j) PROVE RunningRowsHaveTask'
    BY <1>5 DEF CancelQueued, CancelQueuedRow, LoopFree, Serving, memVars
  <1>6. ASSUME NEW j \in Jobs,
               \/ CancelRunning(j) \/ ProcessDies(j) \/ ProcessReported(j)
               \/ StopTerminates(j)
        PROVE  UNCHANGED <<status, pc, phase>>
    BY <1>6 DEF CancelRunning, ProcessDies, ProcessReported, StopTerminates,
                rowVars
  <1>7. ASSUME NEW j \in Jobs, TimesOut(j) PROVE RunningRowsHaveTask'
    BY <1>7 DEF TimesOut, LoopFree, Serving, rowVars
  <1>8. ASSUME UNCHANGED <<status, pc, phase>> PROVE RunningRowsHaveTask'
    BY <1>8 DEF Serving
  <1>9. ASSUME NEW j \in Jobs, TaskStep(j) PROVE RunningRowsHaveTask'
    <2>1. CASE BeginStale(j) \/ Notified(j)
      BY <2>1 DEF BeginStale, Notified, Release, LoopFree, Serving, rowVars
    <2>2. CASE Begin(j)
      BY <2>2 DEF Begin, StartRow, CancelQueuedRow, FailQueuedRow, LoopFree, Serving
    <2>3. CASE SpawnFails(j)
      BY <2>3 DEF SpawnFails, FinishRow, LoopFree, Serving
    <2>4. CASE Complete(j)
      BY <2>4 DEF Complete, FinishRow, LoopFree, Serving
    <2>5. CASE Spawn(j) \/ Reap(j)
      BY <2>5 DEF Spawn, Reap, LoopFree, Serving, rowVars
    <2>6. CASE SpawnCancelRaises(j) \/ KillRaises(j)
      BY <2>6 DEF SpawnCancelRaises, KillRaises, FailActiveRow, LoopFree, Serving
    <2>7. CASE CallbackRaises(j)
      BY <2>7 DEF CallbackRaises, FailActiveRow, LoopFree, Serving
    <2> QED
      BY <1>9, <2>1, <2>2, <2>3, <2>4, <2>5, <2>6, <2>7 DEF TaskStep
  <1>10. CASE WorkerWakes \/ DropHead \/ RotateHead \/ ScanEnds
    BY <1>10, <1>8 DEF WorkerWakes, DropHead, RotateHead, ScanEnds, rowVars
  <1>11. CASE DispatchHead
    <2>1. Head(pending) \in Jobs /\ status[Head(pending)] = "queued"
      BY <1>11, ScanHasHead DEF DispatchHead
    <2> QED
      BY <1>11, <2>1 DEF DispatchHead, Serving, rowVars
  <1>12. CASE StopBegins
    BY <1>12 DEF StopBegins, Serving, rowVars
  <1>13. CASE StopTerminated \/ StopGathers \/ StopJoins
    BY <1>13, <1>8 DEF StopTerminated, StopGathers, StopJoins, rowVars
  <1>14. CASE \/ Boot \/ BootRaises \/ BootRestored \/ Crash \/ StopEnds
              \/ \E j \in Jobs : LoadQueued(j)
    BY <1>14 DEF Boot, BootRaises, BootRestored, Crash, StopEnds, LoadQueued,
                 Serving
  <1> QED
    BY <1>1, <1>2, <1>3, <1>4, <1>5, <1>6, <1>7, <1>8, <1>9, <1>10, <1>11, <1>12,
       <1>13, <1>14
    DEF Next, BootStep, WorkerStep, StopStep

\* What the deque holds after an append.
LEMMA AppendContents ==
  ASSUME NEW q \in Seq(Jobs), NEW x \in Jobs, NEW j
  PROVE  (\E i \in 1..Len(Append(q, x)) : Append(q, x)[i] = j)
         <=> (\E i \in 1..Len(q) : q[i] = j) \/ j = x
  <1>1. /\ Len(Append(q, x)) = Len(q) + 1 /\ Len(q) \in Nat
        /\ \A i \in 1..Len(q) : Append(q, x)[i] = q[i]
        /\ Append(q, x)[Len(q) + 1] = x
    OBVIOUS
  <1>2. ASSUME NEW i \in 1..Len(q), q[i] = j
        PROVE  \E k \in 1..Len(Append(q, x)) : Append(q, x)[k] = j
    BY <1>1, <1>2
  <1>3. \E k \in 1..Len(Append(q, x)) : Append(q, x)[k] = x
    BY <1>1
  <1>4. ASSUME NEW i \in 1..Len(Append(q, x)), Append(q, x)[i] = j, j # x
        PROVE  \E k \in 1..Len(q) : q[k] = j
    <2>1. i \in 1..Len(q)
      BY <1>1, <1>4
    <2> QED
      BY <1>1, <1>4, <2>1
  <1> QED
    BY <1>2, <1>3, <1>4

\* What the deque holds beside its head.
LEMMA TailContents ==
  ASSUME NEW q \in Seq(Jobs), q # << >>, NEW j
  PROVE  (\E i \in 1..Len(q) : q[i] = j)
         <=> (\E i \in 1..Len(Tail(q)) : Tail(q)[i] = j) \/ j = Head(q)
  <1>1. /\ Len(Tail(q)) = Len(q) - 1 /\ Len(q) \in Nat \ {0}
        /\ \A i \in 1..(Len(q) - 1) : Tail(q)[i] = q[i + 1]
        /\ Head(q) = q[1]
    OBVIOUS
  <1>2. ASSUME NEW i \in 1..Len(q), q[i] = j, j # Head(q)
        PROVE  \E k \in 1..Len(Tail(q)) : Tail(q)[k] = j
    <2>1. i - 1 \in 1..(Len(q) - 1) /\ Tail(q)[i - 1] = q[i]
      BY <1>1, <1>2
    <2> QED
      BY <1>1, <1>2, <2>1
  <1>3. ASSUME NEW i \in 1..Len(Tail(q)), Tail(q)[i] = j
        PROVE  \E k \in 1..Len(q) : q[k] = j
    <2>1. i + 1 \in 1..Len(q) /\ q[i + 1] = j
      BY <1>1, <1>3
    <2> QED
      BY <2>1
  <1>4. \E k \in 1..Len(q) : q[k] = Head(q)
    BY <1>1
  <1> QED
    BY <1>2, <1>3, <1>4

\* A step that neither admits, releases, starts nor moves the dispatcher adds
\* no work and frees nothing.
QuietStep ==
    /\ UNCHANGED <<pending, worker, busy>>
    /\ event' = event \/ event'
    /\ phase' = phase \/ phase' # "up"
    /\ Serving' => Serving
    /\ Active' = Active
    /\ \A i \in Jobs : status'[i] = "queued" =>
          /\ status[i] = "queued"
          /\ repo'[i] = repo[i]
          /\ pc'[i] = pc[i]

ReleaseStep(j) ==
    /\ Serving
    /\ Release(j)
    /\ UNCHANGED <<status, repo, pending>>
    /\ status[j] # "queued" \/ pc[j] # "scheduled"

\* What a step does to the statuses, the deque and the tasks, as far as a
\* QUEUED row is concerned.
LEMMA StepKinds ==
  ASSUME TypeOK, NotServing, RunningRowsHaveTask, [Next]_vars
  PROVE  \/ QuietStep
         \/ ~Serving'
         \/ StartWorker
         \/ WorkerStep
         \/ \E j \in Jobs, r \in Repos : Admit(j, r)
         \/ \E j \in Jobs : ReleaseStep(j)
  <1> USE DEF TypeOK, RowTypeOK
  <1>1. CASE UNCHANGED vars
    BY <1>1 DEF vars, rowVars, memVars, QuietStep, Active, Serving
  <1>2. CASE \/ Boot \/ BootRaises \/ BootRestored \/ Crash \/ StopEnds
             \/ \E j \in Jobs : LoadQueued(j)
    BY <1>2 DEF Boot, BootRaises, BootRestored, Crash, StopEnds, LoadQueued,
                Serving
  <1>3. ASSUME NEW j \in Jobs, CancelQueued(j) PROVE QuietStep
    BY <1>3 DEF CancelQueued, CancelQueuedRow, QuietStep, Active, Serving, memVars
  <1>4. ASSUME NEW j \in Jobs,
               \/ CancelRunning(j) \/ ProcessDies(j) \/ ProcessReported(j)
               \/ StopTerminates(j)
        PROVE  QuietStep
    BY <1>4 DEF CancelRunning, ProcessDies, ProcessReported, StopTerminates,
                QuietStep, Active, Serving, rowVars
  <1>5. ASSUME NEW j \in Jobs, BeginStale(j) \/ Notified(j) PROVE ReleaseStep(j)
    BY <1>5 DEF BeginStale, Notified, ReleaseStep, LoopFree, rowVars
  <1>6. ASSUME NEW j \in Jobs, Begin(j) PROVE QuietStep
    BY <1>6 DEF Begin, StartRow, CancelQueuedRow, FailQueuedRow, QuietStep, Active,
                Serving, LoopFree
  <1>7. ASSUME NEW j \in Jobs, SpawnFails(j) \/ Complete(j) PROVE QuietStep
    BY <1>7 DEF SpawnFails, Complete, FinishRow, QuietStep, Active, Serving,
                LoopFree, Terminal
  <1>8. ASSUME NEW j \in Jobs, Spawn(j) \/ Reap(j) \/ TimesOut(j) PROVE QuietStep
    <2>1. /\ pc[j] \in Executing /\ Serving
          /\ \E s \in Executing : pc' = [pc EXCEPT ![j] = s]
          /\ UNCHANGED <<status, repo, phase, pending, event, worker, busy>>
      BY <1>8 DEF Spawn, Reap, TimesOut, LoopFree, Executing, rowVars
    <2>2. status[j] = "running"
      BY <2>1 DEF RunningRowsHaveTask
    <2> QED
      BY <2>1, <2>2 DEF QuietStep, Active, Serving, Executing
  <1>9. ASSUME NEW j \in Jobs,
               SpawnCancelRaises(j) \/ KillRaises(j) \/ CallbackRaises(j)
        PROVE  QuietStep
    <2>1. /\ pc[j] # "none"
          /\ pc' = [pc EXCEPT ![j] = "recovering"]
          /\ FailActiveRow(j)
          /\ UNCHANGED <<phase, pending, event, worker, busy>>
      BY <1>9 DEF SpawnCancelRaises, KillRaises, CallbackRaises
    <2> QED
      BY <2>1 DEF QuietStep, FailActiveRow, Active, Serving
  <1>10. CASE StopBegins \/ StopTerminated
    BY <1>10 DEF StopBegins, StopTerminated, QuietStep, Active, Serving, LoopFree,
                 rowVars
  <1>11. CASE StopGathers \/ StopJoins
    BY <1>11 DEF StopGathers, StopJoins, QuietStep, Active, Serving, LoopFree,
                 rowVars
  <1> QED
    BY <1>1, <1>2, <1>3, <1>4, <1>5, <1>6, <1>7, <1>8, <1>9, <1>10, <1>11
    DEF Next, BootStep, TaskStep, StopStep

\* What a step of the worker does to the deque: nothing, or it pops the head,
\* which is not QUEUED, or is dispatched, or goes to the back.
LEMMA WorkerMovesHead ==
  ASSUME TypeOK, ScanInRange, WorkerStep
  PROVE  /\ UNCHANGED <<status, repo, phase>>
         /\ \/ UNCHANGED <<pending, pc>>
            \/ /\ pending # << >> /\ pending' = Tail(pending) /\ UNCHANGED pc
               /\ status[Head(pending)] # "queued"
            \/ /\ pending # << >> /\ Head(pending) \in Jobs
               /\ pending' = Append(Tail(pending), Head(pending)) /\ UNCHANGED pc
            \/ /\ pending # << >> /\ Head(pending) \in Jobs
               /\ pending' = Tail(pending)
               /\ pc' = [pc EXCEPT ![Head(pending)] = "scheduled"]
  <1>1. CASE WorkerWakes \/ ScanEnds
    BY <1>1 DEF WorkerWakes, ScanEnds, rowVars
  <1>2. CASE DropHead \/ RotateHead \/ DispatchHead
    <2>1. Scanning
      BY <1>2 DEF DropHead, RotateHead, DispatchHead
    <2> QED
      BY <1>2, <2>1, ScanHasHead DEF DropHead, RotateHead, DispatchHead, rowVars
  <1> QED
    BY <1>1, <1>2 DEF WorkerStep

\* A step that makes a row QUEUED also appends its id, and an id leaves the
\* deque only with its task or when its row is no longer QUEUED.
LEMMA NoJobLostStep ==
  ASSUME TypeOK, ScanInRange, NotServing, RunningRowsHaveTask, NoJobLost,
         [Next]_vars
  PROVE  NoJobLost'
  <1> SUFFICES ASSUME Serving', NEW i \in Jobs, status'[i] = "queued"
               PROVE  InPending(i)' \/ pc'[i] = "scheduled"
    BY DEF NoJobLost
  <1> USE DEF InPending
  <1>1. CASE QuietStep
    BY <1>1 DEF QuietStep, NoJobLost
  <1>2. CASE StartWorker
    BY <1>2 DEF StartWorker, rowVars
  <1>3. CASE WorkerStep
    <2>1. Serving /\ status[i] = "queued"
      BY <1>3, WorkerMovesHead DEF Serving
    <2>2. (\E k \in 1..Len(pending) : pending[k] = i) \/ pc[i] = "scheduled"
      BY <2>1 DEF NoJobLost
    <2>3. CASE UNCHANGED <<pending, pc>>
      BY <2>2, <2>3
    <2>4. CASE /\ pending # << >> /\ pending' = Tail(pending) /\ UNCHANGED pc
               /\ status[Head(pending)] # "queued"
      <3>1. (\E k \in 1..Len(pending) : pending[k] = i)
            <=> (\E k \in 1..Len(Tail(pending)) : Tail(pending)[k] = i)
                \/ i = Head(pending)
        <4>1. pending \in Seq(Jobs) /\ pending # << >>
          BY <2>4 DEF TypeOK
        <4> QED
          BY ONLY <4>1, TailContents
      <3> QED
        BY <2>1, <2>2, <2>4, <3>1
    <2>5. CASE /\ pending # << >> /\ Head(pending) \in Jobs
               /\ pending' = Append(Tail(pending), Head(pending)) /\ UNCHANGED pc
      <3> DEFINE t == Tail(pending)
                 h == Head(pending)
      <3>1. (\E k \in 1..Len(pending) : pending[k] = i)
            <=> (\E k \in 1..Len(t) : t[k] = i) \/ i = h
        <4>1. pending \in Seq(Jobs) /\ pending # << >>
          BY <2>5 DEF TypeOK
        <4> QED
          BY ONLY <4>1, TailContents
      <3>2. t \in Seq(Jobs) /\ h \in Jobs
        BY <2>5 DEF TypeOK
      <3>3. pending' = Append(t, h) /\ pc' = pc
        BY <2>5
      <3> HIDE DEF t, h
      <3>4. (\E k \in 1..Len(Append(t, h)) : Append(t, h)[k] = i)
            <=> (\E k \in 1..Len(t) : t[k] = i) \/ i = h
        BY <3>2, AppendContents
      <3> QED
        BY <2>2, <3>1, <3>3, <3>4
    <2>6. CASE /\ pending # << >> /\ Head(pending) \in Jobs
               /\ pending' = Tail(pending)
               /\ pc' = [pc EXCEPT ![Head(pending)] = "scheduled"]
      <3>1. pc'[i] = "scheduled" \/ (i # Head(pending) /\ pc'[i] = pc[i])
        BY <2>6 DEF TypeOK
      <3>2. (\E k \in 1..Len(pending) : pending[k] = i)
            <=> (\E k \in 1..Len(Tail(pending)) : Tail(pending)[k] = i)
                \/ i = Head(pending)
        BY <2>6, TailContents DEF TypeOK
      <3> QED
        BY <2>2, <2>6, <3>1, <3>2
    <2> QED
      BY <1>3, <2>3, <2>4, <2>5, <2>6, WorkerMovesHead
  <1>4. ASSUME NEW j \in Jobs, NEW r \in Repos, Admit(j, r)
        PROVE  InPending(i)' \/ pc'[i] = "scheduled"
    <2>1. /\ Serving
          /\ pending' = Append(pending, j)
          /\ i = j \/ status[i] = "queued"
          /\ UNCHANGED pc
      BY <1>4 DEF Admit, InsertRow, LoopFree, TypeOK, RowTypeOK
    <2>2. i = j \/ (\E k \in 1..Len(pending) : pending[k] = i) \/ pc[i] = "scheduled"
      BY <2>1 DEF NoJobLost
    <2>3. (\E k \in 1..Len(Append(pending, j)) : Append(pending, j)[k] = i)
          <=> (\E k \in 1..Len(pending) : pending[k] = i) \/ i = j
      <3>1. pending \in Seq(Jobs)
        BY DEF TypeOK
      <3> QED
        BY <3>1, AppendContents
    <2> QED
      BY <2>1, <2>2, <2>3
  <1>5. ASSUME NEW j \in Jobs, ReleaseStep(j)
        PROVE  InPending(i)' \/ pc'[i] = "scheduled"
    BY <1>5 DEF ReleaseStep, Release, NoJobLost, TypeOK
  <1> QED
    BY <1>1, <1>2, <1>3, <1>4, <1>5, StepKinds

\* What the scan passes over is of a claimed repository, and nothing frees a
\* repository while the dispatcher scans.
LEMMA ScannedStep ==
  ASSUME TypeOK, ScanInRange, NotServing, ScannedAreBusy, [Next]_vars
  PROVE  ScannedAreBusy'
  <1>1. CASE UNCHANGED vars
    BY <1>1 DEF vars, rowVars, memVars, ScannedAreBusy
  <1>2. CASE worker' # "scanning"
    BY <1>2 DEF ScannedAreBusy
  <1>3. CASE WorkerWakes
    <2>1. Len(pending) \in Nat /\ scan' = Len(pending) /\ pending' = pending
      BY <1>3 DEF WorkerWakes, TypeOK
    <2> QED
      BY <2>1 DEF ScannedAreBusy
  <1>4. CASE DropHead \/ RotateHead
    <2>1. Scanning
      BY <1>4 DEF DropHead, RotateHead
    <2> DEFINE n == Len(pending)
    <2>2. /\ n \in Nat \ {0} /\ scan \in 1..n /\ Len(Tail(pending)) = n - 1
          /\ \A i \in 1..(n - 1) : Tail(pending)[i] = pending[i + 1]
          /\ Head(pending) \in Jobs /\ Tail(pending) \in Seq(Jobs)
      BY <2>1, ScanHasHead DEF Scanning, ScanInRange, TypeOK
    <2>3. ASSUME NEW i \in scan..(n - 1), status[Tail(pending)[i]] = "queued"
          PROVE  repo[Tail(pending)[i]] \in busy
      <3>1. i + 1 \in (scan + 1)..n /\ Tail(pending)[i] = pending[i + 1]
        BY <2>2
      <3> QED
        BY <2>1, <2>3, <3>1 DEF ScannedAreBusy, Scanning
    <2>4. CASE DropHead
      BY <2>2, <2>3, <2>4 DEF DropHead, ScannedAreBusy, rowVars
    <2>5. CASE RotateHead
      <3> DEFINE q == Append(Tail(pending), Head(pending))
      <3>1. /\ Len(q) = n
            /\ \A i \in 1..(n - 1) : q[i] = Tail(pending)[i]
            /\ q[n] = Head(pending)
        BY <2>2
      <3> HIDE DEF q
      <3>2. ASSUME NEW i \in scan..n, status[q[i]] = "queued"
            PROVE  repo[q[i]] \in busy
        <4>1. CASE i = n
          BY <2>5, <3>1, <4>1 DEF RotateHead
        <4>2. CASE i # n
          <5> HIDE DEF n
          <5>1. i \in scan..(n - 1) /\ i \in 1..(n - 1)
            BY <2>2, <4>2
          <5>2. q[i] = Tail(pending)[i]
            BY <3>1, <5>1
          <5>3. status[Tail(pending)[i]] = "queued"
            BY <3>2, <5>2
          <5>4. repo[Tail(pending)[i]] \in busy
            BY <2>3, <5>1, <5>3
          <5> QED
            BY <5>2, <5>4
        <4> QED
          BY <4>1, <4>2
      <3>3. pending' = q /\ scan' = scan - 1 /\ UNCHANGED <<status, repo, busy>>
        BY <2>5 DEF RotateHead, rowVars, q
      <3>4. (scan' + 1)..Len(pending') = scan..n
        BY <2>2, <3>1, <3>3
      <3> QED
        BY <3>2, <3>3, <3>4 DEF ScannedAreBusy
    <2> QED
      BY <1>4, <2>4, <2>5
  <1>5. CASE DispatchHead
    <2>1. Scanning
      BY <1>5 DEF DispatchHead
    <2>2. pending' = Tail(pending) /\ scan' = Len(Tail(pending))
      BY <1>5, <2>1, ScanHasHead DEF DispatchHead
    <2>3. Len(Tail(pending)) \in Nat
      BY <2>1, ScanHasHead
    <2> QED
      BY <2>2, <2>3 DEF ScannedAreBusy
  <1>6. CASE ScanEnds
    BY <1>6 DEF ScanEnds, ScannedAreBusy
  <1> QED
    BY <1>1, <1>2, <1>3, <1>4, <1>5, <1>6, OnlyWorkerScans DEF WorkerStep

\* A worker that goes to sleep has seen the whole deque or has no slot; what
\* changes that afterwards sets the event.
LEMMA WakeupStep ==
  ASSUME TypeOK, NotServing, RunningRowsHaveTask, NoJobLost, ScannedAreBusy,
         NoMissedWakeup, [Next]_vars
  PROVE  NoMissedWakeup'
  <1> DEFINE Saturated == Cardinality(Active) >= MaxConcurrency
             Blocked == \A j \in Jobs : status[j] = "queued" /\ pc[j] = "none" =>
                                            repo[j] \in busy
  <1>1. CASE QuietStep
    <2> SUFFICES ASSUME phase' = "up", worker' = "parked", ~event'
                 PROVE  Saturated' \/ Blocked'
      BY DEF NoMissedWakeup
    <2>1. phase = "up" /\ worker = "parked" /\ ~event
      BY <1>1 DEF QuietStep, TypeOK
    <2>2. Saturated \/ Blocked
      BY <2>1 DEF NoMissedWakeup
    <2> QED
      BY <1>1, <2>2 DEF QuietStep
  <1>2. CASE ~Serving'
    BY <1>2 DEF Serving, NoMissedWakeup
  <1>3. CASE ScanEnds
    <2> SUFFICES ASSUME phase' = "up", worker' = "parked"
                 PROVE  Saturated' \/ Blocked'
      BY DEF NoMissedWakeup
    <2>1. /\ phase = "up" /\ worker = "scanning"
          /\ scan = 0 \/ ~MayDispatch
          /\ UNCHANGED <<status, repo, pc, busy>> /\ Active' = Active
      BY <1>3 DEF ScanEnds, Active, rowVars
    <2>2. CASE ~MayDispatch
      <3>1. ~(Cardinality(Active) < MaxConcurrency)
        BY <2>1, <2>2 DEF MayDispatch, Stopping
      <3>2. Saturated
        BY <3>1, ActiveFinite, ServiceAssumption
      <3> QED
        BY <2>1, <3>2
    <2>3. CASE scan = 0
      <3>1. ASSUME NEW j \in Jobs, status[j] = "queued", pc[j] = "none"
            PROVE  repo[j] \in busy
        <4>1. PICK i \in 1..Len(pending) : pending[i] = j
          BY <2>1, <3>1 DEF NoJobLost, InPending, Serving
        <4>2. i \in (scan + 1)..Len(pending)
          BY <2>3, <4>1
        <4> QED
          BY <2>1, <3>1, <4>1, <4>2 DEF ScannedAreBusy
      <3> QED
        BY <2>1, <3>1
    <2> QED
      BY <2>1, <2>2, <2>3
  <1>4. CASE WorkerWakes \/ DropHead \/ RotateHead \/ DispatchHead
    BY <1>4 DEF WorkerWakes, DropHead, RotateHead, DispatchHead, Scanning,
                NoMissedWakeup
  <1>5. CASE StartWorker \/ \E j \in Jobs, r \in Repos : Admit(j, r)
    BY <1>5 DEF StartWorker, Admit, NoMissedWakeup
  <1>6. CASE \E j \in Jobs : ReleaseStep(j)
    BY <1>6 DEF ReleaseStep, Release, NoMissedWakeup
  <1> QED
    BY <1>1, <1>2, <1>3, <1>4, <1>5, <1>6, StepKinds DEF WorkerStep

-----------------------------------------------------------------------------
(* The theorems. *)

\* The inductive invariant holds of the cold server.
LEMMA InitIInv == Init => IInv
  <1> SUFFICES ASSUME Init PROVE IInv
    OBVIOUS
  <1>1. Active = {} /\ Running = {} /\ ~Serving /\ phase = "down" /\ worker = "none"
    BY DEF Init, RowInit, ColdMemory, Active, Running, Serving
  <1>2. SlotsBounded
    BY <1>1, FS_EmptySet, ServiceAssumption DEF SlotsBounded
  <1>3. ClaimsOfTasks
    BY <1>1 DEF Init, ColdMemory, ClaimsOfTasks
  <1> QED
    BY <1>1, <1>2, <1>3, InitTypeOK
    DEF IInv, ScanInRange, TasksHaveRows, NotServing, RunningRowsHaveTask,
        NoJobLost, ScannedAreBusy, NoMissedWakeup

\* Every step keeps the inductive invariant.
LEMMA NextIInv == IInv /\ [Next]_vars => IInv'
  BY TypeStep, ScanInRangeStep, ClaimsStep, SlotsStep, NotServingStep, RunningStep,
     NoJobLostStep, ScannedStep, WakeupStep
  DEF IInv

\* The inductive invariant holds in every behaviour of the service.
THEOREM Invariance == Spec => []IInv
  BY InitIInv, NextIInv, PTL DEF Spec

\* Every variable keeps to its domain, through crashes and restarts.
THEOREM TypeCorrect == Spec => []TypeOK
  <1>1. IInv => TypeOK
    BY DEF IInv
  <1> QED
    BY <1>1, Invariance, PTL

\* For every number of jobs and repositories and every concurrency limit, a
\* repository is worked on by at most one task and the slots are never
\* exceeded: the claim in _active_repositories is taken before the task
\* exists and given back only when it ends.
THEOREM RepositoryExclusion == Spec => []OneTaskPerRepository
  <1>1. IInv => OneTaskPerRepository
    BY DEF IInv, ClaimsOfTasks, SlotsBounded, OneTaskPerRepository
  <1> QED
    BY <1>1, Invariance, PTL

\* A RUNNING row always has the task that will end it, and the other way
\* round: no error path of _execute strands a row.
THEOREM NoStrandedRow == Spec => []RunningRowsHaveTask
  <1>1. IInv => RunningRowsHaveTask
    BY DEF IInv
  <1> QED
    BY <1>1, Invariance, PTL

\* A QUEUED row is in the deque or in the hands of a task.
THEOREM QueuedIsHeld == Spec => []NoJobLost
  <1>1. IInv => NoJobLost
    BY DEF IInv
  <1> QED
    BY <1>1, Invariance, PTL

\* The dispatcher never sleeps on work it could start.
THEOREM WakeupsSuffice == Spec => []NoMissedWakeup
  <1>1. IInv => NoMissedWakeup
    BY DEF IInv
  <1> QED
    BY <1>1, Invariance, PTL

\* A process begins to live in reach and, if its job was cancelled while it was
\* being created, signalled; no step takes it out of reach before it dies.
LEMMA ReachStep ==
  ASSUME IInv, CancelReachesProcess, [Next]_vars
  PROVE  CancelReachesProcess'
  <1> SUFFICES ASSUME NEW i \in Jobs, proc'[i] = "live"
               PROVE  /\ status'[i] = "running" /\ pc'[i] \in {"waiting", "killing"}
                      /\ i \in procs'
                      /\ i \in cancelReq' => i \in signalled'
    BY DEF CancelReachesProcess
  <1> DEFINE Reached == /\ status'[i] = "running" /\ pc'[i] \in {"waiting", "killing"}
                        /\ i \in procs'
                        /\ i \in cancelReq' => i \in signalled'
  <1> SUFFICES Reached
    OBVIOUS
  <1> USE DEF TypeOK, RowTypeOK
  <1>0. TypeOK /\ NotServing /\ RunningRowsHaveTask
    BY DEF IInv
  <1>1. proc[i] = "live" =>
          /\ status[i] = "running" /\ pc[i] \in {"waiting", "killing"}
          /\ i \in procs
          /\ i \in cancelReq => i \in signalled
          /\ Serving
    BY <1>0 DEF CancelReachesProcess, NotServing, Active
  <1>2. ASSUME NEW j \in Jobs, Spawn(j) PROVE Reached
    <2>1. CASE j = i
      <3>1. status[i] = "running"
        BY <1>0, <1>2, <2>1 DEF Spawn, LoopFree, RunningRowsHaveTask, Executing
      <3> QED
        BY <1>0, <1>2, <2>1, <3>1 DEF Spawn, rowVars
    <2>2. CASE j # i
      BY <1>0, <1>1, <1>2, <2>2 DEF Spawn, rowVars
    <2> QED
      BY <2>1, <2>2
  <1>3. CASE UNCHANGED <<status, pc, procs, proc, cancelReq, signalled>>
    BY <1>1, <1>3
  <1>4. CASE Boot
    BY <1>1, <1>4 DEF Boot, memVars, Serving
  <1>5. CASE Crash \/ StopEnds
    BY <1>5 DEF Crash, StopEnds, MemoryLost
  <1>6. ASSUME NEW j \in Jobs, NEW r \in Repos, Admit(j, r) PROVE Reached
    BY <1>0, <1>1, <1>6 DEF Admit, InsertRow
  <1>7. ASSUME NEW j \in Jobs, CancelQueued(j) \/ CancelRunning(j) PROVE Reached
    <2>1. CASE CancelQueued(j)
      BY <1>0, <1>1, <2>1 DEF CancelQueued, CancelQueuedRow, memVars
    <2>2. CASE CancelRunning(j)
      BY <1>0, <1>1, <2>2 DEF CancelRunning, Terminate, rowVars
    <2> QED
      BY <1>7, <2>1, <2>2
  <1>8. CASE DispatchHead
    <2>1. Head(pending) \in Jobs
      BY <1>0, <1>8, ScanHasHead DEF DispatchHead, Scanning, IInv
    <2>2. status[Head(pending)] # "running"
      BY <1>8 DEF DispatchHead
    <2> QED
      BY <1>0, <1>1, <1>8, <2>1, <2>2 DEF DispatchHead, rowVars
  <1>9. ASSUME NEW j \in Jobs, BeginStale(j) \/ Begin(j) \/ SpawnFails(j) PROVE Reached
    <2>1. CASE BeginStale(j)
      BY <1>0, <1>1, <2>1 DEF BeginStale, Release, rowVars
    <2>2. CASE Begin(j)
      BY <1>0, <1>1, <2>2 DEF Begin, StartRow, CancelQueuedRow, FailQueuedRow
    <2>3. CASE SpawnFails(j)
      BY <1>0, <1>1, <2>3 DEF SpawnFails, FinishRow
    <2> QED
      BY <1>9, <2>1, <2>2, <2>3
  <1>10. ASSUME NEW j \in Jobs, SpawnCancelRaises(j) \/ KillRaises(j) \/ CallbackRaises(j)
         PROVE  Reached
    <2>1. CASE SpawnCancelRaises(j)
      BY <1>0, <1>1, <2>1 DEF SpawnCancelRaises, FailActiveRow
    <2>2. CASE KillRaises(j)
      BY <1>0, <1>1, <2>2 DEF KillRaises, FailActiveRow
    <2>3. CASE CallbackRaises(j)
      BY <1>0, <1>1, <2>3 DEF CallbackRaises, FailActiveRow
    <2> QED
      BY <1>10, <2>1, <2>2, <2>3
  <1>11. ASSUME NEW j \in Jobs, Reap(j) PROVE Reached
    BY <1>0, <1>1, <1>11 DEF Reap, rowVars
  <1>12. ASSUME NEW j \in Jobs, Complete(j) PROVE Reached
    BY <1>0, <1>1, <1>12 DEF Complete, FinishRow
  <1>13. ASSUME NEW j \in Jobs, Notified(j) PROVE Reached
    BY <1>0, <1>1, <1>13 DEF Notified, Release, rowVars
  <1>14. ASSUME NEW j \in Jobs, ProcessDies(j) \/ ProcessReported(j) \/ TimesOut(j)
         PROVE  Reached
    <2>1. CASE ProcessDies(j)
      BY <1>0, <1>1, <2>1 DEF ProcessDies, rowVars
    <2>2. CASE ProcessReported(j)
      BY <1>0, <1>1, <2>2 DEF ProcessReported, rowVars
    <2>3. CASE TimesOut(j)
      BY <1>0, <1>1, <2>3 DEF TimesOut, Terminate, rowVars
    <2> QED
      BY <1>14, <2>1, <2>2, <2>3
  <1>15. ASSUME NEW j \in Jobs, StopTerminates(j) PROVE Reached
    BY <1>0, <1>1, <1>15 DEF StopTerminates, Terminate, rowVars
  <1>16. ASSUME \/ UNCHANGED vars \/ BootRaises \/ BootRestored \/ StartWorker
                \/ WorkerWakes \/ DropHead \/ RotateHead \/ ScanEnds
                \/ StopBegins \/ StopTerminated \/ StopGathers \/ StopJoins
         PROVE  UNCHANGED <<status, pc, procs, proc, cancelReq, signalled>>
    BY <1>16 DEF vars, BootRaises, BootRestored, StartWorker, WorkerWakes, DropHead,
                 RotateHead, ScanEnds, StopBegins, StopTerminated, StopGathers,
                 StopJoins, rowVars, memVars
  <1>17. ASSUME NEW j \in Jobs, LoadQueued(j)
         PROVE  UNCHANGED <<status, pc, procs, proc, cancelReq, signalled>>
    BY <1>17 DEF LoadQueued, rowVars
  <1> QED
    BY <1>2, <1>3, <1>4, <1>5, <1>6, <1>7, <1>8, <1>9, <1>10, <1>11, <1>12, <1>13,
       <1>14, <1>15, <1>16, <1>17
    DEF Next, BootStep, WorkerStep, TaskStep, StopStep

\* A process that lives can be reached, and a cancellation recorded for its job
\* has reached it: neither the request nor the process can slip past the other.
THEOREM CancelsArrive == Spec => []CancelReachesProcess
  <1>1. Init => CancelReachesProcess
    BY DEF Init, ColdMemory, CancelReachesProcess
  <1>2. IInv /\ CancelReachesProcess /\ [Next]_vars => CancelReachesProcess'
    BY ReachStep
  <1> QED
    BY <1>1, <1>2, Invariance, PTL DEF Spec

\* A step writes the rows as JobLifecycle allows, or not at all.
LEMMA RowStep ==
  ASSUME IInv, [Next]_vars
  PROVE  [RowNext]_rowVars
  <1> USE DEF rowVars
  <1>1. CASE UNCHANGED <<status, repo>>
    BY <1>1
  <1>2. CASE Boot
    BY <1>2 DEF Boot, RowNext
  <1>3. ASSUME NEW j \in Jobs, NEW r \in Repos, Admit(j, r) PROVE RowNext
    BY <1>3 DEF Admit, RowNext
  <1>4. ASSUME NEW j \in Jobs, CancelQueued(j) PROVE RowNext
    BY <1>4 DEF CancelQueued, RowNext
  <1>5. ASSUME NEW j \in Jobs, Begin(j) PROVE RowNext
    <2>1. CASE StartRow(j)
      <3>1. ASSUME NEW k \in Running, repo[k] = repo[j] PROVE FALSE
        <4>1. k \in Active /\ j \in Active
          BY <1>5, <3>1 DEF IInv, RunningRowsHaveTask, Begin, LoopFree, Running,
                            Active, Executing
        <4>2. status[k] = "running" /\ status[j] = "queued" /\ j = k
          BY <2>1, <3>1, <4>1 DEF IInv, ClaimsOfTasks, StartRow, Running
        <4> QED
          BY <4>2
      <3> QED
        BY <2>1, <3>1 DEF RowNext
    <2> QED
      BY <1>5, <2>1 DEF Begin, RowNext
  <1>6. ASSUME NEW j \in Jobs, SpawnFails(j) \/ Complete(j) PROVE RowNext
    <2>1. \E s \in Terminal : FinishRow(j, s)
      BY <1>6 DEF SpawnFails, Complete, Terminal
    <2> QED
      BY <2>1 DEF RowNext
  <1>7. ASSUME NEW j \in Jobs,
               SpawnCancelRaises(j) \/ KillRaises(j) \/ CallbackRaises(j)
        PROVE  [RowNext]_rowVars
    <2>1. FailActiveRow(j)
      BY <1>7 DEF SpawnCancelRaises, KillRaises, CallbackRaises
    <2>2. CASE status[j] = "running"
      <3>1. FinishRow(j, "failed") /\ "failed" \in Terminal
        BY <2>1, <2>2 DEF FailActiveRow, FinishRow, Terminal
      <3> QED
        BY <3>1 DEF RowNext
    <2>3. CASE status[j] = "queued"
      BY <2>1, <2>3 DEF FailActiveRow, FailQueuedRow, RowNext
    <2>4. CASE status[j] \notin {"queued", "running"}
      BY <2>1, <2>4 DEF FailActiveRow, IInv, TypeOK, RowTypeOK
    <2> QED
      BY <2>2, <2>3, <2>4
  <1> QED
    BY <1>1, <1>2, <1>3, <1>4, <1>5, <1>6, <1>7, RowsUntouched

\* The service implements JobLifecycle: each of its steps is one transition
\* of a durable row, with the repository exclusion, or leaves the rows alone.
THEOREM RefinesLifecycle == Spec => ImplementsJobLifecycle
  <1>1. Init => RowInit
    BY DEF Init
  <1> QED
    BY <1>1, RowStep, Invariance, PTL DEF Spec, ImplementsJobLifecycle, RowSpec

\* What the table said of a job stays true, over every error path, shutdown and
\* restart: a finished row keeps its status, a started one is not queued again,
\* and no row changes its repository (JobStore.finish, fail_active, initialize).
OutcomesStand ==
    [][\A j \in Jobs : /\ status[j] \in Terminal => status'[j] = status[j]
                       /\ status[j] = "running" => status'[j] \in {"running"} \cup Terminal
                       /\ status[j] # "absent" => repo'[j] = repo[j]]_rowVars

\* Readers of a job may rely on what they have read of it.
THEOREM RowsStand == Spec => OutcomesStand
  <1> DEFINE Stands(j) ==
               /\ status[j] \in Terminal => status'[j] = status[j]
               /\ status[j] = "running" => status'[j] \in {"running"} \cup Terminal
               /\ status[j] # "absent" => repo'[j] = repo[j]
  <1>1. ASSUME IInv, RowNext, NEW j \in Jobs PROVE Stands(j)
    <2> USE DEF Terminal
    <2>0. status \in [Jobs -> Statuses] /\ repo \in [Jobs -> Repos \cup {NoRepo}]
      BY <1>1 DEF IInv, TypeOK, RowTypeOK
    <2>1. CASE \E i \in Jobs, r \in Repos : InsertRow(i, r)
      BY <2>0, <2>1 DEF InsertRow
    <2>2. CASE \E i \in Jobs : StartRow(i)
      BY <2>0, <2>2 DEF StartRow
    <2>3. CASE \E i \in Jobs, s \in Terminal : FinishRow(i, s)
      BY <2>0, <2>3 DEF FinishRow
    <2>4. CASE \E i \in Jobs : CancelQueuedRow(i) \/ FailQueuedRow(i)
      BY <2>0, <2>4 DEF CancelQueuedRow, FailQueuedRow
    <2>5. CASE InterruptRows
      BY <2>0, <2>5 DEF InterruptRows
    <2> QED
      BY <1>1, <2>1, <2>2, <2>3, <2>4, <2>5 DEF RowNext
  <1>2. IInv /\ [RowNext]_rowVars => [\A j \in Jobs : Stands(j)]_rowVars
    BY <1>1
  <1>3. IInv /\ [Next]_vars => [\A j \in Jobs : Stands(j)]_rowVars
    BY <1>2, RowStep
  <1> QED
    BY <1>3, Invariance, PTL DEF Spec, OutcomesStand
=============================================================================
