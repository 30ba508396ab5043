---------------------------- MODULE JobLifecycle ----------------------------
(***************************************************************************)
(* What the durable job table promises its readers: the status of a row    *)
(* moves forward only, and at most one row of a repository is RUNNING.     *)
(* Every action is one SQL transition of app/jobs/store.py, with the       *)
(* repository exclusion that the dispatcher of app/jobs/service.py adds.   *)
(* JobService implements this specification.                               *)
(***************************************************************************)
EXTENDS Naturals

CONSTANTS NumJobs,   \* rows that a behaviour can create
          Repos,     \* registered repositories
          NoRepo     \* the repository of a row that does not exist yet

ASSUME LifecycleAssumption == NumJobs \in Nat /\ NoRepo \notin Repos

\* Rows are numbered in creation order, the order created_at gives them.
Jobs == 1..NumJobs

Terminal == {"succeeded", "failed", "cancelled"}
Statuses == {"absent", "queued", "running"} \cup Terminal

VARIABLES status,    \* job -> the status column, or "absent"
          repo       \* job -> its repository, fixed by the INSERT

rowVars == <<status, repo>>

RowTypeOK == /\ status \in [Jobs -> Statuses]
             /\ repo \in [Jobs -> Repos \cup {NoRepo}]

RowInit == /\ status = [j \in Jobs |-> "absent"]
           /\ repo = [j \in Jobs |-> NoRepo]

Running == {j \in Jobs : status[j] = "running"}

\* JobStore.create / create_execution: rows appear in order.
InsertRow(j, r) ==
    /\ status[j] = "absent"
    /\ \A i \in Jobs : i < j => status[i] # "absent"
    /\ status' = [status EXCEPT ![j] = "queued"]
    /\ repo' = [repo EXCEPT ![j] = r]

\* JobStore.start: UPDATE ... WHERE status = 'queued'.
StartRow(j) ==
    /\ status[j] = "queued"
    /\ status' = [status EXCEPT ![j] = "running"]
    /\ UNCHANGED repo

\* JobStore.finish: UPDATE ... WHERE status = 'running'.
FinishRow(j, s) ==
    /\ status[j] = "running"
    /\ status' = [status EXCEPT ![j] = s]
    /\ UNCHANGED repo

\* JobStore.cancel_queued: UPDATE ... WHERE status = 'queued'.  A row that
\* is started and finished at shutdown makes the same visible step.
CancelQueuedRow(j) ==
    /\ status[j] = "queued"
    /\ status' = [status EXCEPT ![j] = "cancelled"]
    /\ UNCHANGED repo

\* A row of a task whose profile is gone goes to failed in the step that
\* starts it.
FailQueuedRow(j) ==
    /\ status[j] = "queued"
    /\ status' = [status EXCEPT ![j] = "failed"]
    /\ UNCHANGED repo

\* Mutant of FailActiveRow: without WHERE status IN ('queued', 'running').
FailAnyRow(j) ==
    /\ status' = [status EXCEPT ![j] = "failed"]
    /\ UNCHANGED repo

\* JobStore.fail_active: a terminal row is left as it is.
FailActiveRow(j) ==
    /\ status' = [status EXCEPT ![j] =
                    IF status[j] \in {"queued", "running"} THEN "failed" ELSE @]
    /\ UNCHANGED repo

\* Mutant of InterruptRows: initialize() forgets the interrupted rows.
InterruptNothing == UNCHANGED <<status, repo>>

\* JobStore.initialize: every RUNNING row was interrupted by the restart.
InterruptRows ==
    /\ status' = [j \in Jobs |->
                    IF status[j] = "running" THEN "failed" ELSE status[j]]
    /\ UNCHANGED repo

\* What the service may do to the rows: JobStore's transitions, and no
\* start while another job of the repository runs.
RowNext ==
    \/ \E j \in Jobs, r \in Repos : InsertRow(j, r)
    \/ \E j \in Jobs : /\ \A k \in Running : repo[k] # repo[j]
                       /\ StartRow(j)
    \/ \E j \in Jobs, s \in Terminal : FinishRow(j, s)
    \/ \E j \in Jobs : CancelQueuedRow(j) \/ FailQueuedRow(j)
    \/ InterruptRows

RowSpec == RowInit /\ [][RowNext]_rowVars
=============================================================================
