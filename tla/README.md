# TLA+ verification of the Development Bridge

The Development Bridge is one asyncio process (`app/main.py`) that serves MCP
tools over HTTP: it edits and commits in registered git repositories, runs
commands and *durable jobs* in them, wakes a ChatGPT conversation when jobs end,
and relays calls to desktop machines.  Its state is a handful of Python objects,
a SQLite job store and some JSON files.  There are no threads in the parts
modelled here: every race is between coroutines, at their `await`s, and between
the process and its own restarts.

This directory holds the models of that program, the TLC runs that check them
and the TLAPS proofs about them.

| Module | Models | Checked by | Proved in |
|---|---|---|---|
| `JobLifecycle` | the abstract life cycle of durable rows, and the SQL transitions of `app/jobs/store.py` | as a property of `job_dispatch` | `JobServiceProofs` |
| `JobService` | dispatcher, tasks, processes, cancel, start, stop and crash of `app/jobs/service.py` | `job_dispatch`, `job_restart` | `JobServiceProofs` |
| `TerminalWaiters` | durable and one-shot callbacks on jobs that end | `terminal_waiters`, `stranded_waiter` | `TerminalWaitersProofs` |
| `JobAdmission` | admission locks, idle gates, idempotency keys, `run_command` and service operations | `job_admission`, `command_alone` | `JobAdmissionProofs` |
| `EventDelivery` | abstract: what happens to an event that the coordinator accepted | as a property of `coordinator_wake` | `CoordinatorWakeProofs` |
| `CoordinatorWake` | the wakes of `app/coordinator/service.py`, the widget and the delivery loop that carry them, the owner's notices | `coordinator_wake` | `CoordinatorWakeProofs` |
| `RouteRollover` | route generations: rollover, takeover, bind, unbind, with waiters and wakes | `route_rollover` | `RouteRolloverProofs` |
| `DesktopRelay` | the relay of commands to a workstation, its journal, the agent | `fusion_cad` | `FusionCadProofs` |
| `FusionCad` | CAD revisions and the staged transaction, over `DesktopRelay` | `fusion_cad` | `FusionCadProofs` |
| `HandsProvider` | edits through the rich provider: qualification, binding, commit and preview | `fusion_cad` | `FusionCadProofs` |
| `RepositoryWrites` | change plans, git writes and fast-forward under the mutation lock | `repository_writes` | `RepositoryWritesProofs` |
| `BrowserHost` | the supervisor of Chrome: its tabs, preflights, rollovers and quiet periods | `browser_host` | `CoordinatorWakeProofs` |
| `ManagedRepositories` | clones, aliases, retention, lookups and collection | `managed_repositories` | `ManagedRepositoriesProofs` |

`MC*` modules instantiate them for TLC.  Definitions with the comment "Mutant
of ..." are wrong variants of the definition they name; they belong to no
behaviour, and each shows which property notices that mistake.

## Inventory

Each component with its state, its operations, what is hard about it and what
makes it correct.

**Job service and store** (`app/jobs/service.py`, `store.py`, `models.py`).
State: the table `jobs` (QUEUED, RUNNING, SUCCEEDED, FAILED, CANCELLED) and in
memory a deque `_pending`, a wake-up event, `_active_tasks`,
`_active_repositories`, `_processes`, `_cancel_requested`.  Operations: start a
task or an execution, cancel, the dispatcher's loop, one task per job, start and
stop.  Hard: a dozen error paths out of `_execute`, `killpg` on a process that
was just reaped, cancellation at every await, `stop()` beside all of it, rows
that a crash leaves RUNNING.  Correct: one task per repository, at most
`max_concurrency`, no row without somebody to end it, no job forgotten, no lost
wake-up, a cancelled job never SUCCEEDED, statuses move forward only.

**Terminal waiters** (same file, table `job_terminal_waiters`).  State:
`_terminal_waiters`, `_firing_terminal_waiters`, the rows of the durable ones.
Operations: `wake_on_jobs`, `wake_on_jobs_durable`, collection at each end of a
job, the callback loop, `cancel_durable_waiters`, restore at start.  Hard:
callbacks are awaited outside the lock, raise, or are cancelled with the request
that runs them; registration races with the end of the job; crashes between a
callback and the deletion of its row.  Correct: no trigger missed, nothing
delivered after completion or cancellation, durable means durable.

**Admission** (`start_task`, `start_execution`, `run_when_repository_idle`,
`run_when_globally_idle`).  State: one global and one lock per repository, rows,
idempotency keys.  Hard: two locks, operations awaited under them, calls that
are cancelled, retries that meet their own job.  Correct: exclusion, one job per
key, no deadlock.

**run_command** (`app/commands/service.py`), **bridge restart**
(`app/bridge_restart/`), **collection of managed repositories**
(`app/projects/managed.py`).  Operations run under those gates.  Collection also
moves directories, writes a manifest and unregisters repositories, with its own
partial failures.

**Coordinator wake** (`app/coordinator/service.py`, `wake_delivery.py`,
`wake_transport.py`, `review_gpt_transport.py`; notices by
`app/telegram_supervisor.py`).  State: one persisted wake per channel with a
batch of events and a queue behind it, claims with leases of 20 s, attempts,
blocks, escalation marks, a listener lane.  Operations: arm, claim, finalize,
ack, model_ack, status, escalate, cancel; the delivery loop probes, claims,
delivers and finalizes; the widget of the chat claims and acks beside it.  Hard:
a lease that runs out during a delivery, a crash between delivery and finalize,
stale reads across the probe, events that arrive while a batch is out.  Correct:
one live claim, no second turn for a wake whose delivery is uncertain, no event
lost, and somebody is told when nothing moves.

**Route registry and rollover** (`app/coordinator/routes.py`,
`route_control.py`, `chatgpt_target.py`; `app/tools/coordinator.py`).  State:
routes, generations, owner grants, a rollover transaction, an `AsyncRLock` per
route.  Operations: bind, takeover, unbind, prepare, record_candidate, commit,
record_bootstrap, complete, abort.  Hard: the transaction spans tool calls, and
a durable waiter of the old generation may fire in the middle.

**Desktop nodes** (`app/desktop_nodes/service.py`, `journal.py`; the peer is
`agents/windows_fusion_agent.py`).  State: nodes, the queue and the open
commands of each, a bounded journal of operations.  Operations: register, claim,
submit, call with a timeout, submit_result, recovery.  Hard: a timeout racing a
result, a claimed command whose agent vanishes, a journal that forgets its
oldest entry, answers lost in either direction.  Correct: a command runs at most
once, and what the journal says of a mutation is true.

**Fusion CAD** (`app/fusion_cad/`).  `transactions.py` and `revisions.py` keep
begin/stage/preview/commit/abort over a revision fingerprint, in memory, while
the outcomes come back through polls; the rest validates and projects documents.
Hard: outcomes out of order and after a restart, a document that also changes
under the owner's hands.  Correct: the transaction's record is true of the
document, a commit is what was previewed.

**Rich provider** (`app/fusion_cad/shimmer.py`, `service.py`;
`ops/fusion_shimmer_overlay/addin_bridge_cad.py`).  State: a qualification and a
capability matrix per node, a guard and a session per revision, in memory; in
Fusion the document and the undo that a preview queued.  Operations: qualify,
probe, the handshake that binds a guard to a revision, commit, preview.  Hard:
the document is seen through two nodes, one of which may register anew, and the
owner works on it between any two reads; an edit may run after its caller gave
up.  Correct: an edit runs on the content its client named, and what is reported
of it is true.

**Change plans** (`app/changes/`), **git writes** (`app/git/write_service.py`),
**workspace** (`app/git/workspace_service.py`).  Files, commits or refs first,
receipt second, under one mutation lock per repository
(`app/projects/locking.py`).  Hard: a crash, a timeout or a cancellation in
between, and jobs and people who take no lock.

**Managed repositories** (`app/projects/managed.py`, `registry.py`).  State: a
manifest, records, the registry of lookups, directories.  Operations: clone (as
an alias of an equal one where there is one), set_retention, lookup with its
access time, collection.  Hard: git is awaited in the middle of everything, and
each of move, manifest and registry may be the last thing that happened.

**Browser host** (`ops/chatgpt_browser_host/browser_host.py`), a process of its
own: one loop that keeps a tab of Chrome on the chat of the requested route.
State: Chrome's tabs, what it last read of the registry, two files (the quiet
period after a rate limit, the budget of the preflight under way).  Operations:
a turn of the loop; within it a change of the route, a rollover, the preflight of
a wake, the recovery of the widget.  Hard: every step is an I/O that may fail or
time out, the loop is killed and started again by systemd at any of them, and
server, owner and ChatGPT change what it read.  Correct: few tabs, few reloads,
silence when ChatGPT asks for it, and wakes get their preflight.

**OAuth** (`app/auth/`), **capability exports** (`app/api/`): small stores with
expiry, single use and eviction.

**Read-only or I/O parts**: git queries, GitHub, knowledge, chatgpt_share, ops
dashboard, files, telegram supervisor, MCP hub: listed in
`PROJECT.json` with the reason they are left out.

Interactions.  Tools call services directly; a service awaits another one.  The
job service calls the coordinator through terminal callbacks
(`app/container.py`); the coordinator's tools register those callbacks while
they hold a route's lock; `start_execution` is the way of the executors into the
job service; `run_when_globally_idle` is the way of restart and collection past
it.  At start the job service comes up before any tool can be called
(`app/runtime.py`), at stop it goes down last.

## Plan

The order is that of the importance of the behaviour: what two actors can break
in a repository or in a conversation comes first.

1. `JobLifecycle`, `JobService`, `JobServiceProofs` - done.
2. `TerminalWaiters`, `TerminalWaitersProofs` - done.
3. `JobAdmission`, `JobAdmissionProofs` - done.
4. `CoordinatorWake`, implementing `EventDelivery` - done, `CoordinatorWakeProofs`.
5. `RouteRollover`, a route composed with its waiters and wakes - done, `RouteRolloverProofs`.
6. `DesktopRelay`, and `FusionCad` composed with it; `HandsProvider` beside
   them - done, `FusionCadProofs`.
7. `RepositoryWrites`, effect and receipt for plans, commits and pushes - done;
   `RepositoryWritesProofs`, that they hold for any requests - done.
8. `ManagedRepositories` - done, `ManagedRepositoriesProofs`.
9. `BrowserHost` - modelled, checked and proved (in `CoordinatorWakeProofs`).
10. Left: single use in `app/auth/`, grants of `app/api/`, branch operations of
   the workspace service.

## JobLifecycle and JobService

`JobLifecycle` is the abstract specification: rows appear in order of creation,
statuses move forward only, a row starts only when no other row of its repository
runs.  Its actions are the UPDATE statements of `store.py` with their WHERE
clauses as guards, and `JobService` is written with the same actions, so that
what it adds is who performs them and when.

`JobService` takes a step for what a coroutine does between two awaits.

| Code | Model |
|---|---|
| `_pending`, `_dispatch_event`, `_active_repositories`, `_cancel_requested`, keys of `_processes` | `pending`, `event`, `busy`, `cancelReq`, `procs` |
| `_active_tasks`, and where each task stands in `_execute` | `pc` (`"none"` when not in the table) |
| an OS process: running; reaped but unknown to the loop; its code known | `proc`: `"live"`, `"gone"`, `"exited"` |
| a `_terminate` under way | `doomed` |
| `_run_worker`, `_next_eligible_job` | `WorkerWakes`, `DropHead`, `RotateHead`, `DispatchHead`, `ScanEnds` |
| `_execute`, `_run_scheduled_job` | `Begin` ... `Complete`, `Notified`, `CallbackRaises`, `KillRaises` |
| `start()` | `Boot`, `BootRestored`, `BootRaises`, `LoadQueued`, `StartWorker` |
| `stop()` | `StopBegins` ... `StopEnds` |
| the process dies | `Crash`, at any moment |

The dispatcher's scan has no await in it.  It is several actions here, for
readability, and `LoopFree` keeps every other coroutine out until it ends.  The
state between "reaped" and "code known" is there because `os.killpg` raises
`ProcessLookupError` in it while `returncode` is still `None`: `cancel`, `stop`,
the timeout and the early cancellation all meet it.

Left out: contents of output, artifacts and audit records; how an executor's
result is parsed (its outcome is the choice in `Complete`); which profile a job
has.  After a crash the operating-system processes of the old server are the
deployment's concern (a service manager kills the group) and not in the model.

### Runs

- `job_dispatch`: three jobs, two repositories, two slots, one start and every
  interleaving, failures and a crash included (1.6 million states).  Two
  repositories and three jobs are what it takes for a busy repository to make a
  job rotate behind another one while the slots fill.  Shows
  `OneTaskPerRepository`, `NoMissedWakeup`, `CancelReachesProcess` and the
  refinement of `JobLifecycle`.  `CancelReachesProcess` is the meeting of `cancel`
  and `_execute`: one records the request and then looks for a process, the other
  registers the process and then looks for a request.  Whatever the order, a
  process that lives is one that `cancel` and `stop` find, and it was sent SIGTERM
  if its job was asked to end (`signalled`).  SIGTERM is all that a request which
  came early sends: a process that ignores it runs until its timeout.
- `job_restart`: two jobs over two starts, with fairness (174 thousand states).
  A second start is where rows of the first one are interrupted or loaded
  again; a third would meet no state that the second does not.  Shows
  `RunningRowsHaveTask` and `NoJobLost` over restarts, `QueuedJobEnds` and
  `StopComesToAnEnd`.

Fairness: the event loop runs what is ready (`BootStep`, `WorkerStep`,
`StopStep`, each `TaskStep`), the child watcher reports, a job's timeout is
finite (`TimesOut`), a process that was sent SIGTERM and SIGKILL dies.  Clients
and crashes are not fair.  One assumption is about the environment: `_execute`
awaits the readers of stdout and stderr without a limit after the process has
exited, so a descendant that keeps a pipe open holds the slot; the model takes
it that pipes are closed in the end.

### Proofs

`JobServiceProofs` proves for any number of jobs, repositories, slots and
restarts that `IInv` is an invariant (`Invariance`), and from it `TypeCorrect`,
`RepositoryExclusion`, `NoStrandedRow`, `QueuedIsHeld`, `WakeupsSuffice`,
`CancelsArrive` and `RefinesLifecycle`, and `RowsStand`: what a reader saw of a
row stays true (a finished one keeps its status, a started one is not queued
again), because every step is one transition of `JobLifecycle` (`RowStep`).  Assumptions: `ServiceAssumption` and
`LifecycleAssumption` only.

None of the invariants is inductive.  `OneTaskPerRepository` needs that `busy`
holds exactly the repositories of active tasks, and that a scan leaves no
more than `MaxConcurrency` tasks.  `RunningRowsHaveTask` needs that only rows
that exist have tasks, and that a server that does not serve yet has no task and,
after `initialize`, no RUNNING row.
`NoMissedWakeup` needs what a scan has already established about the part of the
deque that it has put behind it: the last `Len(pending) - scan` entries are of busy repositories.
`IInv` is the conjunction of these, with what a server that is down or still
starting does not hold.  Each part has a lemma for the actions that disturb it,
and the actions that touch only processes or the stop sequence share one lemma
(`RowsUntouched`).

## TerminalWaiters

A waiter is waiting, firing or gone; a durable one has a row as well.  A call of
`_invoke_terminal_callbacks` is named by its job (a job ends once) or `Startup`;
`todo` and `calling` are its `ready` list and the callback it awaits.
`_terminal_lock` is never held over an await, so a critical section is a step.
`mode` says who called, because that decides what an exception does: in a job's
task it leads to `_fail_active`, which collects again; there, and in `cancel()`,
it goes to the caller; in `start()` it stops the server from coming up.  The row
of a job is reduced to open, ended well, ended badly: waiters tell nothing else
apart.  The order within a `ready` list is left open.

Run `terminal_waiters`: two jobs, a durable waiter on both that wakes on the
first failure, a durable one of another group on one, and a one-shot one;
capacity two, so that the capacity is met; two starts (140 thousand states).
`DurableKept`, `NoOverdue`, `DoneStaysDone` and the liveness property
`DueIsCalled` hold; that the capacity is kept (`WaitersBounded`), that a one-shot
callback is called once (`OneShot`) and that a server comes up with everything
due settled (`BootSettlesDue`) is proved only.  A callback may be delivered more than once after a crash
(the row goes after the callback): the properties say so by speaking of a
callback that *returned*.

Run `stranded_waiter` (violated): `FiringIsInFlight`, the meaning that
`cancel_durable_waiters` gives to its table.  When the request task of
`job_cancel` is cancelled while it awaits a callback, `except Exception` does not
see the `CancelledError`: its waiters stay in `_firing_terminal_waiters`, nobody
calls them until a restart (for one-shot ones, ever), and `cancel_durable_waiters`
refuses their route from then on.

Fairness: the loop runs a call that can go on, and callbacks end.  `DueIsCalled`
excepts a server that goes down and the stranded waiters above.

### Proofs

`TerminalWaitersProofs` proves every safety property for all sets of
jobs, waiters and groups, every capacity and any number of restarts, from
`WaitersAssumption` alone.  The invariant is about custody: an idle call holds
nothing and nobody calls for an open job (`CallsOfEnded`), a waiter that was never
answered is nowhere and one whose registration awaits its callback has no row
(`Answered`), what was settled or cancelled is in no table (`GoneIsGone`), a
one-shot waiter that was called is only with its call (`CalledOnce`), and
`start()` still has each row that is due or has seen an exception
(`BootProgress`).  `DoneStaysDone` is not inductive without `GoneIsGone`, nor is
that without `InFlightIsFiring`.  The capacity has an invariant of its own over
what is in memory and the rows that a restart brings back.

## JobAdmission

A call takes its locks in the order of the code (`LockOrder`: global, then
repository, for an admission; one of them for the others).  An `asyncio.Lock` is
FIFO: the head of `queue` holds it.  What a call does after its last lock has no
await up to the operation, so gate, INSERT and release are one step.  `Begin` and
the grant of a free lock are two steps although a free lock is taken at once: the
model has a few interleavings more than the code.  `Cancel` is the cancellation
of a request task at its await.

Run `job_admission`: a submission that wants its repository idle, its retry, a
clashing specification under the same key, a task elsewhere, a command and a
service operation, in every order, each call possibly cancelled, one restart
(206 thousand states).  Holds: `CommandExclusion`, `RetriesShareOneRow`,
`EveryCallEnds`; `ServiceExclusion` (a service operation runs while no job is
active) and `RetryNotRefused` (a retry does not meet its own job at the idle
gate) are proved only.
Deadlock is not checked: when all six calls are done nothing is left to do.

Run `command_alone` (violated): `CommandExclusion` is about the call,
`CommandRunsAlone` about its process.  `_execute` kills the process on
`TimeoutError` and on nothing else, so the process of a cancelled `run_command`
runs on without its lock, without a timeout, and beside durable jobs.

Fairness is one weak fairness condition over the steps of all calls: a call is
made once and has finitely many steps, so none can starve another.

`JobAdmissionProofs` proves all of these but `EveryCallEnds` for every set of
calls, requests and repositories, from `AdmissionAssumption`.  The invariant: a
call heads the queues of the locks it counts (`HoldersHead`), and what it counts
agrees with where it stands (`Progress`).  Two calls that could hurt each other
hold one lock in common, and a queue has one head.

Two limits of the code that the model shows and no document denies: a service
operation may run beside a `run_command` (`has_active` looks at rows, commands
have none), and an admission that waits for a repository's lock holds the global
one, so a long command in one repository delays submissions in all others
(the docstring of `run_when_repository_idle` says "only against this
repository").

## CoordinatorWake

A wake per channel, persisted before the service's lock is free.  `msgs` is the
batch the model is told of, `queued` what came after it; `claim` says whose
claim it carries, `lease` whether that claim is still live.  `direct` is the
delivery loop with the wake it looked at, `widget` the X widget of each chat;
both carry a wake to the same chat.  `receipt` is the file that the external
program of the review transport commits, by which a later cycle knows that a
turn was submitted.

| Code | Model |
|---|---|
| `arm`, `arm_resilient`, `_coalesce_resilient_locked` | `Arm`, with `NewWake`, `MayMerge`, `Coalesced` |
| `claim` | `MayClaim`, `Claimed`; by the loop `DirectClaims`, by the widget `WidgetClaims` |
| `run_once` of the delivery loop | `Look`, `ProbeFails`, `ProbeNeedsOwner`, `ProbeReleases`, `DirectClaims`, `DirectSubmits`, `DirectFinalizes` |
| what `deliver` may answer | `Dispositions` |
| `ack`, a widget that is gone | `WidgetAcks`, `WidgetGone` |
| `status`, `_promote_queued_locked` | `StatusPromotes`, `Promoted` |
| `model_ack` | `ModelAcks` |
| `escalations_due`, the notices of the supervisor | `Escalate`, `NoticeSent`, `NoticeFails` |
| `cancel_pending` | `CancelPending` |
| time | `LeaseEnds`, `GrowsOld` |
| the server stops or dies | `Crash`; a program it started may still submit its turn |

Run `coordinator_wake`: two chats, two resilient events of one and a plain one
of the other, a prompt with room for one event, two attempts (588 thousand
states).  Two events are what it takes for one to queue behind a batch that is
out, and a second channel is what the global lane of `claim` is about; with two
attempts there is a first delivery, a repeated one and the end of both.  The run
has no bound on crashes, probes or notices: wakes are finite in themselves.

- `EventsKept` is the refinement: with `state` mapped to what became of each
  event, the module implements `EventDelivery`.  `EventDelivery` has one step
  that a reader would not want, from "oversized" to "vanished":
  `_promote_queued_locked` (`service.py:535-551`) makes a batch of everything
  that was queued, up to 32000 characters, the direct prompt shows 500 of them,
  and `model_ack` (`service.py:1321-1346`) deletes the wake.  Events past the cut
  are gone unseen, and only those: that is what the refinement shows.
- `ResendNeedsLapse`: a continuation is submitted twice only if a claim outlived
  its lease.  The comment at `service.py:743-746` takes it that a claimed wake is
  never submitted again; with a lease of 20 s and a direct delivery that may
  take 60 s it can be, hence the condition.
- `WakeSurfaces` (liveness): a continuation is delivered, acknowledged, told to
  the owner, or gone.  Fairness: time passes, a status poll or the delivery loop
  promotes, the escalation loop looks again, and a notice that is tried again
  and again goes through in the end (strong fairness: the sender is down at
  times).  Nothing is asked of the widget, the probe, the transport or the model.

What the model shows besides: plain wakes are a single slot that the next event
takes over; later events on a blocked wake cause no further notice; a lost answer
to `model_ack` loses the queue it carried (`service.py:1332`), which counts as
shown here because the server cannot know better.  `resolve_escalation` has no
caller.  Left out: `observe_model_turn`, deduplication by key, and the refusals
at `MAX_CHANNELS` and `MAX_BATCH_EVENTS`.

`MaxConts` bounds only which continuations `WakeSurfaces` watches: a plain event
that comes while a resilient wake is out queues behind it and gets a continuation
when it is promoted, so there may be as many as events.

`CoordinatorWakeProofs` (which holds the proofs about `BrowserHost` too) proves
`ResendNeedsLapse` and the refinement `EventsKept` for any chats, events, prompt sizes and numbers of attempts, from
`WakeAssumption` (what the constants are) and `NoWakeAssumption` (the absence of
a wake is no wake).  Neither is inductive.  `IInv` adds, per chat, what ties a
wake to what carries it: the widget and the loop read the wake, let go of the
lock, and act later on what they read.  `ClaimsFit`: a claim that is not orphaned
has its flight, and a flight under the wake's name carries the wake's batch.
`TurnsPaid`: each turn made, and each that a flight may still make, has used an
attempt up.  `OneTurn`: while no claim has lapsed, the one claim there was
accounts for the one turn, so another cannot be taken; a lapse is what makes both
flights possible.  `HeldOnce`: an event is in one place of one wake.
`TurnsSeen`: what was put into the chat was shown, but for the tail that the
prompt cuts off - which is where "oversized" comes from in the refinement.  The
proof goes action by action; chats that an action leaves alone are one lemma, and
what an operation makes of a wake is one lemma each.

## RouteRollover

One route.  `route` is its entry in `routes.json` with the generation; `roll` a
prepared rollover, `last` the last one, `bind` a current bind in progress.  The
file is written whole by calls that never await, so each call is a step.  What
awaits does so under the route's lock: `op` is the operation that holds it.
`takeover` and the binds do not take that lock, which is what makes this module
worth its run.  `wakes` and `waiter` are the generation's wake and the durable
waiters, in the states that a change of generation tells apart; the details are
those of `CoordinatorWake` and `TerminalWaiters`.

Run `route_rollover`: a waiter, two chats, three generations, two prepared
rollovers and a crash (3.3 million states up to a renaming of the chats, which no
property names).  Three generations let a rollover, an unbinding and a rebind
follow each other in every order, and a second rollover shows that an answer for
the first is not taken for one to the second.

- `LeftQuiet`: a generation that a rollover froze or left, or an unbinding left,
  has no open wake and no waiter that will arm one, although the check for it
  and the change of generation are apart by awaits.
- `DroppedByHand` (proved, without a run): a durable waiter is dropped without a wake only after a
  takeover or a rebind, which look at no waiter.
- `BootstrapOnce`: the successor is sent its first turn once, whatever the
  transport answers and wherever the server is restarted.  The price is in the
  code: a bootstrap left "sending" is never completed automatically.
- `OneChatPerGeneration`.

Known, without a run of its own: `complete_current_bind` does not look for a
pending rollover, though
`docs/superpowers/specs/2026-09-04-chatgpt-out-of-band-route-control-v1-design.md`
(5.4) wants it to; `refresh_route_target` rewrites `routes.json` from another
process without a lock; `BROWSER_HOST_ROLLOVER_BRANCH_ENABLED` is off by default,
so that a prepared rollover stays "safety_locked" until it is aborted; the
branch of `resume_coordinator_waiter` for a pending rollover cannot be reached,
because preparing demands a quiet generation (with `LeftQuiet`: while it is
frozen no waiter of it fires); and `exec_and_wake` cancels a job while it holds a
route's lock, whose callbacks may want the lock of another route that does the
same (`app/tools/coordinator.py:537`): one route is in the model, so that
deadlock is not.

### Proofs

`RouteRolloverProofs` proves every safety property for all sets of
chats and waiters and all bounds, from `RouteAssumption` and `NoneAssumption`.
None of them is inductive.  The argument: whoever could wake a generation that is
being frozen needs the route's lock, which the rollover holds (`Registers`,
`Prepares`, `Unsent`), or was moved past it by hand (`OvertakenByHand`); an
operation that waits while the owner moves the route is left behind by exactly
one generation or more (`Ahead`, `Past`); a frozen generation stays quiet until it
is thawed (`AsleepIsQuiet`), and a rollover's record agrees with the route it was
prepared for (`RollFits`), which is what keeps a bootstrap from being sent again
and a generation from two chats.

## BrowserHost

`pc` is the place in `run()`; a step is what the loop does between two looks at
what others may change.  A wait for a page, a widget or a poll ends well or runs
out, by choice.

| Code | Model |
|---|---|
| Chrome's targets | `tabs`: a chat by route and generation, another page of ChatGPT (`HomePage`), of another site (`Away`), blank, shut |
| `route_id`, `target_url`, `channel_id`, `route_generation` | `aim` |
| `web_backoff_file` | `quiet`: its period is not over |
| `preflight_budget_file` | `budget` |
| `target_recovery_page_id`, `target_recovery_retry_at` | `recovering`, `throttled` |
| head of the loop, `refresh_route_target` | `Top` |
| `process_pending_rollover` | `Rolling`: `NoRollover` ... `RollAborts` |
| `enforce_target` | `SeekFinds`, `SeekLoads` |
| `guard_live_web_work` | `LimitDetected`, `GateOpens` |
| `prepare_browser_preflight` | `PreflightBegins`, `FreshOpens`, `CheckPasses`, `CheckFails`, `PollPasses`, `PollFails` |
| `recover_listener`, `reload_route_target` | `ListenFails`, `ListenPasses`, `Finishes` |
| exceptions, signals, Chrome gone; systemd | `HostCrash`, `Parks`, `Boot` |

The wakes and the registry are those of `CoordinatorWake` and `RouteRollover` as
far as the host can see them.  Each load in `Loads` bounds what the environment
may do (`used` counts it): preflights of two wakes with a crash and two switches
of the route; limits of the account with a crash and a page astray; two rollovers
with a lost answer and a rebind; a route that is unbound, under a rollover or
not, and bound again, with a switch and a wake.  Two routes, four tabs (three
would be enough without a mishap), three generations, two continuations, two
attempts of the three the code allows (683 thousand states).

Of the registry the host sees this much.  One rollover is pending at a time, of
whatever route.  A takeover or a completed bind (`Rebinds`) moves the route on,
requests it, and does not mind a pending rollover, which is then of a generation
that is gone: it is not `Current`, and wakes are armed under it.  An unbinding
(`Unbinds`) aborts the rollover and skips the generation it had reserved.  A
commit (`Commits`) requests the route it commits.

- `TabsBounded`: while the loop works on the target, no more tabs than its page,
  the fresh one of a preflight while that is examined, and one for each mishap: a
  page that a login took, an answer that was lost, a close that failed unseen
  (`close_page` swallows it).  Between the turns of the loop there may
  also be one for each rollover that followed another before `enforce_target`
  closed the other pages: each `RollCreates` opens a tab and a commit keeps it.
- `PreflightBudget`: reloads for one continuation stay within the budget, over
  crashes.  The file holds one continuation, so each two changes of the route
  (there and back, by a switch, a takeover or a bind) grant the budget anew.
- `BackoffHolds`: in a quiet period nothing is loaded, a restart included.
- `WakePrepared` (liveness): a wake of the requested route that waits for its
  preflight gets it, or uses its budget up, or the host waits for a login.

Fairness: the loop goes on and systemd starts it again after a failure
(`Restart=on-failure` in `chatgpt-browser-host.service`; after a login page was
met it ends with success and is not started again: "parked"); periods pass, a
rollover grows old, a turn of the model ends, a rate limit is lifted.  Nothing is
asked of the server or of the owner.

Known, and in the model: `browser_pages` counts pages of chatgpt.com only, so a
tab that a login took to another site stays open beside its successor; a crash
or a lost answer between creating a successor chat and recording it leaves that
chat and creates another, and a candidate that the registry refuses for another
generation leaves its tab to the next `enforce_target` (`Records`); an authorization clears the budget, so a
wake whose authorization lapses (`Lapses`) may cost another full budget.  Left
out: the streak that lengthens quiet periods, `sync_model_turn_observation`
(its only effect is a cooldown), discovery, the health check, and the branch
hand-off (`materialize_branch_popup`, `branch_in_new_chat`), which nothing calls.
Creation of successors is switched on in the model.

### Proofs

`CoordinatorWakeProofs` proves `TabsBounded`, `PreflightBudget` and
`BackoffHolds` for any routes, tabs, generations, attempts and loads, from
`HostAssumption` (what the constants are; that a load arms no more wakes than
there are names for; that the marks of tabs without a chat are no routes).
For `BackoffHolds` it is enough that in a quiet period the loop is at its
head; the other two are far from inductive.  `HostInv` is the strengthening:

- `HostBase`: in a quiet period the loop is at its head, behind it it works on a
  chat (`LoopFits`); a rollover's token is one that was given, and the rollover
  the loop holds is of its own route (`RollFits`); a continuation is of one route,
  which is bound, and one still to come has cost nothing (`HostWakesFit`).
- `CostsFit` is the account of `PreflightBudget`.  The bound counts changes of
  the route, the code counts attempts in a file about one continuation, and the
  loop may still aim at the route before the change (`Follows`).  So for each
  continuation that is pending, `Cost` says how many budgets were `Granted` and
  that two changes paid for each beyond the first, with those that the file, the
  requested route and the loop's aim show to have been made since.
- `DeadFit`: a continuation that no route has any more costs no more than it did;
  only a pending one is tried.
- `TabsFit` counts the tabs.  `StrangeFit`: tabs that are not pages of ChatGPT,
  which no one closes, are paid for by mishaps, but for a blank one when there is
  no page; `WorkFit` and `RoundFit` are the two halves of `TabsBounded`, the first with
  the `Leftover` tabs beside those the loop works with, the second with `Created`,
  the rollovers that have opened their tab, in the place of all rollovers: one
  that was prepared must be able to open its tab yet (`TabToCome`).

Looking for `TabsFit` showed that two prepared rollovers can follow each other
within two turns of the loop, so that two tabs are beside the page with nothing
gone wrong; an instance with three generations is what shows it.  `WakePrepared`
stays with TLC.

## DesktopRelay and FusionCad

`DesktopRelay` is the relay between the Bridge and a workstation.  An operation
has a row in the journal (`row`, `order`: the journal forgets its oldest), and
while it is open a place in `queue` and `pending`.  The agent has Fusion run one
command at a time and keeps its result on disk (`outbox`) until it is taken.
Every critical section of the relay is free of awaits, so each is a step; claims
and results may lose their answers (`lost`), the agent may crash, a tool call may
raise while Fusion goes on (`GivesUp`, `ExecutesLate`), the Bridge restarts.

`FusionCad` composes it with the CAD service: `Send` is the relay's `Submit` with
the guards of `execute`, `Run` the relay's `Executes` with what the scripts do to
the document, `Poll` the tool `operation_result` that hands an outcome to the
service once.  A document is a stack of contents, so that an undo brings an
earlier fingerprint back.

| Code | Model |
|---|---|
| `submit`, `call` | `Submit`; `call` waits: `Expires`, `Abandons`, `Returns` |
| `claim`, `submit_result` | `Claim`, `Post` with `Record` |
| `_recover_incomplete_operations` | `Recovered` in `Restart` |
| `OperationJournal` | `Write`, `Update`, `Evicted` |
| `execute` | `AskPlain`, `AskStage`, `AskPreview`, `AskCommit`, `AskAbort`, `AskSet`, `StrandCommit` |
| the scripts | `Looks`, `Changes` in `Run` and `RunLate` |
| `finalize_terminal_operation` | `FinishBegin` ... `FinishSet` |
| `RevisionTracker`, `TransactionStore` | `hist`, `tx` |

Run `fusion_cad` (629 thousand states, those of `HandsProvider` included) takes
for scripts a workload of eight: bags of up to
six operations with their faults, starts, edits and a journal limit.  Together
they have a transaction with a second preview, a second stage and an abort in any
order; one beside a raw call, a read and a change; one over a restart and a
fault; and calls that are abandoned, lost and restarted, with a journal too short
for them.  No operation of a workload is new after six, and the counters of a
workload are what bounds the run.

- `RunsAtMostOnce`, `NeverRanWhenToldSo`: what the relay promises of a mutation,
  so that a client may send again what is reported as never claimed.
- `ResultsAreKept`: a result that the agent let go of is in the journal, after a
  timeout or a restart too, unless its entry was pushed out.
- `CommitTruth`: the record of a transaction is true of the document.
- `CommitIsPreviewed`: a commit replays the plan of a preview on the content it
  was previewed on, whatever the owner did meanwhile.

Abstractions: one document, one transaction, `begin` without an expected
revision; a replay signature is the plan; scripts are atomic; a submission
refused because the node is offline is in `StrandCommit`, where it matters; the
journal's file keeps what its memory kept; uploads, exports and external results
are left out.  `OneBegin`: there is one `begin`, whose id `_execute_begin` draws
(`uuid4`) or takes from the client.  A client that names the same id again after a
restart, when the store has forgotten it, is outside the model.

Known, without a run of its own.  Revisions are named `rev_<n>` and start from
`rev_1` in every process (`revisions.py:425-431`), so a client that kept a name
over a restart may find it current for another content:
`docs/superpowers/specs/2026-09-04-fusion-cad-agent-api-v1-design.md:1095` says a
revision "may never provide false safety".  `AskSet` has that behaviour.  A commit
that is refused as stale comes back through a poll, which never calls
`_release_commit_reservation_if_proven_not_applied`, so the transaction stays
COMMITTING (`FinishCommit` is the only way on), as it does when the relay refuses
the submission (`StrandCommit`); a transaction whose document has moved on cannot
be aborted (`FinishAbort`); a commit polled after a restart has no baseline.  In
the relay, an exception of the agent's transport is reported "failed" for a
mutation that may still run, a terminal status may be overwritten by "uncertain"
or "timed_out" (`Abandons` after `Record`), and a submitted command whose agent
vanished keeps its place in `pending` for ever.

### Proofs

`FusionCadProofs` proves, for any kinds of workload, numbers of operations and
edits, that every step of `FusionCad` is a step of the relay or none
(`ObeysTheRelay`), and the five properties; from `RelayAssumption`,
`CadAssumption` and `OneBegin`.  Two inductive invariants:

- `RelayInv`, of the relay alone.  A command is in one place: `queue` holds what is
  `pending` and not claimed, each once (`QueueFits`), and whoever holds it - queue,
  agent, or Fusion after its caller gave up - holds its only run (`OneRun`).  What
  a caller was told agrees with that run (`AnswerFits`), and so does the journal's
  entry as long as it is there (`EntryFits`); which entries the journal pushes out
  does not matter to the proof.
  With `OpenIsUnsettled` (a command that is still in `pending` has no settled
  entry) it gives `SettledEntriesStand`, which is proved only: a settled entry is
  never written over, at most forgotten.  The exception it names is real: a call
  that is cancelled after its answer came in, and before its task has resumed,
  overwrites the answer's entry with "timed_out", "cancelled" or "uncertain"
  (the handlers of `call`); without the exception TLC refutes the statement.
- `CadInv`, of the transaction, on top of it.  Of all commits that were sent, one
  at most took effect or can still do so (`OneCommit`): begin_commit lets no second
  one out before the first is proven not applied, and the relay runs it once.
  While the record says "new", "staged" or "aborted" there is none, and once it
  says "committed" nothing flies any more (`RecordFits`).  A commit took effect only
  where its fingerprint was the document's, and that pair was previewed (`CadFits`,
  `PreviewFits`).

## HandsProvider

Sketches and features are edited by an add-in on a second node, while the
revisions of the document are read through the first.  A request is where it
stands (`call[r].at`); a step ends at an await of `_execute_public_hands`,
`bind_hands_provider`, `apply_hands_provider` or `ShimmerHandsAdapter.apply`.
The document is again a stack of contents, each with the guard the add-in
computes of it; `undoer` is the request whose preview is still in the document.

| Code | Model |
|---|---|
| `_hands_provider_guards`, `_hands_provider_guard_sessions` | `guards` |
| `_hands_runtime_qualifications`, `_node_capabilities` | `qualified`, `hands` |
| `session_generation` | `session`; `NewSession` |
| `execute`, `_execute_public_hands` | `AsksHands` |
| `bind_hands_provider` | `ReadsGuardA` ... `ReadsGuardB`, `Coherent` |
| `DesktopNodeService.call` of an edit | `Refused`, `Claims`, `GivesUpOn` |
| `execute_guarded` | `Runs`: `RefusesGuard`, `RefusesPlan`, `Aborts`, `Applies` |
| `_schedule_preview_undo` | `PreviewUndone` |
| after a preview | `PreviewAnswered` ... `PreviewEnds` |
| after a commit | `CommitAnswered` ... `CommitEnds` |

In run `fusion_cad` a behaviour takes either the scripts or this module
(`MCFusionCad`): they meet in the tracker's revision only, where each is to the
other a change by the owner.  Four workloads: a commit beside a preview and a
change by the owner, two commits, two previews, and one request over two sessions
of the node with two changes by the owner.  Two requests are what it takes for the
observation of one to fall into the handshake of the other.

- `EditsWhatWasNamed`: an edit runs on the content of the revision its client
  named, whatever happened during the handshake.
- `CommitAsReported`: a commit that is reported as such has run in a session that
  the operator qualified, and the revision of the report is what it left.
- `RefusedIsUnrun`: a commit that ended with a code that excludes its execution
  has not run and will not.
- `PreviewLeavesNothing`: a preview reported as done is out of the document.

Two assumptions.  A guard does not come back: when the document changes and is
changed back around the observation, the second guard of the handshake differs
from the first, because the revision ids it hashes advance across an undo, as
`shimmer.py:242-245` says they may.  Where they do not, the handshake binds a guard
to a content in between, and TLC finds `EditsWhatWasNamed` violated, against the
comment at `service.py:569-571`.  And the undo that a preview queued settles before
the next edit, though not before the next read.

Known, and in the model: a preview has run when its guard is read again, and a
failure of that read (the node offline, its queue full, a timeout) is told to the
client as a failure of the preview (`UndoGuardFails`), with a code that
`shimmer.py:262-265` keeps for what "the transport itself proved happened before
provider execution".  The document is as it was then, but for an undo that has
not settled, so `RefusedIsUnrun` speaks of commits.

Left out: which operations a plan has (one that does not compile or resolve is
refused), the refs that a commit reports beyond their attestation.

### Proofs

The second half of `FusionCadProofs` proves the four properties for any number of
requests, owner's changes, sessions and contents, from `HandsAssumption` and
`NothingAssumption` (`Nothing` is neither a request nor a content).  The inductive
invariant `HandsInv` turns on one fact, `Sure(g, c)`: what was read under the guard
`g` was `c`, and `g` is not given out again, so whenever the document has that guard
it has that content.  It holds of every binding (`BindingsFit`), of what a
handshake has read between its two guards (`ReadsFit`), and of an edit that is
queued, claimed, or running after its caller gave up (`EditFits`); an edit that
passes the guard thus finds the content that was named.  It survives the steps of
others because the document only goes on to guards never given out and the
tracker only appends (`World`).  For the reports: an answer says whether the edit
ran (`ReadsFit`), a request goes on only in the session it was bound in
(`SessionFits`), and while a preview is in the document the content is the one it
made, which is not that of the revision it started from (`DesignFits`), so an
observation back at that revision proves the undo.

## RepositoryWrites

The mutation lock with the requests that take it.  `tree`, `index`, `commits`,
`head`, `remote`, `upstream` are git as far as these requests tell it apart;
`seen[r]` is what the client of a request saw when it made its plan; `receipt`
names the head a receipt names.  A request goes from "checking" over "acting" to
"sealing", with awaits of git between; it may be refused, fail, be killed or be
cancelled at each (`Ends`), break in the middle of a plan (`Breaks`), or leave
its git process running (`Abandons`: `GitRunner.run` kills on a timeout and on
nothing else).  Jobs, the owner and the team act at any moment.

Run `repository_writes` (2.5 million states): workloads of up to four requests
and three acts of others, two files, four commits.  Two files are what a plan
applied in part needs, four commits are one to start with and three to be made.

- `CommitsOnce`: a guarded commit is made once, however its requests end, and no
  commit is made again after its receipt.
- `NoLostEdit`: a plan never replaces a content its author has not seen.
- `ReceiptTruth`: a receipt names what was done.

The exceptions are part of the statements: a process left running (`abandoned`)
and a head moved while a receipt was written (`misnamed`).  Without them the
sentences "plans are idempotent across retries" (`README.md:175`), "commit and
push writes are idempotent across retries" (`README.md:191`, `ARCHITECTURE.md:70-71`) are too
strong: when the receipt is missing, a plan's retry meets a revision conflict, a
guarded commit's a conflict, a push's an invalid plan, and an unguarded commit
may be made twice if something was staged in between.  Likewise "filesystem
plans cannot race index or ref mutations" (`ARCHITECTURE.md:68-70`) does not hold of a git
process left behind by a cancelled request.  Push compares the remote head by
`ls-remote` and pushes without a lease, so a push of others in between is met by
git's own fast-forward rule (`GitPush`).

`branch_create` and `branch_switch` are left out, and so is the normalization of
a plan's operations.  The optional `base_revision` of a staging and
`expected_head` of a fast-forward, which only refuse more, are not in the model:
what it allows without them, a request that names neither may do.

### Proofs

`RepositoryWritesProofs` proves the three properties for any requests, workloads,
files, jobs and numbers of commits, from `WritesAssumption` and `OneKind` (a request
goes to one tool).  The inductive invariant `IInv` and why it is needed:

- `LockFits`: whoever is under way holds the lock, so two requests never act at
  once; only processes left running act beside it.
- `History`: a commit's parent is older than it.  Hence a descendant of the head is
  a later commit (`AncestorsAreOlder`), and whatever moves the head - a commit, a
  fast-forward, the owner - moves it on, and never back.
- `CommitFits`: a commit that was made is not newer than the head.  A guarded commit
  is made only while the head is the one its client saw, and becomes the head, so
  from then on its guard is false for ever: that is why a lost receipt cannot lead
  to a second one.
- `PlanFits`: what a plan replaced is what its author saw, because the comparison of
  revisions and the replacement are one step without an await; in phase "sealing",
  where its receipt is written, all files were replaced.

`Ancestors` is stated as the least set that holds the commit and is closed under
parents, which needs no induction over the history to reason about.

## ManagedRepositories

`records` and `manifest` are the service's memory and its file, `registry` what a
lookup finds, `dirs` the storage on the disk.  `clone` and `stage` are the two
operations that await git under the service's lock; lookups take no lock and are
kept out by the flag `maintenance`.  `old` says that a record's last access is
past the threshold of its retention.

Run `managed_repositories`: three ids, two users and two collectors (181 thousand
states up to a renaming).  Three ids are an owner of storage, an alias of it and
a fork; a second collector shows that the flag, which is not a counter, is safe
only because `run_when_globally_idle` lets one collection run at a time.

- `InUseSurvives`: storage that a tool works in is not collected under its hands.
- `KeptAsAsked`: what is pinned, writable or used since is never collected.
- `RecordsStand`: the Bridge starts on what is on the disk, and what it keeps in
  memory is what the manifest says, unless a collection was cut between its moves
  and its manifest (`torn`).

Known, and in the model: a crash between move and manifest of a collection keeps
the Bridge from starting (`GcTears`, `CrashInGc`: `Loads` refuses); a crash
between move and manifest of a clone leaves a directory that blocks its id
(`CrashInClone`), and so does a manifest that cannot be written when the removal
of the directory fails as well (`CloneFails`); a lookup in the first minute of the host is not noted, because
`_touch_access` compares the monotonic clock with 0.0, against
`ops/managed_repository_gc/README.md` ("every normal managed-repository lookup
refreshes `last_used_at`").  Not in the model: trash left by a crash is never
cleaned; a clone answered "already_present" notes no access; the flag is set
while a collection still waits for a clone, so lookups are refused for as long
as that takes, where the README has a "short apply phase".

Abstractions: one project, one origin, ephemeral retention folded into cache;
whether git finds a clone equal or clean is left open; days pass only while no
operation works in a repository (the shortest threshold is a day).

### Proofs

`ManagedRepositoriesProofs` proves the three properties for all sets of ids, tools
and collectors, from `ManagedAssumption` and `NoneAssumption`.  The argument: the
plan of a collection stays true while git is awaited because whoever could make
it false needs the lock or is turned away by the flag (`LockHeld`, `PlanHolds`); a
clone under way owns its id (`CloneFits`); a lookup that was noted makes its
record young, and a plan takes only old ones (`NotedIsFresh`); and an alias and
the owner of its storage go together (`Grouped`).

## Documents that disagree with the code

Besides the two violated runs and the divergences named with their modules, met
while reading and not worth a run:

- `README.md:42-43` says waiter registrations do not survive a restart; durable
  ones do (`_restore_durable_terminal_waiters`).
- `README.md:62-66` says `run_command` needs the global durable store idle; the
  code asks for the repository only.
- `docs/superpowers/plans/2026-09-06-openrouter-executor-v1.md:19` speaks of a
  "durable FIFO"; `_next_eligible_job` keeps no order within a repository: while
  job 1 of A runs, a scan of 2 (A), 3 (B), 4 (A) moves 2 to the back, gives the
  last slot to 3 and stops, and 4 is before 2 from then on.
- `README.md:181` gives a concurrency of one; `max_concurrency` is configurable.
- `docs/operations/fusion-cad-executor-guide.md:308` says that events "must not be
  dropped or silently truncated"; see `CoordinatorWake`.

## What rests on what

- Proved for all constants: every safety property that a run of the jobs, of
  `CoordinatorWake`, `RouteRollover`, `DesktopRelay`, `FusionCad`, `HandsProvider`,
  `RepositoryWrites`, `BrowserHost` and `ManagedRepositories` checks, that
  `JobService` implements `JobLifecycle` and `CoordinatorWake` `EventDelivery`, and
  that `FusionCad` obeys `DesktopRelay`.
- Model-checked only: all liveness, which is out of the prover's reach, as is
  `ENABLED` (`QueuedJobEnds`, `StopComesToAnEnd`, `DueIsCalled`, `EveryCallEnds`,
  `WakeSurfaces`, `WakePrepared`).
- The modules of the jobs share the rows but are not composed.  `JobService` takes
  admission as one step and callbacks as an await that may raise;
  `TerminalWaiters` takes the end of a job as one step; `JobAdmission` takes the
  life of a job as active and then ended.  Each is a superset of what the others
  can do to it.  `RouteRollover` takes waiters and wakes the same way, and
  `ManagedRepositories` the gate of `run_when_globally_idle`.  `FusionCad` is
  composed with `DesktopRelay` step by step; `HandsProvider` takes the relay as a
  call that is queued, claimed, run and answered, or not.
- No run replaces a definition of a module, and the bounds are constants:
  `NumJobs`, `MaxBoots`, `MaxRestarts`, `MaxWaiters`, `MaxAttempts`, `MaxLiveAttempts`, `MaxGen`,
  `MaxRolls`, `MaxCrashes`, `MaxOps`, `MaxPending`, `MaxEdits`, `NFiles`,
  `MaxCommits`, `MaxWakes`, the workloads `Loads` and `HandsLoads`, and the finite sets of calls, waiters,
  events, chats, ids and users.
- Deadlock is checked in no run: a system whose clients have asked for all they
  may and whose bounds are met has nothing left to do.

## Not modelled

Everything under `components` in `PROJECT.json` with the status `not_modelled`:
parts that are planned (above), parts that are queries or I/O without state of
their own, and data transformations over large documents (CAD validation, views,
snapshots, knowledge search, workers of the executors), which are most of the
lines of the repository and where the interesting errors are in the data and not
in the order of events.
