--------------------------- MODULE TerminalWaiters ---------------------------
(***************************************************************************)
(* The terminal waiters of app/jobs/service.py: callbacks that fire when   *)
(* jobs reach a terminal status.  A waiter is held in _terminal_waiters    *)
(* ("waiting"), then in _firing_terminal_waiters ("firing") while a call   *)
(* of _invoke_terminal_callbacks has it; a durable one also has a row that *)
(* outlives the process.  Callbacks of one call run one after another and  *)
(* may return or raise; several calls run at once.  _terminal_lock is      *)
(* never held over an await, so each critical section is one step.         *)
(***************************************************************************)
EXTENDS Naturals, FiniteSets

CONSTANTS
    Jobs,
    Waiters,        \* waiter ids that a behaviour may hand out
    Durable,        \* those of wake_on_jobs_durable
    JobsOf,         \* waiter -> its job_ids
    FailureWakes,   \* those with policy "failure_or_all_terminal"
    Groups,         \* what a payload_match of cancel_durable_waiters selects
    GroupOf,        \* durable waiter -> its group
    MaxWaiters,     \* MAX_TERMINAL_WAITERS
    Startup,        \* the call of start(); the others are named by their job
    None,
    MaxBoots        \* bound on the number of starts

ASSUME WaitersAssumption ==
    /\ Durable \subseteq Waiters /\ FailureWakes \subseteq Waiters
    /\ JobsOf \in [Waiters -> SUBSET Jobs] /\ GroupOf \in [Durable -> Groups]
    /\ Startup \notin Jobs /\ None \notin Waiters
    /\ IsFiniteSet(Waiters) /\ MaxWaiters \in Nat /\ MaxBoots \in Nat

VARIABLES
    status,     \* job -> "open" (QUEUED or RUNNING), "ok", "bad" (the others)
    rows,       \* job_terminal_waiters: these two are durable
    phase,      \* "down", "starting", "up"
    boots,
    answer,     \* waiter -> the state its registration was answered with
    waiting,    \* self._terminal_waiters
    firing,     \* self._firing_terminal_waiters
    immediate,  \* waiters whose registration awaits their callback
    todo,       \* call -> what is left of its `ready` list
    calling,    \* call -> the waiter whose callback it awaits
    raised,     \* call -> first_exc is set
    mode,       \* call -> who made it
    called,     \* history: the callback has been called
    settled,    \* history: the callback has returned
    cancelled,  \* history: removed by cancel_durable_waiters
    refused     \* history: the callback has raised

memory == <<waiting, firing, immediate, todo, calling, raised, mode>>
history == <<called, settled, cancelled, refused>>
vars == <<status, rows, phase, boots, answer, memory, history>>

Calls == Jobs \cup {Startup}

\* "task"  _finish_job in the job's task: an exception leads to _fail_active
\* "last"  _fail_active there: an exception ends the task
\* "call"  cancel() of a client, for a QUEUED job
\* "boot"  start()
Modes == {"idle", "task", "last", "call", "boot"}

TypeOK ==
    /\ status \in [Jobs -> {"open", "ok", "bad"}]
    /\ rows \in SUBSET Durable
    /\ phase \in {"down", "starting", "up"}
    /\ boots \in Nat
    /\ answer \in [Waiters -> {"none", "waiting", "fired"}]
    /\ waiting \in SUBSET Waiters /\ firing \in SUBSET Waiters
    /\ immediate \in SUBSET Waiters
    /\ todo \in [Calls -> SUBSET Waiters]
    /\ calling \in [Calls -> Waiters \cup {None}]
    /\ raised \in [Calls -> BOOLEAN]
    /\ mode \in [Calls -> Modes]
    /\ called \in SUBSET Waiters /\ settled \in SUBSET Waiters
    /\ cancelled \in SUBSET Waiters /\ refused \in SUBSET Waiters

Init ==
    /\ status = [j \in Jobs |-> "open"]
    /\ rows = {} /\ phase = "down" /\ boots = 0
    /\ answer = [w \in Waiters |-> "none"]
    /\ waiting = {} /\ firing = {} /\ immediate = {}
    /\ todo = [c \in Calls |-> {}]
    /\ calling = [c \in Calls |-> None]
    /\ raised = [c \in Calls |-> FALSE]
    /\ mode = [c \in Calls |-> "idle"]
    /\ called = {} /\ settled = {} /\ cancelled = {} /\ refused = {}

\* _waiter_reason is not None, for the job statuses st.
Due(w, st) ==
    \/ w \in FailureWakes /\ \E j \in JobsOf[w] : st[j] = "bad"
    \/ \A j \in JobsOf[w] : st[j] # "open"

-----------------------------------------------------------------------------
(* Registration. *)

\* Mutant of Register: the reason is not evaluated under the lock.
RegisterBlind(w) ==
    /\ phase = "up" /\ answer[w] = "none"
    /\ Cardinality(waiting) + Cardinality(firing) < MaxWaiters
    /\ answer' = [answer EXCEPT ![w] = "waiting"]
    /\ waiting' = waiting \cup {w}
    /\ rows' = IF w \in Durable THEN rows \cup {w} ELSE rows
    /\ UNCHANGED <<status, phase, boots, firing, immediate, todo, calling, raised,
                   mode, history>>

\* The jobs are still open and there is room: the waiter waits.
Register(w) ==
    /\ phase = "up" /\ answer[w] = "none" /\ ~Due(w, status)
    /\ Cardinality(waiting) + Cardinality(firing) < MaxWaiters
    /\ answer' = [answer EXCEPT ![w] = "waiting"]
    /\ waiting' = waiting \cup {w}
    /\ rows' = IF w \in Durable THEN rows \cup {w} ELSE rows
    /\ UNCHANGED <<status, phase, boots, firing, immediate, todo, calling, raised,
                   mode, history>>

\* The reason already holds: the registration awaits the callback itself,
\* with neither a row nor a capacity check.
RegisterDue(w) ==
    /\ phase = "up" /\ answer[w] = "none" /\ Due(w, status)
    /\ answer' = [answer EXCEPT ![w] = "fired"]
    /\ immediate' = immediate \cup {w}
    /\ firing' = IF w \in Durable THEN firing \cup {w} ELSE firing
    /\ called' = called \cup {w}
    /\ UNCHANGED <<status, rows, phase, boots, waiting, todo, calling, raised,
                   mode, settled, cancelled, refused>>

\* That callback returns, raises or is cancelled: the finally clause.
RegisterDone(w) ==
    /\ w \in immediate
    /\ immediate' = immediate \ {w}
    /\ firing' = firing \ {w}
    /\ settled' = settled \cup {w}
    /\ UNCHANGED <<status, rows, phase, boots, answer, waiting, todo, calling,
                   raised, mode, called, cancelled, refused>>

-----------------------------------------------------------------------------
(* A job ends; the calls that fire waiters. *)

\* _collect_terminal_callbacks for the call c, with the statuses st.
Collect(c, st) ==
    LET ready == {w \in waiting : Due(w, st)} IN
    /\ waiting' = waiting \ ready
    /\ firing' = firing \cup ready
    /\ todo' = [todo EXCEPT ![c] = ready]
    /\ raised' = [raised EXCEPT ![c] = FALSE]

\* _finish_job ("task"), _fail_active ("last") or _cancel_queued ("call").
JobEnds(j, s, m) ==
    /\ phase = "up" /\ status[j] = "open"
    /\ s = "ok" => m = "task"
    /\ status' = [status EXCEPT ![j] = s]
    /\ Collect(j, status')
    /\ mode' = [mode EXCEPT ![j] = m]
    /\ UNCHANGED <<rows, phase, boots, answer, immediate, calling, history>>

CallNext(c, w) ==
    /\ calling[c] = None /\ w \in todo[c]
    /\ calling' = [calling EXCEPT ![c] = w]
    /\ called' = called \cup {w}
    /\ UNCHANGED <<status, rows, phase, boots, answer, waiting, firing, immediate,
                   todo, raised, mode, settled, cancelled, refused>>

Leave(c) == /\ todo' = [todo EXCEPT ![c] = @ \ {calling[c]}]
            /\ calling' = [calling EXCEPT ![c] = None]

CallbackReturns(c) ==
    /\ calling[c] # None
    /\ Leave(c)
    /\ firing' = firing \ {calling[c]}
    /\ rows' = rows \ {calling[c]}
    /\ settled' = settled \cup {calling[c]}
    /\ UNCHANGED <<status, phase, boots, answer, waiting, immediate, raised, mode,
                   called, cancelled, refused>>

\* Mutant of CallbackRaises: a durable waiter is not put back.
RaisesForgets(c) ==
    /\ calling[c] # None
    /\ Leave(c)
    /\ firing' = firing \ {calling[c]}
    /\ raised' = [raised EXCEPT ![c] = TRUE]
    /\ refused' = refused \cup {calling[c]}
    /\ UNCHANGED <<status, rows, phase, boots, answer, waiting, immediate, mode,
                   called, settled, cancelled>>

\* Mutant of CallbackRaises: the first exception ends the loop.
RaisesEndsLoop(c) ==
    /\ calling[c] # None
    /\ todo' = [todo EXCEPT ![c] = {}]
    /\ calling' = [calling EXCEPT ![c] = None]
    /\ firing' = firing \ todo[c]
    /\ waiting' = waiting \cup (todo[c] \cap Durable)
    /\ raised' = [raised EXCEPT ![c] = TRUE]
    /\ refused' = refused \cup {calling[c]}
    /\ UNCHANGED <<status, rows, phase, boots, answer, immediate, mode, called,
                   settled, cancelled>>

\* A durable waiter waits again, its row untouched; another one is gone.
CallbackRaises(c) ==
    /\ calling[c] # None
    /\ Leave(c)
    /\ firing' = firing \ {calling[c]}
    /\ waiting' = IF calling[c] \in Durable THEN waiting \cup {calling[c]} ELSE waiting
    /\ raised' = [raised EXCEPT ![c] = TRUE]
    /\ refused' = refused \cup {calling[c]}
    /\ UNCHANGED <<status, rows, phase, boots, answer, immediate, mode, called,
                   settled, cancelled>>

Finished(c) == mode[c] # "idle" /\ todo[c] = {} /\ calling[c] = None

\* The exception reaches _run_scheduled_job: _fail_active collects again.
TaskRecovers(j) ==
    /\ Finished(j) /\ mode[j] = "task" /\ raised[j]
    /\ Collect(j, status)
    /\ mode' = [mode EXCEPT ![j] = "last"]
    /\ UNCHANGED <<status, rows, phase, boots, answer, immediate, calling, history>>

\* Nothing raised, or nobody is left to try again.
CallEnds(j) ==
    /\ Finished(j)
    /\ mode[j] \in {"last", "call"} \/ (mode[j] = "task" /\ ~raised[j])
    /\ mode' = [mode EXCEPT ![j] = "idle"]
    /\ raised' = [raised EXCEPT ![j] = FALSE]
    /\ UNCHANGED <<status, rows, phase, boots, answer, waiting, firing, immediate,
                   todo, calling, history>>

\* The client of cancel() goes away and its request task is cancelled:
\* CancelledError is not an Exception, and what it had stays in firing.
CallCancelled(j) ==
    /\ mode[j] = "call" /\ calling[j] # None
    /\ mode' = [mode EXCEPT ![j] = "idle"]
    /\ todo' = [todo EXCEPT ![j] = {}]
    /\ calling' = [calling EXCEPT ![j] = None]
    /\ raised' = [raised EXCEPT ![j] = FALSE]
    /\ UNCHANGED <<status, rows, phase, boots, answer, waiting, firing, immediate,
                   history>>

-----------------------------------------------------------------------------
(* cancel_durable_waiters. *)

\* Mutant of CancelDurable: callbacks in flight are not looked for.
CancelAnyway(g) ==
    LET matching == {w \in rows \cup (waiting \cap Durable) : GroupOf[w] = g} IN
    /\ phase = "up" /\ matching # {}
    /\ rows' = rows \ matching
    /\ waiting' = waiting \ matching
    /\ cancelled' = cancelled \cup matching
    /\ UNCHANGED <<status, phase, boots, answer, firing, immediate, todo, calling,
                   raised, mode, called, settled, refused>>

\* It refuses while a matching waiter is in firing.
CancelDurable(g) ==
    LET matching == {w \in rows \cup (waiting \cap Durable) : GroupOf[w] = g} IN
    /\ phase = "up" /\ matching # {}
    /\ \A w \in firing \cap Durable : GroupOf[w] # g
    /\ rows' = rows \ matching
    /\ waiting' = waiting \ matching
    /\ cancelled' = cancelled \cup matching
    /\ UNCHANGED <<status, phase, boots, answer, firing, immediate, todo, calling,
                   raised, mode, called, settled, refused>>

-----------------------------------------------------------------------------
(* Start and crash. *)

\* JobStore.initialize fails the jobs that were RUNNING, and
\* _restore_durable_terminal_waiters collects what is due of the rows.
Boot ==
    /\ phase = "down" /\ boots < MaxBoots
    /\ boots' = boots + 1
    /\ \E interrupted \in SUBSET {j \in Jobs : status[j] = "open"} :
          status' = [j \in Jobs |-> IF j \in interrupted THEN "bad" ELSE status[j]]
    /\ LET ready == {w \in rows : Due(w, status')} IN
          /\ waiting' = rows \ ready
          /\ firing' = ready
          /\ todo' = [todo EXCEPT ![Startup] = ready]
    /\ mode' = [mode EXCEPT ![Startup] = "boot"]
    /\ phase' = "starting"
    /\ UNCHANGED <<rows, answer, immediate, calling, raised, history>>

BootDone ==
    /\ phase = "starting" /\ Finished(Startup) /\ ~raised[Startup]
    /\ phase' = "up"
    /\ mode' = [mode EXCEPT ![Startup] = "idle"]
    /\ raised' = [raised EXCEPT ![Startup] = FALSE]
    /\ UNCHANGED <<status, rows, boots, answer, waiting, firing, immediate, todo,
                   calling, history>>

\* The process ends: by a crash, a stop, or because start() raised.
Crash ==
    /\ phase # "down"
    /\ phase' = "down"
    /\ waiting' = {} /\ firing' = {} /\ immediate' = {}
    /\ todo' = [c \in Calls |-> {}]
    /\ calling' = [c \in Calls |-> None]
    /\ raised' = [c \in Calls |-> FALSE]
    /\ mode' = [c \in Calls |-> "idle"]
    /\ UNCHANGED <<status, rows, boots, answer, history>>

-----------------------------------------------------------------------------
CallStep(c) == \/ \E w \in Waiters : CallNext(c, w)
               \/ CallbackReturns(c) \/ CallbackRaises(c)

EndStep(j) == TaskRecovers(j) \/ CallEnds(j)

Next ==
    \/ Boot \/ BootDone \/ Crash
    \/ \E w \in Waiters : Register(w) \/ RegisterDue(w) \/ RegisterDone(w)
    \/ \E j \in Jobs, s \in {"ok", "bad"}, m \in {"task", "last", "call"} :
          JobEnds(j, s, m)
    \/ \E c \in Calls : CallStep(c)
    \/ \E j \in Jobs : EndStep(j) \/ CallCancelled(j)
    \/ \E g \in Groups : CancelDurable(g)

\* The event loop runs a call that can go on, and a callback ends: the
\* handlers of app/container.py wait only for files and for route locks.
Fairness == /\ \A c \in Calls : WF_vars(CallStep(c))
            /\ \A j \in Jobs : WF_vars(EndStep(j))

Spec == Init /\ [][Next]_vars /\ Fairness

-----------------------------------------------------------------------------
(* What the waiters promise. *)

\* What a call has is in firing, where has_durable_waiters and
\* cancel_durable_waiters look for it, is not waiting at the same time, and
\* no other call has it: two job ends never fire the same waiter at once.
InFlightIsFiring ==
    /\ waiting \cap firing = {}
    /\ immediate \cap Durable \subseteq firing
    /\ \A c \in Calls : /\ todo[c] \subseteq firing \ immediate
                        /\ calling[c] \in todo[c] \cup {None}
    /\ \A c, d \in Calls : c # d => todo[c] \cap todo[d] = {}

\* A durable waiter whose registration was answered "waiting" keeps its row
\* until its callback has returned or it is cancelled, over crashes and
\* exceptions; and a server that runs holds every row in memory.
DurableKept ==
    /\ \A w \in Durable : answer[w] = "waiting" =>
          w \in rows \cup settled \cup cancelled
    /\ phase # "down" => rows \subseteq waiting \cup firing

\* Nothing calls a waiter again once its callback has returned, or calls it
\* at all once cancel_durable_waiters has answered, restarts included: a
\* cancel "prevents any later delivery".
DoneStaysDone ==
    [][\A c \in Calls :
          calling'[c] # calling[c] => calling'[c] \notin settled \cup cancelled]_vars

\* wake_on_jobs registers "a race-free, one-shot in-process callback": it is
\* called at most once, even if it raises.
OneShot ==
    [][\A c \in Calls :
          calling'[c] # calling[c] => calling'[c] \notin called \ Durable]_vars

\* No trigger is missed: a waiter that waits although its reason holds has
\* had its callback raise.  Registration races with the end of the jobs.
NoOverdue ==
    phase = "up" => \A w \in waiting : Due(w, status) => w \in refused

\* A server comes up only when every restored waiter that was due has had
\* its callback return.
BootSettlesDue ==
    [][phase = "starting" /\ phase' = "up" => \A w \in rows : ~Due(w, status)]_vars

\* The waiters that occupy memory never exceed the capacity, even though
\* restored and put-back waiters are not counted when they enter.
WaitersBounded == Cardinality(waiting \cup (firing \ immediate)) <= MaxWaiters

Stranded(w) == w \in firing \ immediate /\ \A c \in Calls : w \notin todo[c]

\* A waiter whose reason holds is called in the end, unless the server goes
\* down or the call that had it was cancelled: a raising callback does not
\* keep the others of its call from theirs.
DueIsCalled ==
    \A w \in Waiters :
        (w \in waiting \cup firing /\ Due(w, status))
           ~> (w \in called \cup cancelled \/ phase = "down" \/ Stranded(w))

\* cancel_durable_waiters refuses "while a terminal callback is actively
\* firing or in-flight": what is in firing is in a call's hands.  The
\* cancelled call of CallCancelled leaves waiters there with no call.
FiringIsInFlight == \A w \in Waiters : ~Stranded(w)
=============================================================================
