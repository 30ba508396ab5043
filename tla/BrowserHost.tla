---------------------------- MODULE BrowserHost ----------------------------
(***************************************************************************)
(* The supervisor of ops/chatgpt_browser_host: one loop that keeps one tab *)
(* of Chrome on the chat of the requested route, reloads it for a wake     *)
(* that waits for its preflight, drives a rollover to a successor chat,    *)
(* and stays away from ChatGPT for a while when that limits the account.   *)
(*                                                                         *)
(* The loop is one thread; pc is the place where it meets what others may  *)
(* have changed: the registry of routes and the wakes, both of the server, *)
(* the tabs, that a login page may take away, and the limit of the site.   *)
(* A wait for a page, a widget or a poll either succeeds or runs out, by   *)
(* choice; whatever the code does not catch is the step HostCrash.  What   *)
(* the environment does is counted in used and bounded by the load that a  *)
(* behaviour starts with.  Automatic creation of successors is switched on *)
(* (BROWSER_HOST_ROLLOVER_BRANCH_ENABLED).                                 *)
(***************************************************************************)
EXTENDS Naturals, FiniteSets

CONSTANTS
    Routes,
    Tabs,          \* identities of tabs
    MaxGen,        \* bound on the generation of a route
    MaxLiveAttempts,   \* PREFLIGHT_MAX_LIVE_ATTEMPTS
    MaxWakes,      \* bound on the continuations; one is named by its number
    Loads,         \* bounds on the events of the environment, a choice of
    None

HostEvents == {"arm", "switch", "roll", "rebind", "unbind", "turn", "limit", "mishap", "crash"}

\* A pending rollover; one at a time, of whatever route.
Rollovers == [token : Nat, route : Routes, src : 0..MaxGen, candidate : BOOLEAN, old : BOOLEAN]

ASSUME HostAssumption ==
    /\ MaxGen \in Nat /\ MaxLiveAttempts \in Nat \ {0} /\ MaxWakes \in Nat
    /\ Loads \subseteq [HostEvents -> Nat]
    /\ \A l \in Loads : l["arm"] <= MaxWakes
    /\ None \notin Tabs \cup Rollovers
    /\ Routes \cap {"shut", "blank", "home", "away"} = {}

\* What a tab shows: a chat of a route, by generation, or none of them.  Home
\* is another page of chatgpt.com, Away one of another site.
Shut == <<"shut", 0>>
Blank == <<"blank", 0>>
HomePage == <<"home", 0>>
Away == <<"away", 0>>
Chat(r, g) == <<r, g>>
Chats == Routes \X (0..MaxGen)

VARIABLES
    pc,        \* where the loop is
    tabs,      \* tab -> what it shows
    aim,       \* target_url with its channel and generation; Blank if unbound
    page,      \* the tab of the target that this turn of the loop works on
    fresh,     \* the tab opened by a preflight or for a successor, or None
    recovering, throttled,  \* target_recovery_page_id; retry time not reached
    quiet,     \* web_backoff_file: a quiet period is not over
    budget,    \* preflight_budget_file, with the continuation of the attempt
    held,      \* token of the rollover the loop works on, 0 for none
    wanted,    \* registry: requested route
    gen, bound,             \* registry: route -> generation, binding_state
    roll,      \* registry: the pending rollover, or None
    greet,     \* registry: successors whose bootstrap turn is not sent
    wake,      \* route -> the wake of its current channel
    busy,      \* ChatGPT is writing a turn
    limited,   \* ChatGPT shows its rate limit dialog
    load, used,
    spent      \* history: continuation -> live attempts since its authorization

browser == <<tabs, page, fresh, recovering, throttled>>
registry == <<wanted, gen, bound, roll, greet>>
world == <<wake, busy, limited, load, used>>
files == <<quiet, budget, spent>>
hostVars == <<pc, aim, held, browser, registry, world, files>>

Wakes == 1..MaxWakes
Steps == {"down", "parked", "top", "roll", "record", "vet", "seek", "gate",
          "work", "fresh", "check", "poll", "listen", "tail"}
AtWork == {"gate", "work", "fresh", "check", "poll", "listen", "tail"}

HostTypeOK ==
    /\ pc \in Steps
    /\ tabs \in [Tabs -> Chats \cup {Shut, Blank, HomePage, Away}]
    /\ aim \in Chats \cup {Blank}
    /\ page \in Tabs \cup {None} /\ fresh \in Tabs \cup {None}
    /\ recovering \in Tabs \cup {None} /\ throttled \in BOOLEAN
    /\ quiet \in BOOLEAN
    /\ budget \in [cont : {0} \cup Wakes, attempts : 0..MaxLiveAttempts,
                   cooling : BOOLEAN, inflight : BOOLEAN]
    /\ held \in Nat
    /\ wanted \in Routes /\ gen \in [Routes -> 0..MaxGen] /\ bound \in [Routes -> BOOLEAN]
    /\ roll \in {None} \cup Rollovers
    /\ greet \subseteq Chats
    /\ wake \in [Routes -> [id : {0} \cup Wakes, st : {"idle", "preflight", "ready", "out"}]]
    /\ busy \in BOOLEAN /\ limited \in BOOLEAN
    /\ load \in Loads /\ used \in [HostEvents -> Nat]
    /\ spent \in [Wakes -> Nat]

HostInit ==
    /\ pc = "down" /\ tabs = [t \in Tabs |-> Shut] /\ aim = Blank
    /\ page = None /\ fresh = None /\ recovering = None /\ throttled = FALSE
    /\ quiet = FALSE
    /\ budget = [cont |-> 0, attempts |-> 0, cooling |-> FALSE, inflight |-> FALSE]
    /\ held = 0
    /\ wanted \in Routes
    /\ gen = [r \in Routes |-> 0] /\ bound = [r \in Routes |-> TRUE]
    /\ roll = None /\ greet = {}
    /\ wake = [r \in Routes |-> [id |-> 0, st |-> "idle"]]
    /\ busy = FALSE /\ limited = FALSE
    /\ load \in Loads /\ used = [e \in HostEvents |-> 0]
    /\ spent = [c \in Wakes |-> 0]

-----------------------------------------------------------------------------
(* Helpers. *)

Left(e) == used[e] < load[e]
Use(e) == /\ Left(e)
          /\ used' = [used EXCEPT ![e] = @ + 1]

\* pages(): the tabs on chatgpt.com, a chat or another page of it.
Open == {t \in Tabs : tabs[t] # Shut}
NewTabs == IF Open = Tabs THEN {} ELSE {CHOOSE t \in Tabs : t \notin Open}
Pages == {t \in Tabs : tabs[t] \in Chats \cup {HomePage}}
Showing(c) == {t \in Tabs : tabs[t] = c}

\* Target of the requested route, as the registry has it by now.
Target == IF bound[wanted] THEN Chat(wanted, gen[wanted]) ELSE Blank

\* Mutant of Others: no page but the target's is ever closed.
OthersNone(t) == {}

\* The pages of ChatGPT beside t.
Others(t) == Pages \ {t}

Closed(ts) == [t \in Tabs |-> IF t \in ts THEN Shut ELSE tabs[t]]

\* close_page of each of ts; a request that fails is swallowed and leaves its tab.
Close(ts) ==
    \/ tabs' = Closed(ts) /\ UNCHANGED used
    \/ \E s \in ts : tabs' = Closed(ts \ {s}) /\ Use("mishap")

\* The loop navigates to c and finds the tab on c, and closes the others, or on
\* a page it was sent to.
Lands(t, c, others) ==
    \/ /\ tabs' = [Closed(others) EXCEPT ![t] = c]
       /\ UNCHANGED used
    \/ \E s \in others : tabs' = [Closed(others \ {s}) EXCEPT ![t] = c] /\ Use("mishap")
    \/ /\ c # Blank /\ Use("mishap")
       /\ \E there \in {HomePage, Away} : tabs' = [tabs EXCEPT ![t] = there]

\* Coordinator status of the channel the loop works for.
WakeOf(c) == IF c \in Chats /\ Chat(c[1], gen[c[1]]) = c /\ bound[c[1]]
             THEN wake[c[1]] ELSE [id |-> 0, st |-> "idle"]

Turn(p) == pc = p
Goto(p) == pc' = p

-----------------------------------------------------------------------------
(* Start and end of the process. *)

\* Mutant of FirstPage: Chrome is started on the chat whatever the backoff says.
FirstPageAlways(c) == c

\* start_chrome: a blank page while ChatGPT must be left alone.
FirstPage(c) == IF quiet THEN Blank ELSE c

\* Mutant of RestoredBudget: the file is read as if no attempt had been made.
RestoredBudgetEmpty == [cont |-> 0, attempts |-> 0, cooling |-> FALSE, inflight |-> FALSE]

\* _restore_preflight_budget: an attempt that was under way counts, and cools down.
RestoredBudget == [budget EXCEPT !.cooling = @ \/ budget.inflight, !.inflight = FALSE]

Boot ==
    /\ Turn("down") /\ Goto("top")
    /\ aim' = Target
    /\ budget' = RestoredBudget
    /\ \E t \in NewTabs : Lands(t, FirstPage(Target), {})
    /\ page' = None /\ fresh' = None /\ recovering' = None /\ throttled' = FALSE
    /\ held' = 0
    /\ UNCHANGED <<registry, wake, busy, limited, load, quiet, spent>>

Down == /\ tabs' = [t \in Tabs |-> Shut]
        /\ page' = None /\ fresh' = None /\ recovering' = None /\ throttled' = FALSE
        /\ held' = 0

\* An exception nobody catches, a kill, Chrome gone: the session is not restored.
HostCrash ==
    /\ pc \notin {"down", "parked"} /\ Use("crash")
    /\ Goto("down") /\ Down
    /\ UNCHANGED <<aim, registry, wake, busy, limited, load, files>>

\* auth_required: it ends without failure, and systemd does not start it again.
Parks ==
    /\ Turn("gate") /\ Use("mishap")
    /\ Goto("parked") /\ Down
    /\ UNCHANGED <<aim, registry, wake, busy, limited, load, files>>

OwnerStarts ==
    /\ Turn("parked") /\ Goto("down")
    /\ UNCHANGED <<aim, held, browser, registry, world, files>>

-----------------------------------------------------------------------------
(* The head of the loop: the route. *)

\* Mutant of Refreshed: the registry is read only when nothing is known.
RefreshedOnce == IF aim = Blank THEN Target ELSE aim

\* refresh_route_target
Refreshed == Target

\* While it is quiet the loop only sleeps.  An unbound route is left alone; a
\* new target that no tab shows is loaded into the first page.
Top ==
    /\ Turn("top") /\ ~quiet
    /\ aim' = Refreshed
    /\ IF Refreshed = Blank
       THEN Goto("top") /\ UNCHANGED <<tabs, used>>
       ELSE /\ Goto("roll")
            /\ IF Refreshed # aim /\ Showing(Refreshed) = {} /\ Pages # {}
               THEN \E t \in Pages : Lands(t, Refreshed, {})
               ELSE UNCHANGED <<tabs, used>>
    /\ UNCHANGED <<held, page, fresh, recovering, throttled, registry,
                   wake, busy, limited, load, files>>

-----------------------------------------------------------------------------
(* process_pending_rollover. *)

Pending == roll # None /\ roll.route = aim[1]
Mine == roll # None /\ roll.token = held
Current(ro) == ro.src = gen[ro.route]
Successor == Chat(aim[1], roll.src + 1)

NoRollover ==
    /\ Turn("roll") /\ ~Pending /\ Goto("seek")
    /\ UNCHANGED <<aim, held, browser, registry, world, files>>

\* A page of the source chat is wanted, though nothing is done in it; then a
\* fresh chat of the project is started in a tab of its own.
RollCreates ==
    /\ Turn("roll") /\ Pending /\ roll.src = aim[2] /\ ~roll.candidate
    /\ Pages # {}
    /\ held' = roll.token
    /\ Goto("record")
    /\ \E t \in NewTabs, s \in Pages :
         /\ Showing(aim) = {} \/ s \in Showing(aim)
         /\ tabs' = [tabs EXCEPT ![s] = aim, ![t] = Successor]
         /\ fresh' = t
    /\ UNCHANGED <<aim, page, recovering, throttled, registry, world, files>>

\* The candidate of an earlier round: its page is found or loaded.
RollReopens ==
    /\ Turn("roll") /\ Pending /\ roll.src = aim[2] /\ roll.candidate
    /\ Pages # {}
    /\ held' = roll.token
    /\ IF Showing(Successor) # {}
       THEN /\ \E t \in Showing(Successor) : fresh' = t
            /\ Goto("vet") /\ UNCHANGED <<tabs, used>>
       ELSE \E t \in Pages : /\ Lands(t, Successor, {})
                             /\ fresh' = t
                             /\ Goto("vet")
    /\ UNCHANGED <<aim, page, recovering, throttled, registry, wake, busy, limited,
                   load, files>>

\* waiting_source_page, waiting_candidate_page, or a transient error while young.
RollWaits ==
    /\ Turn("roll") /\ Pending /\ roll.src = aim[2] /\ (Pages = {} \/ ~roll.old)
    /\ Goto("top")
    /\ UNCHANGED <<aim, held, browser, registry, world, files>>

\* The candidate is recorded; or the call or its answer is lost; or the registry,
\* which knows another generation or no such rollover by now, refuses it.
Records ==
    /\ Turn("record")
    /\ \/ /\ Mine /\ ~roll.candidate /\ Current(roll)
          /\ roll' = [roll EXCEPT !.candidate = TRUE]
          /\ Goto("vet") /\ UNCHANGED <<used, held, fresh>>
       \/ /\ Mine /\ ~roll.old /\ Use("mishap")
          /\ roll' \in {roll, [roll EXCEPT !.candidate = @ \/ Current(roll)]}
          /\ Goto("top") /\ held' = 0 /\ fresh' = None
       \/ /\ Mine => ~roll.old /\ ~Current(roll)
          /\ Goto("top") /\ held' = 0 /\ fresh' = None
          /\ UNCHANGED <<roll, used>>
    /\ UNCHANGED <<aim, tabs, page, recovering, throttled, wanted, gen, bound, greet,
                   wake, busy, limited, load, files>>

\* The successor shows its composer, its widget is bound and polls: commit.
\* The route is the successor's and the requested one from now on, known by the
\* next refresh.
Commits ==
    /\ Turn("vet") /\ tabs[fresh] = Chat(aim[1], aim[2] + 1)
    /\ Mine /\ Current(roll)
    /\ gen' = [gen EXCEPT ![roll.route] = @ + 1]
    /\ greet' = greet \cup {Chat(roll.route, roll.src + 1)}
    /\ roll' = None /\ wanted' = roll.route
    /\ Goto("top") /\ held' = 0 /\ fresh' = None
    /\ UNCHANGED <<aim, tabs, page, recovering, throttled, bound, world, files>>

\* A transient error or a successor not yet hydrated: the loop comes back while
\* the rollover is young.  Calls about another rollover change nothing.
VetWaits ==
    /\ Turn("vet") /\ (Mine => ~roll.old)
    /\ Goto("top") /\ held' = 0 /\ fresh' = None
    /\ UNCHANGED <<aim, tabs, page, recovering, throttled, registry, world, files>>

\* restore_source_after_rollover: the source's tab, or a page turned into it,
\* is the only page of ChatGPT that stays.
Restores(c) ==
    IF Pages = {} THEN UNCHANGED <<tabs, used>>
    ELSE \E t \in IF Showing(c) # {} THEN Showing(c) ELSE Pages : Lands(t, c, Others(t))

\* A rollover of another generation, a source that cannot be opened, a
\* successor that fails, or a transient error after its 180 seconds.  Creating
\* a successor closes the tab it has opened before it fails.
RollAborts ==
    /\ \/ Turn("roll") /\ Pending /\ (roll.src # aim[2] \/ Pages # {})
       \/ Turn("record") /\ Mine /\ roll.old
       \/ Turn("vet") /\ Mine
    /\ roll' = None
    /\ Goto("top") /\ held' = 0 /\ fresh' = None
    /\ Restores(Chat(roll.route, roll.src))
    /\ UNCHANGED <<aim, page, recovering, throttled, wanted, gen, bound, greet,
                   wake, busy, limited, load, files>>

-----------------------------------------------------------------------------
(* enforce_target. *)

\* A tab that may be turned into the target when no page of ChatGPT is open.
SpareTab == IF recovering # None /\ tabs[recovering] # Shut THEN {recovering}
            ELSE {t \in Tabs : tabs[t] = Blank}

Works(t) == /\ page' = t /\ recovering' = None /\ throttled' = FALSE
            /\ Goto("gate")

\* The target is shown: every other page of ChatGPT is closed.
SeekFinds ==
    /\ Turn("seek")
    /\ \E t \in Showing(aim) : Works(t) /\ Close(Others(t))
    /\ UNCHANGED <<aim, held, fresh, registry, wake, busy, limited, load, files>>

\* It is loaded into a page, into a spare tab or into a new one, at most once
\* in TARGET_RECOVERY_RETRY_SECONDS.
SeekLoads ==
    /\ Turn("seek") /\ Showing(aim) = {}
    /\ \E t \in IF Pages # {} THEN Pages
                ELSE IF SpareTab # {} THEN SpareTab ELSE NewTabs :
         IF throttled
         THEN /\ tabs' = [tabs EXCEPT ![t] = IF @ = Shut THEN Blank ELSE @]
              /\ recovering' = t /\ Goto("top") /\ UNCHANGED <<used, page, throttled>>
         ELSE \/ /\ Lands(t, aim, Others(t)) /\ tabs'[t] = aim
                 /\ Works(t)
              \/ /\ Lands(t, aim, {}) /\ tabs'[t] # aim
                 /\ recovering' = t /\ throttled' = TRUE /\ Goto("top")
                 /\ UNCHANGED page
    /\ UNCHANGED <<aim, held, fresh, registry, wake, busy, limited, load, files>>

-----------------------------------------------------------------------------
(* The gate: limits, the wake, its budget. *)

\* activate_web_backoff
LimitDetected ==
    /\ Turn("gate") /\ limited
    /\ quiet' = TRUE
    /\ Goto("top")
    /\ UNCHANGED <<aim, held, browser, registry, world, budget, spent>>

\* guard_live_web_work: no dialog, or one that the probe could not see.
GateOpens ==
    /\ Turn("gate") /\ Goto("work")
    /\ IF limited THEN Use("mishap") ELSE UNCHANGED used
    /\ UNCHANGED <<aim, held, browser, registry, wake, busy, limited, load, files>>

\* complete_rollover_bootstrap: the server sends the first turn, or says why not.
Bootstraps ==
    /\ Turn("work") /\ WakeOf(aim).st = "idle" /\ aim \in greet
    /\ greet' \in {greet, greet \ {aim}}
    /\ Goto("top")
    /\ UNCHANGED <<aim, held, browser, wanted, gen, bound, roll, world, files>>

\* Nothing is pending: no listener is kept warm.
Idles ==
    /\ Turn("work") /\ WakeOf(aim).st = "idle" /\ aim \notin greet
    /\ Goto("top")
    /\ UNCHANGED <<aim, held, browser, registry, world, files>>

\* _begin_browser_preflight_attempt: the budget is that of one continuation.
BudgetFor(c) ==
    IF budget.cont = c THEN budget
    ELSE [cont |-> c, attempts |-> 0, cooling |-> FALSE, inflight |-> FALSE]

MayTry(c) == BudgetFor(c).attempts < MaxLiveAttempts /\ ~BudgetFor(c).cooling

Begins(c) ==
    IF MayTry(c)
    THEN /\ budget' = [BudgetFor(c) EXCEPT !.attempts = @ + 1, !.inflight = TRUE]
         /\ spent' = [spent EXCEPT ![c] = @ + 1]
         /\ Goto("fresh")
    ELSE budget' = BudgetFor(c) /\ Goto("top") /\ UNCHANGED spent

\* A wake waits for its preflight: seen before the listener is looked for, or after.
PreflightBegins ==
    /\ pc \in {"work", "listen"}
    /\ WakeOf(aim).st = "preflight"
    /\ Begins(WakeOf(aim).id)
    /\ UNCHANGED <<aim, held, browser, registry, world, quiet>>

WakeIsReady ==
    /\ Turn("work") /\ WakeOf(aim).st \in {"ready", "out"}
    /\ Goto("listen")
    /\ UNCHANGED <<aim, held, browser, registry, world, files>>

-----------------------------------------------------------------------------
(* The preflight. *)

\* _finish_browser_preflight_attempt without an authorization.
Fails == /\ budget' = [budget EXCEPT !.inflight = FALSE,
                                     !.cooling = budget.attempts < MaxLiveAttempts]
         /\ Goto("top")
         /\ UNCHANGED <<quiet, spent>>

\* The chat is opened in a fresh tab, beside the page.
FreshOpens ==
    /\ Turn("fresh") /\ Goto("check")
    /\ \E t \in NewTabs : fresh' = t /\ Lands(t, aim, {})
    /\ UNCHANGED <<aim, held, page, recovering, throttled, registry,
                   wake, busy, limited, load, files>>

\* Its last turn is final and shown, a widget is mounted and bound to the
\* channel: the old page is closed and the fresh one takes its place.
CheckPasses ==
    /\ Turn("check") /\ tabs[fresh] = aim /\ ~busy
    /\ Close({page} \ {fresh})
    /\ page' = fresh /\ fresh' = None /\ Goto("poll")
    /\ UNCHANGED <<aim, held, recovering, throttled, registry, wake, busy, limited,
                   load, files>>

\* Any of these does not come in time; the fresh tab is closed.
CheckFails ==
    /\ Turn("check") /\ Fails
    /\ Close({fresh}) /\ fresh' = None
    /\ UNCHANGED <<aim, held, page, recovering, throttled, registry, wake, busy,
                   limited, load>>

\* The widget polls, and the server authorizes what still waits for it.
PollPasses ==
    /\ Turn("poll")
    /\ IF /\ WakeOf(aim).st \in {"preflight", "ready"}
          /\ WakeOf(aim).id = budget.cont
       THEN /\ wake' = [wake EXCEPT ![aim[1]].st = "ready"]
            /\ spent' = [spent EXCEPT ![budget.cont] = 0]
            /\ \/ /\ budget' = [cont |-> 0, attempts |-> 0, cooling |-> FALSE,
                                inflight |-> FALSE]
                  /\ Goto("top") /\ UNCHANGED <<used, quiet>>
               \/ /\ Use("mishap")
                  /\ budget' = [budget EXCEPT !.inflight = FALSE,
                                              !.cooling = budget.attempts < MaxLiveAttempts]
                  /\ Goto("top") /\ UNCHANGED quiet
       ELSE Fails /\ UNCHANGED <<wake, used>>
    /\ UNCHANGED <<aim, held, browser, registry, busy, limited, load>>

PollFails ==
    /\ Turn("poll") /\ Fails
    /\ UNCHANGED <<aim, held, browser, registry, world>>

-----------------------------------------------------------------------------
(* The listener and the rest of the turn. *)

Reloads == \E t \in IF Showing(aim) # {} THEN Showing(aim) ELSE Pages : Lands(t, aim, {})

\* recover_listener finds no widget in the history: the chat is reloaded.
ListenFails ==
    /\ Turn("listen") /\ Goto("top")
    /\ IF Pages = {} THEN UNCHANGED <<tabs, used>> ELSE Reloads
    /\ UNCHANGED <<aim, held, page, fresh, recovering, throttled, registry,
                   wake, busy, limited, load, files>>

ListenPasses ==
    /\ Turn("listen") /\ WakeOf(aim).st # "preflight" /\ Goto("tail")
    /\ UNCHANGED <<aim, held, browser, registry, world, files>>

\* A bootstrap still to be sent is asked for here too; then the chat is reloaded
\* if its widget was not seen to poll.
Finishes ==
    /\ Turn("tail") /\ Goto("top")
    /\ greet' \in {greet, greet \ {aim}}
    /\ \/ Pages # {} /\ Reloads
       \/ UNCHANGED <<tabs, used>>
    /\ UNCHANGED <<aim, held, page, fresh, recovering, throttled, wanted, gen, bound, roll,
                   wake, busy, limited, load, files>>

\* A probe that raises ends the turn of the loop.
TurnFails ==
    /\ pc \in {"work", "listen"} /\ Use("mishap") /\ Goto("top")
    /\ UNCHANGED <<aim, held, browser, registry, wake, busy, limited, load, files>>

-----------------------------------------------------------------------------
(* The server, the owner, ChatGPT and time. *)

Arms(r) ==
    /\ Use("arm") /\ wake[r].st = "idle" /\ bound[r]
    /\ ~(roll # None /\ roll.route = r /\ Current(roll))
    /\ wake' = [wake EXCEPT ![r] = [id |-> used["arm"] + 1, st |-> "preflight"]]
    /\ UNCHANGED <<pc, aim, held, browser, registry, busy, limited, load, files>>

\* The authorization lasts for BROWSER_PREFLIGHT_TTL_SECONDS.
Lapses(r) ==
    /\ wake[r].st = "ready"
    /\ wake' = [wake EXCEPT ![r].st = "preflight"]
    /\ UNCHANGED <<pc, aim, held, browser, registry, busy, limited, load, used, files>>

Delivers(r) ==
    /\ wake[r].st = "ready"
    /\ wake' = [wake EXCEPT ![r].st = "out"]
    /\ UNCHANGED <<pc, aim, held, browser, registry, busy, limited, load, used, files>>

Acks(r) ==
    /\ wake[r].st = "out"
    /\ wake' = [wake EXCEPT ![r] = [id |-> 0, st |-> "idle"]]
    /\ UNCHANGED <<pc, aim, held, browser, registry, busy, limited, load, used, files>>

Switches(r) ==
    /\ Use("switch") /\ r # wanted /\ wanted' = r
    /\ UNCHANGED <<pc, aim, held, browser, gen, bound, roll, greet,
                   wake, busy, limited, load, files>>

Prepares(r) ==
    /\ Use("roll") /\ roll = None /\ bound[r] /\ wake[r].st = "idle" /\ gen[r] < MaxGen
    /\ roll' = [token |-> used["roll"] + 1, route |-> r, src |-> gen[r],
                candidate |-> FALSE, old |-> FALSE]
    /\ UNCHANGED <<pc, aim, held, browser, wanted, gen, bound, greet,
                   wake, busy, limited, load, files>>

\* The rollover is older than 180 seconds.
Ages ==
    /\ roll # None /\ ~roll.old
    /\ roll' = [roll EXCEPT !.old = TRUE]
    /\ UNCHANGED <<pc, aim, held, browser, wanted, gen, bound, greet, world, files>>

\* The owner aborts it, with the answer of the host's next call.
OwnerAborts ==
    /\ roll # None /\ Use("mishap") /\ roll' = None
    /\ UNCHANGED <<pc, aim, held, browser, wanted, gen, bound, greet,
                   wake, busy, limited, load, files>>

\* takeover, or complete_current_bind, which does not mind a pending rollover.
Rebinds(r) ==
    /\ Use("rebind") /\ gen[r] < MaxGen
    /\ gen' = [gen EXCEPT ![r] = @ + 1] /\ bound' = [bound EXCEPT ![r] = TRUE]
    /\ wanted' = r
    /\ wake' = [wake EXCEPT ![r] = [id |-> 0, st |-> "idle"]]
    /\ UNCHANGED <<pc, aim, held, browser, roll, greet, busy, limited, load, files>>

\* unbind and unbind_and_cancel: a pending rollover is aborted, and the
\* generation it had reserved is skipped.
Unbinds(r) ==
    /\ Use("unbind") /\ bound[r] /\ wake[r].st # "out"
    /\ bound' = [bound EXCEPT ![r] = FALSE]
    /\ wake' = [wake EXCEPT ![r] = [id |-> 0, st |-> "idle"]]
    /\ IF roll # None /\ roll.route = r
       THEN /\ gen[r] < MaxGen
            /\ gen' = [gen EXCEPT ![r] = @ + 1] /\ roll' = None
       ELSE UNCHANGED <<gen, roll>>
    /\ UNCHANGED <<pc, aim, held, browser, wanted, greet, busy, limited, load, files>>

TurnBegins ==
    /\ ~busy /\ Use("turn") /\ busy' = TRUE
    /\ UNCHANGED <<pc, aim, held, browser, registry, wake, limited, load, files>>
TurnEnds ==
    /\ busy /\ busy' = FALSE
    /\ UNCHANGED <<pc, aim, held, browser, registry, wake, limited, load, used, files>>

Limits ==
    /\ ~limited /\ Use("limit") /\ limited' = TRUE
    /\ UNCHANGED <<pc, aim, held, browser, registry, wake, busy, load, files>>
Lifts ==
    /\ limited /\ limited' = FALSE
    /\ UNCHANGED <<pc, aim, held, browser, registry, wake, busy, load, used, files>>

\* A page of ChatGPT turns into a login page or another page by itself.
Strays(t) ==
    /\ t \in Pages /\ Use("mishap")
    /\ \E there \in {HomePage, Away} \ {tabs[t]} : tabs' = [tabs EXCEPT ![t] = there]
    /\ UNCHANGED <<pc, aim, held, page, fresh, recovering, throttled, registry,
                   wake, busy, limited, load, files>>

QuietEnds ==
    /\ quiet /\ quiet' = FALSE
    /\ UNCHANGED <<pc, aim, held, browser, registry, world, budget, spent>>
CoolingEnds ==
    /\ budget.cooling /\ budget' = [budget EXCEPT !.cooling = FALSE]
    /\ UNCHANGED <<pc, aim, held, browser, registry, world, quiet, spent>>
RetryPasses ==
    /\ throttled /\ throttled' = FALSE
    /\ UNCHANGED <<pc, aim, held, tabs, page, fresh, recovering, registry, world, files>>

-----------------------------------------------------------------------------
Rolling == NoRollover \/ RollCreates \/ RollReopens \/ RollWaits \/ Records
           \/ Commits \/ VetWaits \/ RollAborts
Preflight == PreflightBegins \/ FreshOpens \/ CheckPasses \/ CheckFails
             \/ PollPasses \/ PollFails
Loop == Top \/ Rolling \/ SeekFinds \/ SeekLoads \/ LimitDetected \/ Bootstraps \/ Idles
        \/ Preflight \/ GateOpens \/ WakeIsReady \/ ListenFails \/ ListenPasses \/ Finishes
Time == QuietEnds \/ CoolingEnds \/ RetryPasses

HostNext ==
    \/ Boot \/ HostCrash \/ Parks \/ OwnerStarts \/ Loop \/ TurnFails \/ Time
    \/ \E r \in Routes : Arms(r) \/ Lapses(r) \/ Delivers(r) \/ Acks(r)
                         \/ Switches(r) \/ Prepares(r) \/ Rebinds(r) \/ Unbinds(r)
    \/ Ages \/ OwnerAborts \/ TurnBegins \/ TurnEnds \/ Limits \/ Lifts
    \/ \E t \in Tabs : Strays(t)

\* systemd restarts a host that failed and the loop never blocks for ever; time
\* passes, a turn of the model ends and a limit of the account is lifted.
HostFairness ==
    /\ WF_hostVars(Boot) /\ WF_hostVars(Loop)
    /\ WF_hostVars(QuietEnds) /\ WF_hostVars(CoolingEnds) /\ WF_hostVars(RetryPasses)
    /\ WF_hostVars(Ages) /\ WF_hostVars(TurnEnds) /\ WF_hostVars(Lifts)

HostSpec == HostInit /\ [][HostNext]_hostVars /\ HostFairness

-----------------------------------------------------------------------------
(* Properties. *)

\* While the loop works on the target, Chrome holds its page and, in a preflight,
\* one fresh tab, but for what a login page or a lost answer left behind; between
\* the turns of the loop also the chats of rollovers that followed one another
\* before enforce_target closed the others: a heavy renderer each.
TabsBounded ==
    /\ pc \in AtWork => Cardinality(Open) <= 1 + used["mishap"] + (IF pc = "check" THEN 1 ELSE 0)
    /\ Cardinality(Open) <= 1 + used["mishap"] + (IF used["roll"] = 0 THEN 1 ELSE used["roll"])

\* A continuation costs ChatGPT at most MaxLiveAttempts reloads until it is
\* authorized, whatever crashes in between; the budget is that of one
\* continuation, so going to another route and back grants it once more.
PreflightBudget ==
    \A c \in Wakes :
        spent[c] <= MaxLiveAttempts * (1 + (used["switch"] + used["rebind"]) \div 2)

\* In a quiet period nothing is loaded from ChatGPT, a restart included.
BackoffHolds ==
    [][quiet' => \A t \in Tabs : tabs'[t] \in Chats => tabs[t] = tabs'[t]]_hostVars

\* A wake of the requested route that waits for its preflight is authorized, or
\* has used its budget up, or the host waits for a login.
WakePrepared ==
    \A c \in Wakes :
        (wake[wanted].id = c /\ wake[wanted].st = "preflight")
            ~> \/ ~(wake[wanted].id = c /\ wake[wanted].st = "preflight")
               \/ budget.cont = c /\ budget.attempts = MaxLiveAttempts
               \/ pc = "parked"
=============================================================================
