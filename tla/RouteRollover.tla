--------------------------- MODULE RouteRollover ---------------------------
(***************************************************************************)
(* A logical route and the physical chats it is bound to in turn: the      *)
(* registry of app/coordinator/routes.py with its generations, the         *)
(* rollover to a successor chat that ops/chatgpt_browser_host drives, the  *)
(* rebind and takeover of the owner, the unbinding of route_control.py,    *)
(* and what a change of generation must not lose: the wakes of the         *)
(* generation's channel and the durable waiters that will arm one.         *)
(*                                                                         *)
(* The registry is one file, written whole by calls that never await, so   *)
(* each of them is a step.  What awaits does so under the route's lock; op *)
(* is the operation that holds it, between two of its steps.  Takeover and *)
(* bind do not take the lock.  A refused call changes nothing and is not a *)
(* step of its own unless it gives the lock back.                          *)
(***************************************************************************)
EXTENDS Naturals, FiniteSets

CONSTANTS
    Chats,        \* physical conversations
    Waiters,      \* durable waiters of the "coordinator" handler
    MaxGen,       \* bound on the generation
    MaxRolls,     \* bound on the rollovers prepared; a token is its number
    MaxCrashes,   \* bound on the restarts of the server
    None

ASSUME RouteAssumption ==
    /\ MaxGen \in Nat /\ MaxRolls \in Nat /\ MaxCrashes \in Nat
    /\ None \notin Chats /\ None \notin Waiters

VARIABLES
    route,    \* the entry of "routes"
    roll,     \* the entry of "rollovers", or None
    last,     \* the entry of "last_rollover"
    bind,     \* the entry of "current_binds", or None
    op,       \* the operation that holds the route's lock, or None
    wakes,    \* generation -> the wake of its channel
    waiter,   \* waiter -> its state and the generation of its payload
    host,     \* token of the rollover the browser host works on, 0 for none
    rolls,    \* rollovers prepared so far
    crashes,
    chatsOf,  \* history: generation -> chats it was bound to
    left,     \* history: generations ended by a rollover or an unbinding
    byHand,   \* history: generations ended by a takeover or a rebind
    sent      \* history: token -> bootstrap turns put into the successor

registry == <<route, roll, last, bind>>
history == <<chatsOf, left, byHand, sent>>
vars == <<registry, op, wakes, waiter, host, rolls, crashes, history>>

Gens == 0..MaxGen
Tokens == 1..MaxRolls

Route == [gen : Gens, bound : BOOLEAN, chat : Chats \cup {None}]
Roll == [token : Tokens, src : Gens, tgt : Gens, chat : Chats \cup {None}]
LastRoll == [token : Tokens \cup {0}, tgt : Gens, chat : Chats \cup {None},
             state : {"none", "aborted", "committed", "complete"},
             delivery : {"none", "sending", "uncertain", "not_submitted"}]
Op == [kind : {"registering", "resuming", "arming", "delivering", "preparing",
               "cancelling", "unbinding", "probing", "sending"},
       gen : Gens, who : Waiters \cup {None}]
WaiterStates == {"none", "waiting", "firing", "armed", "dropped", "cancelled"}

\* None is none of the records whose absence it stands for.
ASSUME NoneAssumption == None \notin Op /\ None \notin Roll

TypeOK ==
    /\ route \in Route
    /\ roll \in Roll \cup {None}
    /\ last \in LastRoll
    /\ bind \in [src : Gens, chat : Chats \cup {None}] \cup {None}
    /\ op \in Op \cup {None}
    /\ wakes \in [Gens -> {"none", "pending", "out"}]
    /\ waiter \in [Waiters -> [st : WaiterStates, gen : Gens]]
    /\ host \in Tokens \cup {0}
    /\ rolls \in 0..MaxRolls /\ crashes \in 0..MaxCrashes
    /\ chatsOf \in [Gens -> SUBSET Chats]
    /\ left \subseteq Gens /\ byHand \subseteq Gens
    /\ sent \in [Tokens -> Nat]

\* A route bootstrapped to a chat, with no history.
Init ==
    /\ \E c \in Chats : /\ route = [gen |-> 0, bound |-> TRUE, chat |-> c]
                        /\ chatsOf = [g \in Gens |-> IF g = 0 THEN {c} ELSE {}]
    /\ roll = None /\ bind = None /\ op = None
    /\ last = [token |-> 0, tgt |-> 0, chat |-> None, state |-> "none", delivery |-> "none"]
    /\ wakes = [g \in Gens |-> "none"]
    /\ waiter = [w \in Waiters |-> [st |-> "none", gen |-> 0]]
    /\ host = 0 /\ rolls = 0 /\ crashes = 0
    /\ left = {} /\ byHand = {} /\ sent = [t \in Tokens |-> 0]

-----------------------------------------------------------------------------
(* The lock and the guard of every wake. *)

Hold(kind, g, w) == op' = [kind |-> kind, gen |-> g, who |-> w]
Holding(kind) == op # None /\ op.kind = kind
Free == op = None
Release == op' = None

Frozen == roll # None /\ roll.src = route.gen

\* Mutant of Wakeable: a pending rollover does not hold new wakes back.
WakeableFrozen(g) == route.bound /\ route.gen = g

\* require_wakeable_route: bound, the same generation, no rollover pending.
Wakeable(g) == route.bound /\ route.gen = g /\ ~Frozen

\* Rows of the waiters of a generation; a firing one keeps its row.
Active(g) == {w \in Waiters : waiter[w].gen = g /\ waiter[w].st \in {"waiting", "firing"}}

SetWaiter(w, s) == waiter' = [waiter EXCEPT ![w].st = s]

-----------------------------------------------------------------------------
(* Wakes and waiters. *)

\* wake_on_jobs and exec_and_wake, up to the registration.
RegisterBegins(w) ==
    /\ Free /\ waiter[w].st = "none" /\ Wakeable(route.gen)
    /\ Hold("registering", route.gen, w)
    /\ UNCHANGED <<registry, wakes, waiter, host, rolls, crashes, history>>

\* Some of the jobs are open: the waiter gets its row.
RegisterWaits ==
    /\ Holding("registering")
    /\ waiter' = [waiter EXCEPT ![op.who] = [st |-> "waiting", gen |-> op.gen]]
    /\ Release
    /\ UNCHANGED <<registry, wakes, host, rolls, crashes, history>>

\* All have ended: its callback runs at once, in the task that holds the lock.
RegisterResumes ==
    /\ Holding("registering") /\ Wakeable(op.gen)
    /\ waiter' = [waiter EXCEPT ![op.who].gen = op.gen]
    /\ Hold("resuming", op.gen, op.who)
    /\ UNCHANGED <<registry, wakes, host, rolls, crashes, history>>

\* Ended jobs, but the route was taken over meanwhile: that callback drops it.
RegisterDrops ==
    /\ Holding("registering") /\ ~Wakeable(op.gen) /\ ~Frozen
    /\ waiter' = [waiter EXCEPT ![op.who] = [st |-> "dropped", gen |-> op.gen]]
    /\ Release
    /\ UNCHANGED <<registry, wakes, host, rolls, crashes, history>>

\* The jobs have ended: the callback is called and waits for the lock.
Fire(w) ==
    /\ waiter[w].st = "waiting"
    /\ SetWaiter(w, "firing")
    /\ UNCHANGED <<registry, op, wakes, host, rolls, crashes, history>>

\* resume_coordinator_waiter: it goes on, raises and keeps its row while the
\* rollover is pending, or returns without a wake.
Resume(w) ==
    /\ Free /\ waiter[w].st = "firing"
    /\ \/ /\ Wakeable(waiter[w].gen)
          /\ Hold("resuming", waiter[w].gen, w)
          /\ UNCHANGED waiter
       \/ /\ route.bound /\ route.gen = waiter[w].gen /\ Frozen
          /\ SetWaiter(w, "waiting") /\ UNCHANGED op
       \/ /\ ~(route.bound /\ route.gen = waiter[w].gen)
          /\ SetWaiter(w, "dropped") /\ UNCHANGED op
    /\ UNCHANGED <<registry, wakes, host, rolls, crashes, history>>

ResumeArms ==
    /\ Holding("resuming")
    /\ wakes' = [wakes EXCEPT ![op.gen] = IF @ = "none" THEN "pending" ELSE @]
    /\ SetWaiter(op.who, "armed")
    /\ Release
    /\ UNCHANGED <<registry, host, rolls, crashes, history>>

\* continue, the trigger endpoint, a message of the owner, the restart notice.
ArmBegins ==
    /\ Free /\ Wakeable(route.gen) /\ wakes[route.gen] = "none"
    /\ Hold("arming", route.gen, None)
    /\ UNCHANGED <<registry, wakes, waiter, host, rolls, crashes, history>>

ArmEnds ==
    /\ Holding("arming")
    /\ wakes' = [wakes EXCEPT ![op.gen] = IF @ = "none" THEN "pending" ELSE @]
    /\ Release
    /\ UNCHANGED <<registry, waiter, host, rolls, crashes, history>>

\* The delivery loop takes the wake of the current generation.
DeliverBegins ==
    /\ Free /\ route.bound /\ wakes[route.gen] = "pending"
    /\ Hold("delivering", route.gen, None)
    /\ wakes' = [wakes EXCEPT ![route.gen] = "out"]
    /\ UNCHANGED <<registry, waiter, host, rolls, crashes, history>>

DeliverEnds ==
    /\ Holding("delivering")
    /\ wakes' \in {wakes, [wakes EXCEPT ![op.gen] = IF @ = "out" THEN "pending" ELSE @]}
    /\ Release
    /\ UNCHANGED <<registry, waiter, host, rolls, crashes, history>>

\* The X widget of the generation's chat takes a wake; the model acknowledges.
WidgetTakes(g) ==
    /\ wakes[g] = "pending"
    /\ wakes' = [wakes EXCEPT ![g] = "out"]
    /\ UNCHANGED <<registry, op, waiter, host, rolls, crashes, history>>

ModelAcks(g) ==
    /\ wakes[g] = "out"
    /\ wakes' = [wakes EXCEPT ![g] = "none"]
    /\ UNCHANGED <<registry, op, waiter, host, rolls, crashes, history>>

-----------------------------------------------------------------------------
(* Rollover. *)

\* rollover_prepare: the coordinator of the generation is idle.
PrepareBegins ==
    /\ Free /\ route.bound /\ wakes[route.gen] = "none"
    /\ Hold("preparing", route.gen, None)
    /\ UNCHANGED <<registry, wakes, waiter, host, rolls, crashes, history>>

QuietFor(g) == Active(g) = {}

\* No waiter either: prepare_rollover, on the route as it is by now.
PrepareEnds ==
    /\ Holding("preparing")
    /\ Release
    /\ IF QuietFor(op.gen) /\ route.bound /\ roll = None
          /\ rolls < MaxRolls /\ route.gen < MaxGen
       THEN /\ rolls' = rolls + 1
            /\ roll' = [token |-> rolls + 1, src |-> route.gen,
                        tgt |-> route.gen + 1, chat |-> None]
       ELSE UNCHANGED <<roll, rolls>>
    /\ UNCHANGED <<route, last, bind, wakes, waiter, host, crashes, history>>

\* The browser host reads the registry file.
HostReads ==
    /\ host = 0 /\ roll # None
    /\ host' = roll.token
    /\ UNCHANGED <<registry, op, wakes, waiter, rolls, crashes, history>>

\* It gives up this round: a transient error, a restart, a page to wait for.
HostWaits ==
    /\ host # 0 /\ host' = 0
    /\ UNCHANGED <<registry, op, wakes, waiter, rolls, crashes, history>>

Current(t) == roll # None /\ roll.token = t

\* record_rollover_candidate: the successor chat was created.
Candidate(c) ==
    /\ Free /\ host # 0 /\ Current(host) /\ Frozen /\ c # route.chat
    /\ roll' = [roll EXCEPT !.chat = c]
    /\ UNCHANGED <<route, last, bind, op, wakes, waiter, host, rolls, crashes, history>>

\* Mutant of MayCommit: the source generation is not compared again.
MayCommitAnywhere == host # 0 /\ Current(host) /\ roll.chat # None

MayCommit == host # 0 /\ Current(host) /\ roll.chat # None /\ Frozen

\* commit_rollover.
Commit ==
    /\ Free /\ MayCommit
    /\ route' = [gen |-> roll.tgt, bound |-> TRUE, chat |-> roll.chat]
    /\ last' = [token |-> roll.token, tgt |-> roll.tgt, chat |-> roll.chat,
                state |-> "committed", delivery |-> "none"]
    /\ roll' = None /\ host' = 0
    /\ chatsOf' = [chatsOf EXCEPT ![roll.tgt] = @ \cup {roll.chat}]
    /\ left' = left \cup {route.gen}
    /\ UNCHANGED <<bind, op, wakes, waiter, rolls, crashes, byHand, sent>>

Aborted == [token |-> roll.token, tgt |-> roll.tgt, chat |-> roll.chat,
            state |-> "aborted", delivery |-> "none"]

\* abort_rollover by the token the host holds; another rollover is left alone.
Abort ==
    /\ Free /\ host # 0
    /\ host' = 0
    /\ IF Current(host) THEN last' = Aborted /\ roll' = None ELSE UNCHANGED <<last, roll>>
    /\ UNCHANGED <<route, bind, op, wakes, waiter, rolls, crashes, history>>

\* rollover_for_completion: the committed successor is still the route's chat.
Completable ==
    /\ last.state \in {"committed", "complete"}
    /\ route.bound /\ route.gen = last.tgt /\ route.chat = last.chat

\* Mutant of MayBootstrap: an unanswered send is tried again.
MayBootstrapAgain ==
    last.state = "committed" /\ Completable /\ last.delivery # "uncertain"

MayBootstrap ==
    /\ last.state = "committed" /\ Completable
    /\ last.delivery \notin {"sending", "uncertain"}

\* complete_rollover_bootstrap: the target is probed, "sending" is written
\* before the turn is sent, the answer after it.
BootstrapBegins ==
    /\ Free /\ MayBootstrap
    /\ Hold("probing", route.gen, None)
    /\ UNCHANGED <<registry, wakes, waiter, host, rolls, crashes, history>>

BootstrapSends ==
    /\ Holding("probing")
    /\ \/ /\ Completable
          /\ last' = [last EXCEPT !.delivery = "sending"]
          /\ Hold("sending", op.gen, None)
       \/ /\ Release
          /\ UNCHANGED last
    /\ UNCHANGED <<route, roll, bind, wakes, waiter, host, rolls, crashes, history>>

Submitted(t) == sent' = [sent EXCEPT ![t] = @ + 1]

\* The transport's answer; it is not written when the route has moved on.
BootstrapEnds ==
    /\ Holding("sending")
    /\ Release
    /\ \E a \in {"delivered", "uncertain", "not_submitted", "exception"} :
         /\ last' = IF a = "exception" \/ ~Completable THEN last
                    ELSE IF a = "delivered" THEN [last EXCEPT !.state = "complete"]
                    ELSE [last EXCEPT !.delivery = a]
         /\ \/ a # "not_submitted" /\ Submitted(last.token)
            \/ a # "delivered" /\ UNCHANGED sent
    /\ UNCHANGED <<route, roll, bind, wakes, waiter, host, rolls, crashes,
                   chatsOf, left, byHand>>

-----------------------------------------------------------------------------
(* The owner: takeover, bind, unbind. *)

Rebound(c) ==
    /\ route.gen < MaxGen
    /\ route' = [gen |-> route.gen + 1, bound |-> TRUE, chat |-> c]
    /\ chatsOf' = [chatsOf EXCEPT ![route.gen + 1] = @ \cup {c}]
    /\ byHand' = byHand \cup {route.gen}

\* takeover: refused while a rollover is pending.
Takeover(c) ==
    /\ roll = None /\ Rebound(c)
    /\ UNCHANGED <<roll, last, bind, op, wakes, waiter, host, rolls, crashes, left, sent>>

\* prepare_current_bind; a bind of an older generation is replaced.
BindPrepares ==
    /\ bind # None => bind.src # route.gen
    /\ bind' = [src |-> route.gen, chat |-> None]
    /\ UNCHANGED <<route, roll, last, op, wakes, waiter, host, rolls, crashes, history>>

BindCandidate(c) ==
    /\ bind # None /\ bind.src = route.gen /\ bind.chat = None
    /\ bind' = [bind EXCEPT !.chat = c]
    /\ UNCHANGED <<route, roll, last, op, wakes, waiter, host, rolls, crashes, history>>

MayBind == bind # None /\ bind.chat # None /\ bind.src = route.gen

\* complete_current_bind: the same chat changes nothing.
BindCompletes ==
    /\ MayBind
    /\ bind' = None
    /\ IF route.bound /\ route.chat = bind.chat
       THEN UNCHANGED <<route, chatsOf, byHand>>
       ELSE Rebound(bind.chat)
    /\ UNCHANGED <<roll, last, op, wakes, waiter, host, rolls, crashes, left, sent>>

\* discard_current_bind, or its ten minutes are over.
BindExpires ==
    /\ bind # None /\ bind' = None
    /\ UNCHANGED <<route, roll, last, op, wakes, waiter, host, rolls, crashes, history>>

\* RouteRegistry.unbind skips the generation a pending rollover had reserved.
NextUnbound ==
    IF roll = None THEN route.gen
    ELSE IF roll.tgt > route.gen THEN roll.tgt ELSE route.gen + 1

UnbindRoute ==
    /\ NextUnbound <= MaxGen
    /\ route' = [gen |-> NextUnbound, bound |-> FALSE, chat |-> None]
    /\ roll' = None /\ bind' = None
    /\ last' = IF roll = None THEN last ELSE Aborted
    /\ left' = left \cup {route.gen}

\* RouteControl.unbind: nothing of the generation may be pending.
Unbind ==
    /\ Free /\ wakes[route.gen] = "none" /\ QuietFor(route.gen)
    /\ UnbindRoute
    /\ UNCHANGED <<op, wakes, waiter, host, rolls, crashes, chatsOf, byHand, sent>>

\* cancel_wakes and unbind_and_cancel: the wake that nobody has taken is
\* cancelled first,
CancelBegins ==
    /\ Free /\ wakes[route.gen] # "out"
    /\ wakes' = [wakes EXCEPT ![route.gen] = "none"]
    /\ Hold("cancelling", route.gen, None)
    /\ UNCHANGED <<registry, waiter, host, rolls, crashes, history>>

MayCancel(g) == \A w \in Active(g) : waiter[w].st = "waiting"

\* then the durable waiters, none of which may be firing.
CancelWaiters ==
    /\ Holding("cancelling")
    /\ IF MayCancel(op.gen)
       THEN /\ waiter' = [w \in Waiters |-> IF w \in Active(op.gen)
                             THEN [waiter[w] EXCEPT !.st = "cancelled"] ELSE waiter[w]]
            /\ Release \/ Hold("unbinding", op.gen, None)
       ELSE Release /\ UNCHANGED waiter
    /\ UNCHANGED <<registry, wakes, host, rolls, crashes, history>>

\* and unbind_and_cancel looks again before it unbinds.
UnbindCancelled ==
    /\ Holding("unbinding")
    /\ Release
    /\ IF wakes[op.gen] = "none" /\ QuietFor(op.gen) /\ route.gen = op.gen /\ NextUnbound <= MaxGen
       THEN UnbindRoute
       ELSE UNCHANGED <<registry, left>>
    /\ UNCHANGED <<wakes, waiter, host, rolls, crashes, chatsOf, byHand, sent>>

-----------------------------------------------------------------------------

\* The server restarts: the holder of the lock is gone, its turn may have been
\* sent; rows bring their waiters back, a waiter without a row is forgotten.
Crash ==
    /\ crashes < MaxCrashes /\ crashes' = crashes + 1
    /\ Release
    /\ waiter' = [w \in Waiters |->
          IF waiter[w].st = "firing" THEN [waiter[w] EXCEPT !.st = "waiting"] ELSE waiter[w]]
    /\ \/ Holding("sending") /\ Submitted(last.token)
       \/ UNCHANGED sent
    /\ UNCHANGED <<registry, wakes, host, rolls, chatsOf, left, byHand>>

\* The holder of the lock goes on.
OpEnds == \/ RegisterWaits \/ RegisterResumes \/ RegisterDrops \/ ResumeArms \/ ArmEnds \/ DeliverEnds
          \/ PrepareEnds \/ BootstrapSends \/ BootstrapEnds
          \/ CancelWaiters \/ UnbindCancelled

Next ==
    \/ \E w \in Waiters : RegisterBegins(w) \/ Fire(w) \/ Resume(w)
    \/ \E g \in Gens : WidgetTakes(g) \/ ModelAcks(g)
    \/ \E c \in Chats : Candidate(c) \/ Takeover(c) \/ BindCandidate(c)
    \/ ArmBegins \/ DeliverBegins \/ PrepareBegins \/ BootstrapBegins \/ CancelBegins
    \/ OpEnds
    \/ HostReads \/ HostWaits \/ Commit \/ Abort
    \/ BindPrepares \/ BindCompletes \/ BindExpires
    \/ Unbind
    \/ Crash

Spec == Init /\ [][Next]_vars

-----------------------------------------------------------------------------
(* What the registry promises. *)

\* A change of generation that the Bridge makes by itself loses nothing: of a
\* generation frozen by a rollover, or ended by one or by an unbinding, no wake
\* is open and no waiter will arm one.
Quiet(g) == wakes[g] = "none" /\ Active(g) = {}
LeftQuiet == /\ \A g \in left : Quiet(g)
             /\ Frozen => Quiet(route.gen)

\* A durable waiter is dropped without a wake only if the owner moved its route
\* to another chat by takeover or rebind, which look at no waiter.
DroppedByHand == \A w \in Waiters : waiter[w].st = "dropped" => waiter[w].gen \in byHand

\* The successor of a rollover is sent its bootstrap turn at most once, whatever
\* the transport answers and whenever the server restarts.
BootstrapOnce == \A t \in Tokens : sent[t] <= 1

\* A generation, and with it its channel, belongs to one chat for ever.
OneChatPerGeneration == \A g \in Gens : Cardinality(chatsOf[g]) <= 1
=============================================================================
