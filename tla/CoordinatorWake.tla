-------------------------- MODULE CoordinatorWake --------------------------
(***************************************************************************)
(* How an event (a finished group of jobs, a message of the owner) reaches *)
(* the model's chat: the wakes of app/coordinator/service.py, one per      *)
(* channel, and the two that carry them, the X widget mounted in the chat  *)
(* and the loop of app/coordinator/wake_delivery.py over the external      *)
(* review-gpt program of app/coordinator/review_gpt_transport.py.          *)
(*                                                                         *)
(* Every operation runs under the service's lock, changes a wake and saves *)
(* it before the lock is free, so it is one step and a crash forgets none. *)
(* Time is the order of its deadlines: a lease ends, a wake grows old, in  *)
(* a step of its own that may come at any moment.  What merely delays a    *)
(* claim or a notice (available_at, the cooldowns, the backoff file, the   *)
(* preflight authorization of an unleased widget, the X window before a    *)
(* direct claim, escalation_at) is left to the choice of when it comes.    *)
(***************************************************************************)
EXTENDS Naturals, Sequences

CONSTANTS
    Channels,
    Events,       \* each is armed at most once
    Plain,        \* events armed without model_ack_required
    Home,         \* event -> its channel
    Visible,      \* how many events the 500 characters of a prompt have room for
    MaxAttempts,  \* max_delivery_attempts
    MaxConts,     \* the continuations whose notices are watched; at most one
                  \* is made for an event
    NoWake

ASSUME WakeAssumption ==
    /\ Plain \subseteq Events
    /\ Home \in [Events -> Channels]
    /\ Visible \in Nat \ {0} /\ MaxAttempts \in Nat \ {0}
    /\ MaxConts \in Nat

VARIABLES
    pending,    \* _pending: channel -> wake, persisted
    direct,     \* the delivery cycle of the loop
    widget,     \* channel -> what the X widget of its chat is doing
    noticing,   \* continuations the escalation loop is sending a notice of
    conts,      \* continuations made so far; they are named 1..conts
    armed, shown, givenUp   \* history: events accepted, seen by the model, given up

history == <<armed, shown, givenUp>>
vars == <<pending, direct, widget, noticing, conts, history>>

Conts == 1..MaxConts
Contents(s) == {s[i] : i \in DOMAIN s}

Wake == [plain : BOOLEAN, cont : Nat,
         msgs : Seq(Events), queued : Seq(Events),
         attempts : 0..MaxAttempts,
         claim : {"none", "direct", "x", "orphan"},  \* whose claim_id it carries
         lease : BOOLEAN,                            \* lease_expires_at lies ahead
         delivered : BOOLEAN, acked : BOOLEAN,
         blocked : {"no", "uncertain", "owner", "auth"},
         notified : BOOLEAN,
         old : BOOLEAN,                              \* past MAX_UNDELIVERED_AGE_SECONDS
         rebatched : BOOLEAN, \* made by _promote_queued_locked
         receipt : BOOLEAN,   \* the program committed its receipt: a file by the name cont
         turns : Nat,         \* history: how often it was put into the chat
         lapsed : BOOLEAN]    \* history: a claim of it outlived its lease

Idle == [phase |-> "idle", ch |-> NoWake, cont |-> 0, msgs |-> << >>]
Flight(phases) == [phase : phases, ch : Channels \cup {NoWake},
                   cont : Nat, msgs : Seq(Events)]

\* NoWake is none of the records and chats whose absence it stands for.
ASSUME NoWakeAssumption == NoWake \notin Wake \cup Channels

TypeOK ==
    /\ pending \in [Channels -> Wake \cup {NoWake}]
    /\ direct \in Flight({"idle", "probing", "reprobing", "claimed", "submitted"})
    /\ widget \in [Channels -> Flight({"idle", "claimed", "submitted"})]
    /\ noticing \subseteq Nat
    /\ conts \in Nat
    /\ armed \subseteq Events /\ shown \subseteq Events /\ givenUp \subseteq Events

Init ==
    /\ pending = [c \in Channels |-> NoWake]
    /\ direct = Idle
    /\ widget = [c \in Channels |-> Idle]
    /\ noticing = {}
    /\ conts = 0
    /\ armed = {} /\ shown = {} /\ givenUp = {}

Present(c) == pending[c] # NoWake
Leased(w) == w.claim # "none" /\ w.lease
Held(w) == Contents(w.msgs) \cup Contents(w.queued)
\* run_once keeps the route's lock for its whole cycle, and whoever arms or
\* cancels a wake of the route takes that lock.
LockFree(c) == direct.ch # c

-----------------------------------------------------------------------------
(* Arming. *)

NewWake(e, plain, k) ==
    [plain |-> plain, cont |-> k, msgs |-> <<e>>, queued |-> << >>, attempts |-> 0,
     claim |-> "none", lease |-> FALSE,
     delivered |-> FALSE, acked |-> FALSE, blocked |-> "no",
     notified |-> FALSE, old |-> FALSE,
     rebatched |-> FALSE, receipt |-> FALSE, turns |-> 0, lapsed |-> FALSE]

\* Mutant of MayMerge: the visible reason grows past what a prompt shows.
MergeUnbounded(w) == w.attempts = 0 /\ w.claim = "none" /\ ~w.acked

\* The batch is still with the Bridge and has room for one more.
MayMerge(w) == /\ w.attempts = 0 /\ w.claim = "none" /\ ~w.acked
               /\ Len(w.msgs) < Visible

Coalesced(w, e) ==
    IF MayMerge(w) THEN [w EXCEPT !.msgs = Append(@, e)]
    ELSE [w EXCEPT !.queued = Append(@, e)]

\* A resilient wake takes any event that may coalesce; a plain one is a single
\* slot that the next event takes over, unless it is out with the widget.
Arm(e) ==
    LET c == Home[e]
        w == pending[c]
    IN  /\ e \notin armed /\ LockFree(c)
        /\ armed' = armed \cup {e}
        /\ \/ /\ Present(c) /\ ~w.plain
              /\ pending' = [pending EXCEPT ![c] = Coalesced(w, e)]
              /\ UNCHANGED <<conts, givenUp>>
           \/ /\ Present(c) => w.plain /\ ~Leased(w)
              /\ conts' = IF e \in Plain THEN conts ELSE conts + 1
              /\ pending' = [pending EXCEPT ![c] =
                    NewWake(e, e \in Plain, IF e \in Plain THEN 0 ELSE conts + 1)]
              /\ givenUp' = IF Present(c) THEN givenUp \cup (Held(w) \ shown) ELSE givenUp
        /\ UNCHANGED <<direct, widget, noticing,
                       shown>>

\* cancel_wakes and unbind_and_cancel of the route's owner.
CancelPending(c) ==
    LET w == pending[c]
    IN  /\ Present(c) /\ LockFree(c)
        /\ w.claim = "none" /\ ~w.delivered /\ w.blocked = "no"
        /\ pending' = [pending EXCEPT ![c] = NoWake]
        /\ givenUp' = givenUp \cup (Held(w) \ shown)
        /\ UNCHANGED <<direct, widget, noticing, conts,
                       armed, shown>>

-----------------------------------------------------------------------------
(* Claims.  A wake is claimed by one carrier, for LEASE_SECONDS. *)

MayClaim(c, carrier) ==
    LET w == pending[c]
    IN  /\ Present(c)
        /\ ~Leased(w)
        /\ \A d \in Channels \ {c} : Present(d) => ~Leased(pending[d])
        /\ ~w.delivered /\ ~w.acked /\ w.blocked = "no"
        /\ carrier = "x" /\ ~w.plain => ~w.old
        /\ ~w.plain => w.attempts < MaxAttempts

\* The last attempt also sets the time of the escalation.
Claimed(w, carrier) ==
    IF w.plain THEN [w EXCEPT !.claim = carrier, !.lease = TRUE]
    ELSE [w EXCEPT !.claim = carrier, !.lease = TRUE, !.attempts = @ + 1]

\* The wake that replaces an acknowledged one, if events are queued behind it.
Promoted(w) ==
    IF w.queued = << >> THEN NoWake
    ELSE [NewWake(w.queued[1], FALSE, conts + 1) EXCEPT !.msgs = w.queued,
                                                             !.rebatched = TRUE]
Promote(c, w) ==
    /\ pending' = [pending EXCEPT ![c] = Promoted(w)]
    /\ conts' = IF w.queued = << >> THEN conts ELSE conts + 1

\* status: an acknowledged wake without a live claim makes room for its queue.
StatusPromotes(c) ==
    /\ Present(c) /\ pending[c].acked /\ ~Leased(pending[c])
    /\ Promote(c, pending[c])
    /\ UNCHANGED <<direct, widget, noticing, history>>

-----------------------------------------------------------------------------
(* The X widget: it claims, submits the whole message and acknowledges. *)

WidgetClaims(c) ==
    /\ widget[c].phase = "idle" /\ MayClaim(c, "x")
    /\ pending' = [pending EXCEPT ![c] = Claimed(@, "x")]
    /\ widget' = [widget EXCEPT ![c] = [phase |-> "claimed", ch |-> c,
                     cont |-> pending[c].cont, msgs |-> pending[c].msgs]]
    /\ UNCHANGED <<direct, noticing, conts, history>>

\* The turn k of the chat c is submitted; r: its receipt is committed.
WithTurn(p, c, k, r) ==
    IF p[c] # NoWake /\ k # 0 /\ p[c].cont = k
    THEN [p EXCEPT ![c].turns = @ + 1, ![c].receipt = @ \/ r] ELSE p

WidgetSubmits(c) ==
    /\ widget[c].phase = "claimed"
    /\ pending' = WithTurn(pending, c, widget[c].cont, FALSE)
    /\ shown' = shown \cup Contents(widget[c].msgs)
    /\ widget' = [widget EXCEPT ![c].phase = "submitted"]
    /\ UNCHANGED <<direct, noticing, conts, armed, givenUp>>

Delivered(w) ==
    [w EXCEPT !.claim = "none", !.lease = FALSE, !.delivered = TRUE]

\* ack: the claim counts though its lease is over, as long as it is the last.
WidgetAcks(c) ==
    LET w == pending[c]
    IN  /\ widget[c].phase = "submitted"
        /\ widget' = [widget EXCEPT ![c] = Idle]
        /\ IF ~Present(c) \/ w.claim # "x" THEN UNCHANGED <<pending, conts>>
           ELSE IF w.acked THEN Promote(c, w)
           ELSE /\ pending' = [pending EXCEPT ![c] = IF w.plain THEN NoWake ELSE Delivered(w)]
                /\ UNCHANGED conts
        /\ UNCHANGED <<direct, noticing, history>>

\* The message cannot be sent, or the chat is closed or mounted anew under another
\* delivery lease: no ack comes, or one that is answered "standby".
WidgetGone(c) ==
    /\ widget[c].phase # "idle"
    /\ widget' = [widget EXCEPT ![c] = Idle]
    /\ pending' = IF Present(c) /\ pending[c].claim = "x"
                  THEN [pending EXCEPT ![c].claim = "orphan"] ELSE pending
    /\ UNCHANGED <<direct, noticing, conts, history>>

-----------------------------------------------------------------------------
(* The loop of wake_delivery.py: read, probe, claim, deliver, finalize. *)

\* A wake that is ready, or whose authentication block may be released.
Look(c) ==
    LET w == pending[c]
    IN  /\ direct.phase = "idle" /\ Present(c) /\ ~w.plain
        /\ \/ /\ MayClaim(c, "direct") /\ direct' = [Idle EXCEPT !.phase = "probing", !.ch = c, !.cont = w.cont]
           \/ /\ w.blocked = "auth" /\ ~Leased(w)
              /\ direct' = [Idle EXCEPT !.phase = "reprobing", !.ch = c, !.cont = w.cont]
        /\ UNCHANGED <<pending, widget, noticing, conts, history>>

ProbeFails ==
    /\ direct.phase \in {"probing", "reprobing"}
    /\ direct' = Idle
    /\ UNCHANGED <<pending, widget, noticing, conts, history>>

\* mark_preclaim_auth_required, unless the wake is another one by now.
ProbeNeedsOwner ==
    LET c == direct.ch
        w == pending[c]
    IN  /\ direct.phase = "probing"
        /\ direct' = Idle
        /\ pending' =
             IF /\ Present(c) /\ w.cont = direct.cont /\ w.claim = "none"
                /\ ~w.delivered /\ ~w.acked /\ w.blocked = "no"
             THEN [pending EXCEPT ![c].blocked = "auth"]
             ELSE pending
        /\ UNCHANGED <<widget, noticing, conts, history>>

Releasable(w) ==
    /\ w.cont = direct.cont /\ w.blocked = "auth"
    /\ ~w.delivered /\ ~w.acked /\ w.claim = "none"

\* clear_preclaim_auth_block: only a block from before a send is released.
ProbeReleases ==
    LET c == direct.ch
    IN  /\ direct.phase = "reprobing"
        /\ direct' = Idle
        /\ pending' =
             IF Present(c) /\ Releasable(pending[c])
             THEN [pending EXCEPT ![c].blocked = "no", ![c].notified = FALSE]
             ELSE pending
        /\ UNCHANGED <<widget, noticing, conts, history>>

\* The claim is decided on the wake as it is now, not as it was probed.
DirectClaims ==
    LET c == direct.ch
    IN  /\ direct.phase = "probing"
        /\ IF MayClaim(c, "direct")
           THEN /\ pending' = [pending EXCEPT ![c] = Claimed(@, "direct")]
                /\ direct' = [phase |-> "claimed", ch |-> c,
                              cont |-> pending[c].cont, msgs |-> pending[c].msgs]
           ELSE direct' = Idle /\ UNCHANGED pending
        /\ UNCHANGED <<widget, noticing, conts, history>>

\* What build_continuation_prompt has room for.
Prompted(msgs) == {msgs[i] : i \in {j \in DOMAIN msgs : j <= Visible}}

\* A receipt whose wake is gone is read by nobody but a flight that lost its
\* claim, and not kept here.
HasReceipt ==
    LET w == pending[direct.ch]
    IN  Present(direct.ch) /\ w.cont = direct.cont /\ w.receipt

MaySubmit == direct.phase = "claimed" /\ ~HasReceipt

\* The external program puts the turn into the chat, and commits its receipt
\* unless it fails before that.
DirectSubmits ==
    /\ MaySubmit
    /\ \E r \in BOOLEAN : pending' = WithTurn(pending, direct.ch, direct.cont, r)
    /\ shown' = shown \cup Prompted(direct.msgs)
    /\ direct' = [direct EXCEPT !.phase = "submitted"]
    /\ UNCHANGED <<widget, noticing, conts, armed, givenUp>>

\* Mutant of Dispositions: a program that dies without a receipt is taken for
\* one that did not submit.
DispositionsHopeful ==
    IF HasReceipt THEN {"delivered"}
    ELSE {"not_submitted", "owner"}

\* What deliver can answer; without a receipt it never takes a submitted turn
\* for one that was not.
Dispositions ==
    IF HasReceipt THEN {"delivered"}
    ELSE IF direct.phase = "submitted" THEN {"uncertain", "owner"}
    ELSE {"not_submitted", "uncertain", "owner"}

\* finalize_transport: by the claim, whatever became of its lease.
DirectFinalizes ==
    LET c == direct.ch
        w == pending[c]
    IN  /\ direct.phase \in {"claimed", "submitted"}
        /\ direct' = Idle
        /\ \E d \in Dispositions :
             IF ~Present(c) \/ w.claim # "direct" \/ w.cont = 0
             THEN UNCHANGED <<pending, conts>>
             ELSE IF d = "delivered" /\ w.acked THEN Promote(c, w)
             ELSE IF d = "delivered"
             THEN pending' = [pending EXCEPT ![c] = Delivered(w)] /\ UNCHANGED conts
             ELSE /\ pending' = [pending EXCEPT ![c] =
                       [w EXCEPT !.claim = "none", !.lease = FALSE,
                                 !.blocked = IF d = "not_submitted" THEN "no" ELSE d]]
                  /\ UNCHANGED conts
        /\ UNCHANGED <<widget, noticing, history>>

-----------------------------------------------------------------------------
(* The model, the owner's notices and the clock. *)

\* model_ack of a turn the model has seen; the answer shows it the queue.
ModelAcks(c) ==
    LET w == pending[c]
    IN  /\ Present(c) /\ ~w.plain /\ w.turns > 0
        /\ shown' = shown \cup Contents(w.queued)
        /\ pending' = [pending EXCEPT ![c] =
              IF Leased(w) THEN [w EXCEPT !.acked = TRUE, !.queued = << >>] ELSE NoWake]
        /\ UNCHANGED <<direct, widget, noticing, conts,
                       armed, givenUp>>

EscalationDue(w) ==
    /\ ~w.plain /\ ~w.acked /\ ~w.notified
    /\ \/ w.old /\ ~w.delivered
       \/ w.blocked # "no"
       \/ w.delivered \/ w.attempts = MaxAttempts

\* escalations_due: the list is made once and then sent one by one.
Escalate ==
    LET due == {pending[c].cont : c \in {d \in Channels : Present(d) /\ EscalationDue(pending[d])}}
    IN  /\ noticing = {} /\ due # {}
        /\ noticing' = due
        /\ UNCHANGED <<pending, direct, widget, conts, history>>

\* Mutant of NoticeSent: the notice that was sent is not written down.
NoticeUnmarked(k) ==
    /\ k \in noticing
    /\ noticing' = noticing \ {k}
    /\ UNCHANGED <<pending, direct, widget, conts, history>>

\* The notice went out: mark_escalation_notified finds the wake by its name.
NoticeSent(k) ==
    /\ k \in noticing
    /\ noticing' = noticing \ {k}
    /\ pending' = [c \in Channels |->
          IF Present(c) /\ pending[c].cont = k /\ ~pending[c].plain
          THEN [pending[c] EXCEPT !.notified = TRUE] ELSE pending[c]]
    /\ UNCHANGED <<direct, widget, conts, history>>

NoticeFails(k) ==
    /\ k \in noticing
    /\ noticing' = noticing \ {k}
    /\ UNCHANGED <<pending, direct, widget, conts, history>>

LeaseEnds(c) ==
    /\ Present(c) /\ Leased(pending[c])
    /\ pending' = [pending EXCEPT ![c].lease = FALSE, ![c].lapsed = TRUE]
    /\ UNCHANGED <<direct, widget, noticing, conts, history>>

GrowsOld(c) ==
    /\ Present(c) /\ ~pending[c].plain /\ ~pending[c].old
    /\ ~pending[c].delivered /\ ~pending[c].acked
    /\ pending' = [pending EXCEPT ![c].old = TRUE]
    /\ UNCHANGED <<direct, widget, noticing, conts, history>>

Orphaned == [c \in Channels |->
    IF Present(c) /\ pending[c].claim = "direct"
    THEN [pending[c] EXCEPT !.claim = "orphan"] ELSE pending[c]]

\* The server stops or dies.  The delivery is cut off without finalize, and its
\* program may still come to submit the turn and to commit the receipt.
Crash ==
    /\ noticing' = {}
    /\ direct' = Idle
    /\ \/ /\ pending' = Orphaned
          /\ UNCHANGED shown
       \/ /\ MaySubmit
          /\ \E r \in BOOLEAN :
                pending' = WithTurn(Orphaned, direct.ch, direct.cont, r)
          /\ shown' = shown \cup Prompted(direct.msgs)
    /\ UNCHANGED <<widget, conts, armed, givenUp>>

-----------------------------------------------------------------------------

Next ==
    \/ \E e \in Events : Arm(e)
    \/ \E c \in Channels :
         \/ CancelPending(c) \/ StatusPromotes(c)
         \/ WidgetClaims(c) \/ WidgetSubmits(c)
         \/ WidgetAcks(c) \/ WidgetGone(c)
         \/ Look(c) \/ ModelAcks(c)
         \/ LeaseEnds(c) \/ GrowsOld(c)
    \/ ProbeFails \/ ProbeNeedsOwner \/ ProbeReleases
    \/ DirectClaims \/ DirectSubmits \/ DirectFinalizes
    \/ Escalate \/ (\E k \in noticing : NoticeSent(k) \/ NoticeFails(k))
    \/ Crash

\* Time passes, the loops keep running and in the end a notice goes through.
\* Nothing is asked of the widget, of the probes or of the model.
Fairness ==
    /\ \A c \in Channels : /\ WF_vars(LeaseEnds(c)) /\ WF_vars(GrowsOld(c))
                           /\ WF_vars(StatusPromotes(c))
    /\ WF_vars(Escalate)
    /\ \A k \in Conts : SF_vars(NoticeSent(k))

Spec == Init /\ [][Next]_vars /\ Fairness

-----------------------------------------------------------------------------
(* What the coordinator promises. *)

HeldSomewhere(e) == \E c \in Channels : Present(c) /\ e \in Held(pending[c])

\* The event stands in a re-made batch past what the direct prompt has room for.
CutOff(e) ==
    \E c \in Channels :
        /\ Present(c) /\ pending[c].rebatched
        /\ \E i \in DOMAIN pending[c].msgs : i > Visible /\ pending[c].msgs[i] = e

EventState(e) ==
    IF e \notin armed THEN "new"
    ELSE IF e \in shown THEN "shown"
    ELSE IF CutOff(e) THEN "oversized"
    ELSE IF HeldSomewhere(e) THEN "held"
    ELSE IF e \in givenUp THEN "given_up"
    ELSE "vanished"

Delivery == INSTANCE EventDelivery WITH state <- [e \in Events |-> EventState(e)]

\* An event that arm accepted stays with the Bridge until the model was shown
\* it or the owner gave it up: no race of the two carriers, the model's ack, a
\* lapsed lease or a restart loses one, but for the tail of a batch re-made by
\* _promote_queued_locked.
EventsKept == Delivery!Spec

\* A continuation is put into the chat twice only if a carrier held its claim
\* past the lease (a send that took longer, a crash, a widget that died), and
\* never more often than max_delivery_attempts: neither a send of unknown
\* outcome nor a block released by a probe is sent again.
ResendNeedsLapse ==
    \A c \in Channels : Present(c) =>
        /\ pending[c].turns <= MaxAttempts
        /\ pending[c].turns > 1 => pending[c].lapsed

\* A continuation the coordinator holds comes to the knowledge of somebody: it
\* is delivered or acknowledged, its owner is told, or it is gone.
Surfaced(k) ==
    \A c \in Channels :
        Present(c) /\ pending[c].cont = k =>
            pending[c].delivered \/ pending[c].acked \/ pending[c].notified
WakeSurfaces == \A k \in Conts : k <= conts ~> Surfaced(k)
=============================================================================
