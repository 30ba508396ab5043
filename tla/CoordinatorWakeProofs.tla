----------------------- MODULE CoordinatorWakeProofs -----------------------
(***************************************************************************)
(* Proofs about CoordinatorWake, for any chats, events and bounds: that    *)
(* a turn is put twice into the chat only behind a lapsed claim, and that  *)
(* the wakes implement EventDelivery.  Behind them, proofs about           *)
(* BrowserHost, which prepares the wakes: for any routes, tabs and loads,  *)
(* what it opens, what a continuation costs, and that it keeps quiet.      *)
(***************************************************************************)
EXTENDS CoordinatorWake, BrowserHost, FiniteSetTheorems, TLAPS

-----------------------------------------------------------------------------
(* The inductive invariant. *)

\* The flight of the widget, or of the loop, carries this wake.
XRuns(c) ==
    /\ widget[c].phase # "idle"
    /\ pending[c].cont # 0 /\ widget[c].cont = pending[c].cont
DRuns(c) ==
    /\ direct.phase \in {"claimed", "submitted"} /\ direct.ch = c
    /\ pending[c].cont # 0 /\ direct.cont = pending[c].cont

\* And its turn is still to come.
XAhead(c) == XRuns(c) /\ widget[c].phase = "claimed"
DAhead(c) == DRuns(c) /\ direct.phase = "claimed"

\* A flight has a chat and carries events that were armed, under a name given
\* before; what the widget has submitted was shown.
FlightsFit ==
    /\ shown \subseteq armed /\ givenUp \subseteq armed
    /\ direct.cont <= conts /\ Contents(direct.msgs) \subseteq armed
    /\ direct.phase # "idle" => direct.ch \in Channels
    /\ \A c \in Channels :
         /\ widget[c].cont <= conts /\ Contents(widget[c].msgs) \subseteq armed
         /\ widget[c].phase = "submitted" => Contents(widget[c].msgs) \subseteq shown

\* A plain wake is a single slot without a name; names are given once.
NamesFit(c) ==
    /\ pending[c].cont <= conts
    /\ pending[c].plain <=> pending[c].cont = 0
    /\ pending[c].plain => pending[c].queued = << >> /\ ~pending[c].rebatched
    /\ ~pending[c].rebatched => Len(pending[c].msgs) <= Visible

\* A claim that is not orphaned has its flight, and a flight carries the batch.
ClaimsFit(c) ==
    /\ pending[c].claim = "x" =>
          /\ widget[c].phase # "idle"
          /\ widget[c].cont = pending[c].cont /\ widget[c].msgs = pending[c].msgs
    /\ pending[c].claim = "direct" /\ pending[c].cont # 0 =>
          /\ direct.phase \in {"claimed", "submitted"} /\ direct.ch = c
          /\ direct.cont = pending[c].cont
    /\ XRuns(c) => pending[c].attempts > 0 /\ widget[c].msgs = pending[c].msgs
    /\ DRuns(c) => pending[c].attempts > 0 /\ direct.msgs = pending[c].msgs

\* Every turn, made or still to come, has used an attempt up.
TurnsPaid(c) ==
    /\ pending[c].cont = 0 => pending[c].turns = 0
    /\ pending[c].turns + (IF XAhead(c) THEN 1 ELSE 0) + (IF DAhead(c) THEN 1 ELSE 0)
          <= pending[c].attempts

\* While no claim has lapsed, the one claim there was accounts for the turn.
OneTurn(c) ==
    ~pending[c].lapsed =>
        /\ pending[c].claim # "none" => pending[c].lease
        /\ XAhead(c) => pending[c].claim = "x"
        /\ DAhead(c) => pending[c].claim = "direct"
        /\ pending[c].turns > 0 =>
              /\ pending[c].turns = 1 /\ ~XAhead(c) /\ ~DAhead(c)
              /\ \/ pending[c].claim # "none" \/ pending[c].delivered \/ pending[c].acked
                 \/ pending[c].blocked \in {"uncertain", "owner"}

\* An event is held in one place, by the wake of its chat.
HeldOnce(c) ==
    /\ \A e \in Held(pending[c]) : e \in armed /\ Home[e] = c /\ e \notin givenUp
    /\ Contents(pending[c].msgs) \cap Contents(pending[c].queued) = {}

\* What was put into the chat was shown, but for the tail that is cut off.
TurnsSeen(c) ==
    pending[c].turns > 0 \/ pending[c].acked =>
        \A i \in DOMAIN pending[c].msgs :
            pending[c].msgs[i] \in shown \/ (pending[c].rebatched /\ i > Visible)

WakeFits(c) == /\ NamesFit(c) /\ ClaimsFit(c) /\ TurnsPaid(c)
               /\ OneTurn(c) /\ HeldOnce(c) /\ TurnsSeen(c)

IInv == TypeOK /\ FlightsFit /\ \A c \in Channels : Present(c) => WakeFits(c)

-----------------------------------------------------------------------------
(* What the operations make of a wake and of a flight.                     *)

SameBatch(v, w) ==
    /\ v.plain = w.plain /\ v.cont = w.cont /\ v.msgs = w.msgs
    /\ v.queued = w.queued /\ v.rebatched = w.rebatched
SameClaim(v, w) ==
    /\ v.claim = w.claim /\ v.lease = w.lease
    /\ v.attempts = w.attempts /\ v.lapsed = w.lapsed
SameCourse(v, w) ==
    /\ v.delivered = w.delivered /\ v.acked = w.acked
    /\ v.blocked = w.blocked /\ v.turns = w.turns

Carriers == {"none", "direct", "x", "orphan"}
Blocks == {"no", "uncertain", "owner", "auth"}

\* The fields of a wake have their types.
LEMMA WakeFields ==
    ASSUME NEW w \in Wake
    PROVE  /\ w.plain \in BOOLEAN /\ w.cont \in Nat
           /\ w.msgs \in Seq(Events) /\ w.queued \in Seq(Events)
           /\ w.attempts \in Nat /\ w.attempts <= MaxAttempts
           /\ w.claim \in Carriers /\ w.lease \in BOOLEAN
           /\ w.delivered \in BOOLEAN /\ w.acked \in BOOLEAN /\ w.blocked \in Blocks
           /\ w.rebatched \in BOOLEAN /\ w.turns \in Nat /\ w.lapsed \in BOOLEAN
  BY WakeAssumption DEF WakeAssumption, Wake, Carriers, Blocks

\* No wake is NoWake, and neither is a chat.
LEMMA NoWakeApart == NoWake \notin Wake /\ NoWake \notin Channels
  BY NoWakeAssumption DEF NoWakeAssumption

\* A new wake holds its event and nothing else has happened to it.
LEMMA NewWakeEffect ==
    ASSUME NEW e \in Events, NEW plain \in BOOLEAN, NEW k \in Nat
    PROVE  LET v == NewWake(e, plain, k)
           IN  /\ v \in Wake
               /\ v.plain = plain /\ v.cont = k /\ v.msgs = <<e>> /\ v.queued = << >>
               /\ v.claim = "none" /\ ~v.lease /\ v.attempts = 0 /\ ~v.lapsed
               /\ ~v.delivered /\ ~v.acked /\ v.blocked = "no" /\ v.turns = 0
               /\ ~v.rebatched
<1>1. <<e>> \in Seq(Events) /\ << >> \in Seq(Events)
  OBVIOUS
<1>2. 0 \in 0..MaxAttempts
  BY WakeAssumption DEF WakeAssumption
<1> QED BY <1>1, <1>2 DEF NewWake, Wake

\* An event that coalesces joins the batch, or the queue behind it.
LEMMA CoalescedEffect ==
    ASSUME NEW w \in Wake, NEW e \in Events
    PROVE  LET v == Coalesced(w, e)
           IN  /\ v \in Wake /\ SameClaim(v, w) /\ SameCourse(v, w)
               /\ v.plain = w.plain /\ v.cont = w.cont /\ v.rebatched = w.rebatched
               /\ \/ MayMerge(w) /\ v.msgs = Append(w.msgs, e) /\ v.queued = w.queued
                  \/ ~MayMerge(w) /\ v.msgs = w.msgs /\ v.queued = Append(w.queued, e)
<1>1. Append(w.msgs, e) \in Seq(Events) /\ Append(w.queued, e) \in Seq(Events)
  BY WakeFields
<1>2. CASE MayMerge(w)
  BY <1>1, <1>2 DEF Coalesced, Wake, SameClaim, SameCourse
<1>3. CASE ~MayMerge(w)
  BY <1>1, <1>3 DEF Coalesced, Wake, SameClaim, SameCourse
<1> QED BY <1>2, <1>3

\* A claim gives the wake its carrier and a lease, and uses an attempt up.
LEMMA ClaimedEffect ==
    ASSUME NEW w \in Wake, NEW carrier \in {"x", "direct"},
           ~w.plain => w.attempts < MaxAttempts
    PROVE  LET v == Claimed(w, carrier)
           IN  /\ v \in Wake /\ SameBatch(v, w) /\ SameCourse(v, w)
               /\ v.claim = carrier /\ v.lease /\ v.lapsed = w.lapsed
               /\ v.attempts = IF w.plain THEN w.attempts ELSE w.attempts + 1
<1>1. ~w.plain => w.attempts + 1 \in 0..MaxAttempts
  BY WakeFields, WakeAssumption DEF WakeAssumption
<1>2. CASE w.plain
  BY <1>2 DEF Claimed, Wake, SameBatch, SameCourse
<1>3. CASE ~w.plain
  BY <1>1, <1>3 DEF Claimed, Wake, SameBatch, SameCourse
<1> QED BY <1>2, <1>3

\* A delivered wake has lost its claim.
LEMMA DeliveredEffect ==
    ASSUME NEW w \in Wake
    PROVE  LET v == Delivered(w)
           IN  /\ v \in Wake /\ SameBatch(v, w)
               /\ v.claim = "none" /\ ~v.lease
               /\ v.attempts = w.attempts /\ v.lapsed = w.lapsed
               /\ v.delivered /\ v.acked = w.acked
               /\ v.blocked = w.blocked /\ v.turns = w.turns
  BY DEF Delivered, Wake, SameBatch

\* The wake made of a queue is a new one that holds the queue.
LEMMA PromotedEffect ==
    ASSUME NEW w \in Wake, conts \in Nat
    PROVE  LET v == Promoted(w)
           IN  \/ w.queued = << >> /\ v = NoWake
               \/ /\ w.queued # << >> /\ v \in Wake
                  /\ ~v.plain /\ v.cont = conts + 1
                  /\ v.msgs = w.queued /\ v.queued = << >>
                  /\ v.claim = "none" /\ ~v.lease /\ v.attempts = 0 /\ ~v.lapsed
                  /\ ~v.delivered /\ ~v.acked /\ v.blocked = "no" /\ v.turns = 0
                  /\ v.rebatched
<1>1. CASE w.queued = << >>
  BY <1>1 DEF Promoted
<1>2. CASE w.queued # << >>
  <2>1. w.queued \in Seq(Events) /\ w.queued[1] \in Events
    BY <1>2, WakeFields
  <2> DEFINE n == NewWake(w.queued[1], FALSE, conts + 1)
             v == [n EXCEPT !.msgs = w.queued, !.rebatched = TRUE]
  <2>2. /\ n \in Wake
        /\ ~n.plain /\ n.cont = conts + 1 /\ n.queued = << >>
        /\ n.claim = "none" /\ ~n.lease /\ n.attempts = 0 /\ ~n.lapsed
        /\ ~n.delivered /\ ~n.acked /\ n.blocked = "no" /\ n.turns = 0
    <3>1. conts + 1 \in Nat /\ FALSE \in BOOLEAN
      OBVIOUS
    <3>2. /\ n \in Wake
          /\ n.plain = FALSE /\ n.cont = conts + 1 /\ n.msgs = <<w.queued[1]>> /\ n.queued = << >>
          /\ n.claim = "none" /\ ~n.lease /\ n.attempts = 0 /\ ~n.lapsed
          /\ ~n.delivered /\ ~n.acked /\ n.blocked = "no" /\ n.turns = 0 /\ ~n.rebatched
      BY ONLY <2>1, <3>1, NewWakeEffect, Zenon
    <3> HIDE DEF n
    <3> QED BY ONLY <3>2
  <2>3. Promoted(w) = v
    BY <1>2 DEF Promoted
  <2> HIDE DEF n
  <2>4. /\ v \in Wake
        /\ v.plain = n.plain /\ v.cont = n.cont /\ v.msgs = w.queued /\ v.queued = n.queued
        /\ v.claim = n.claim /\ v.lease = n.lease /\ v.attempts = n.attempts
        /\ v.lapsed = n.lapsed /\ v.delivered = n.delivered /\ v.acked = n.acked
        /\ v.blocked = n.blocked /\ v.turns = n.turns /\ v.rebatched
    BY <2>1, <2>2 DEF Wake
  <2> QED BY <1>2, <2>2, <2>3, <2>4
<1> QED BY <1>1, <1>2

\* A flight that is over carries nothing.
LEMMA IdleEffect ==
    /\ Idle.phase = "idle" /\ Idle.ch = NoWake /\ Idle.cont = 0 /\ Idle.msgs = << >>
    /\ \A phases : "idle" \in phases => Idle \in Flight(phases)
  BY DEF Idle, Flight

\* The fields of a flight have their types.
LEMMA FlightFields ==
    ASSUME NEW phases, NEW f \in Flight(phases)
    PROVE  /\ f.phase \in phases /\ f.ch \in Channels \cup {NoWake}
           /\ f.cont \in Nat /\ f.msgs \in Seq(Events)
  BY DEF Flight

\* A flight with another phase carries what it carried.
LEMMA PhaseEffect ==
    ASSUME NEW phases, NEW f \in Flight(phases), NEW p \in phases
    PROVE  LET g == [f EXCEPT !.phase = p]
           IN  /\ g \in Flight(phases) /\ g.phase = p
               /\ g.ch = f.ch /\ g.cont = f.cont /\ g.msgs = f.msgs
  BY DEF Flight

\* A mark on a wake is read by no carrier.
LEMMA MarkEffect ==
    ASSUME NEW w \in Wake, NEW v,
           \/ v = [w EXCEPT !.old = TRUE]
           \/ v = [w EXCEPT !.notified = TRUE]
    PROVE  v \in Wake /\ SameBatch(v, w) /\ SameClaim(v, w) /\ SameCourse(v, w)
<1>1. CASE v = [w EXCEPT !.old = TRUE]
  BY <1>1 DEF Wake, SameBatch, SameClaim, SameCourse
<1>2. CASE v = [w EXCEPT !.notified = TRUE]
  BY <1>2 DEF Wake, SameBatch, SameClaim, SameCourse
<1> QED BY <1>1, <1>2

\* The claim of a carrier that died is nobody's.
LEMMA OrphanEffect ==
    ASSUME NEW w \in Wake, NEW v, v = [w EXCEPT !.claim = "orphan"]
    PROVE  /\ v \in Wake /\ SameBatch(v, w) /\ SameCourse(v, w)
           /\ v.claim = "orphan" /\ v.lease = w.lease
           /\ v.attempts = w.attempts /\ v.lapsed = w.lapsed
  BY DEF Wake, SameBatch, SameCourse

\* A block is set, or released together with the notice of it.
LEMMA BlockEffect ==
    ASSUME NEW w \in Wake, NEW v, NEW b \in Blocks,
           \/ v = [w EXCEPT !.blocked = b]
           \/ v = [w EXCEPT !.blocked = b, !.notified = FALSE]
    PROVE  /\ v \in Wake /\ SameBatch(v, w) /\ SameClaim(v, w)
           /\ v.delivered = w.delivered /\ v.acked = w.acked
           /\ v.blocked = b /\ v.turns = w.turns
<1>1. CASE v = [w EXCEPT !.blocked = b]
  BY <1>1 DEF Wake, Blocks, SameBatch, SameClaim
<1>2. CASE v = [w EXCEPT !.blocked = b, !.notified = FALSE]
  BY <1>2 DEF Wake, Blocks, SameBatch, SameClaim
<1> QED BY <1>1, <1>2

\* A lease ends without the claim.
LEMMA LapseEffect ==
    ASSUME NEW w \in Wake, NEW v, v = [w EXCEPT !.lease = FALSE, !.lapsed = TRUE]
    PROVE  /\ v \in Wake /\ SameBatch(v, w) /\ SameCourse(v, w)
           /\ v.claim = w.claim /\ ~v.lease
           /\ v.attempts = w.attempts /\ v.lapsed
  BY DEF Wake, SameBatch, SameCourse

\* The model's acknowledgment empties the queue it was shown.
LEMMA AckEffect ==
    ASSUME NEW w \in Wake, NEW v, v = [w EXCEPT !.acked = TRUE, !.queued = << >>]
    PROVE  /\ v \in Wake /\ SameClaim(v, w)
           /\ v.plain = w.plain /\ v.cont = w.cont /\ v.msgs = w.msgs
           /\ v.queued = << >> /\ v.rebatched = w.rebatched
           /\ v.delivered = w.delivered /\ v.acked
           /\ v.blocked = w.blocked /\ v.turns = w.turns
<1>1. << >> \in Seq(Events)
  OBVIOUS
<1> QED BY <1>1 DEF Wake, SameClaim

\* A turn counts, and may leave a receipt.
LEMMA TurnEffect ==
    ASSUME NEW w \in Wake, NEW v, NEW r \in BOOLEAN,
           v = [w EXCEPT !.turns = @ + 1, !.receipt = @ \/ r]
    PROVE  /\ v \in Wake /\ SameBatch(v, w) /\ SameClaim(v, w)
           /\ v.delivered = w.delivered /\ v.acked = w.acked
           /\ v.blocked = w.blocked /\ v.turns = w.turns + 1
<1>1. w.turns + 1 \in Nat /\ (w.receipt \/ r) \in BOOLEAN
  BY DEF Wake
<1> QED BY <1>1 DEF Wake, SameBatch, SameClaim

\* A turn counts for the wake of its chat that has its name, and for no other.
LEMMA WithTurnEffect ==
    ASSUME NEW p \in [Channels -> Wake \cup {NoWake}], NEW c \in Channels,
           NEW k \in Nat, NEW r \in BOOLEAN
    PROVE  LET q == WithTurn(p, c, k, r)
           IN  /\ q \in [Channels -> Wake \cup {NoWake}]
               /\ \A d \in Channels \ {c} : q[d] = p[d]
               /\ \/ ~(p[c] # NoWake /\ k # 0 /\ p[c].cont = k) /\ q[c] = p[c]
                  \/ /\ p[c] # NoWake /\ k # 0 /\ p[c].cont = k
                     /\ q[c] \in Wake /\ SameBatch(q[c], p[c]) /\ SameClaim(q[c], p[c])
                     /\ q[c].delivered = p[c].delivered /\ q[c].acked = p[c].acked
                     /\ q[c].blocked = p[c].blocked /\ q[c].turns = p[c].turns + 1
<1> DEFINE q == WithTurn(p, c, k, r)
<1>1. CASE ~(p[c] # NoWake /\ k # 0 /\ p[c].cont = k)
  BY <1>1 DEF WithTurn
<1>2. CASE p[c] # NoWake /\ k # 0 /\ p[c].cont = k
  <2> DEFINE v == [p[c] EXCEPT !.turns = @ + 1, !.receipt = @ \/ r]
  <2>1. p[c] \in Wake
    BY <1>2
  <2>2. q = [p EXCEPT ![c] = v]
    BY <1>2, <2>1 DEF WithTurn, Wake
  <2>3. /\ v \in Wake /\ SameBatch(v, p[c]) /\ SameClaim(v, p[c])
        /\ v.delivered = p[c].delivered /\ v.acked = p[c].acked
        /\ v.blocked = p[c].blocked /\ v.turns = p[c].turns + 1
    BY <2>1, TurnEffect
  <2> HIDE DEF v, q
  <2>4. q \in [Channels -> Wake \cup {NoWake}] /\ q[c] = v /\ \A d \in Channels \ {c} : q[d] = p[d]
    BY <2>2, <2>3
  <2> QED BY <1>2, <2>3, <2>4 DEF q
<1> QED BY <1>1, <1>2

\* What a batch contains when an event joins it.
LEMMA ContentsFacts ==
    /\ Contents(<< >>) = {}
    /\ \A e : Contents(<<e>>) = {e}
    /\ \A s \in Seq(Events) : Contents(s) \subseteq Events
    /\ \A s \in Seq(Events), e \in Events : \A t : t = Append(s, e) =>
          Contents(t) = Contents(s) \cup {e} /\ Len(t) = Len(s) + 1
<1>1. Contents(<< >>) = {} /\ \A e : Contents(<<e>>) = {e}
  BY DEF Contents
<1>2. ASSUME NEW s \in Seq(Events), NEW e \in Events
      PROVE  /\ Contents(Append(s, e)) = Contents(s) \cup {e}
             /\ Len(Append(s, e)) = Len(s) + 1
  <2> DEFINE t == Append(s, e)
  <2>1. /\ t \in Seq(Events) /\ Len(t) = Len(s) + 1 /\ t[Len(s) + 1] = e
        /\ \A i \in 1..Len(s) : t[i] = s[i]
        /\ DOMAIN s = 1..Len(s) /\ DOMAIN t = 1..(Len(s) + 1) /\ Len(s) \in Nat
    OBVIOUS
  <2> HIDE DEF t
  <2>2. Contents(t) = Contents(s) \cup {e}
    BY <2>1 DEF Contents
  <2> QED BY <2>1, <2>2 DEF t
<1>3. \A s \in Seq(Events) : Contents(s) \subseteq Events
  BY DEF Contents
<1> QED BY <1>1, <1>2, <1>3

-----------------------------------------------------------------------------
(* The steps. *)

\* The direct flight, after its claim, is of this chat.
Carries(c) == direct.phase \in {"claimed", "submitted"} /\ direct.ch = c

\* A wake of which nothing changes that a carrier reads still fits, whatever
\* happens to the flights that do not carry it.
LEMMA Undisturbed ==
    ASSUME IInv, NEW c \in Channels, Present(c), pending'[c] \in Wake,
           SameBatch(pending'[c], pending[c]), SameClaim(pending'[c], pending[c]),
           SameCourse(pending'[c], pending[c]),
           widget'[c] = widget[c] \/ (~XRuns(c) /\ ~XRuns(c)' /\ pending[c].claim # "x"),
           \/ direct' = direct
           \/ ~DRuns(c) /\ ~DRuns(c)' /\ (pending[c].claim = "direct" => pending[c].cont = 0),
           conts' \in Nat, conts <= conts', armed \subseteq armed', shown \subseteq shown',
           \A e \in givenUp' \ givenUp : e \notin Held(pending[c])
    PROVE  WakeFits(c)'
<1> USE DEF SameBatch, SameClaim, SameCourse, Present
<1>0. WakeFits(c) /\ pending[c] \in Wake /\ conts \in Nat
  BY DEF IInv, TypeOK
<1>1. NamesFit(c)'
  BY <1>0, WakeFields DEF WakeFits, NamesFit
<1>2. XRuns(c)' => XRuns(c) /\ widget'[c] = widget[c]
  BY DEF XRuns
<1>3. DRuns(c)' => DRuns(c) /\ direct' = direct
  BY DEF DRuns
<1>4. ClaimsFit(c)'
  BY <1>0, <1>2, <1>3 DEF WakeFits, ClaimsFit
<1>5. XAhead(c)' => XAhead(c)
  BY <1>2 DEF XAhead
<1>6. DAhead(c)' => DAhead(c)
  BY <1>3 DEF DAhead
<1>7. TurnsPaid(c)'
  BY <1>0, <1>5, <1>6, WakeFields DEF WakeFits, TurnsPaid
<1>8. OneTurn(c)'
  BY <1>0, <1>5, <1>6 DEF WakeFits, OneTurn
<1>9. HeldOnce(c)'
  BY <1>0 DEF WakeFits, HeldOnce, Held
<1>10. TurnsSeen(c)'
  BY <1>0 DEF WakeFits, TurnsSeen
<1> QED BY <1>1, <1>4, <1>7, <1>8, <1>9, <1>10 DEF WakeFits

\* In particular when it is left alone.
LEMMA LeftAlone ==
    ASSUME IInv, NEW c \in Channels, Present(c)', pending'[c] = pending[c],
           widget'[c] = widget[c] \/ (~XRuns(c) /\ ~XRuns(c)' /\ pending[c].claim # "x"),
           \/ direct' = direct
           \/ ~DRuns(c) /\ ~DRuns(c)' /\ (pending[c].claim = "direct" => pending[c].cont = 0),
           conts' \in Nat, conts <= conts', armed \subseteq armed', shown \subseteq shown',
           \A e \in givenUp' \ givenUp : e \notin Held(pending[c])
    PROVE  WakeFits(c)'
<1>1. pending'[c] \in Wake /\ Present(c)
  BY DEF IInv, TypeOK, Present
<1>2. /\ SameBatch(pending'[c], pending[c]) /\ SameClaim(pending'[c], pending[c])
      /\ SameCourse(pending'[c], pending[c])
  BY DEF SameBatch, SameClaim, SameCourse
<1> QED BY <1>1, <1>2, Undisturbed

\* What an invariant state says of every wake and flight.
LEMMA State ==
    ASSUME IInv
    PROVE  /\ pending \in [Channels -> Wake \cup {NoWake}]
           /\ conts \in Nat
           /\ direct.phase \in {"idle", "probing", "reprobing", "claimed", "submitted"}
           /\ direct.cont \in Nat /\ direct.msgs \in Seq(Events)
           /\ \A c \in Channels :
                /\ widget[c].phase \in {"idle", "claimed", "submitted"}
                /\ widget[c].cont \in Nat /\ widget[c].msgs \in Seq(Events)
                /\ Present(c) => pending[c] \in Wake
  BY FlightFields DEF IInv, TypeOK, Present

\* One wake changes: the types hold if it becomes a wake or none.
LEMMA OneWake ==
    ASSUME IInv, NEW c \in Channels, NEW v \in Wake \cup {NoWake},
           pending' = [pending EXCEPT ![c] = v]
    PROVE  /\ pending' \in [Channels -> Wake \cup {NoWake}]
           /\ pending'[c] = v /\ \A d \in Channels \ {c} : pending'[d] = pending[d]
  BY State

LEMMA ArmKeeps ==
    ASSUME IInv, NEW e \in Events, Arm(e)
    PROVE  IInv'
<1> DEFINE c == Home[e]
           w == pending[c]
<1>1. /\ c \in Channels /\ e \notin armed /\ armed' = armed \cup {e}
      /\ UNCHANGED <<direct, widget, noticing, shown>>
  BY WakeAssumption DEF WakeAssumption, Arm
<1>2. CASE /\ Present(c) /\ ~w.plain
           /\ pending' = [pending EXCEPT ![c] = Coalesced(w, e)]
           /\ UNCHANGED <<conts, givenUp>>
  <2> DEFINE v == Coalesced(w, e)
  <2>1. w \in Wake /\ WakeFits(c)
    BY <1>1, <1>2, State DEF IInv
  <2>2. /\ v \in Wake /\ SameClaim(v, w) /\ SameCourse(v, w)
        /\ v.plain = w.plain /\ v.cont = w.cont /\ v.rebatched = w.rebatched
        /\ \/ MayMerge(w) /\ v.msgs = Append(w.msgs, e) /\ v.queued = w.queued
           \/ ~MayMerge(w) /\ v.msgs = w.msgs /\ v.queued = Append(w.queued, e)
    BY <2>1, CoalescedEffect
  <2> HIDE DEF v
  <2>3. /\ pending' \in [Channels -> Wake \cup {NoWake}]
        /\ pending'[c] = v /\ \A d \in Channels \ {c} : pending'[d] = pending[d]
    BY <1>1, <1>2, <2>2, OneWake DEF v
  <2>4. TypeOK'
    BY <1>1, <1>2, <2>3 DEF IInv, TypeOK
  <2>5. FlightsFit'
    BY <1>1, <1>2 DEF IInv, FlightsFit
  <2>6. ASSUME NEW d \in Channels \ {c}, Present(d)'
        PROVE  WakeFits(d)'
    BY <1>1, <1>2, <2>3, <2>6, State, LeftAlone
  <2>7. w.msgs \in Seq(Events) /\ w.queued \in Seq(Events) /\ w.attempts \in Nat /\ w.turns \in Nat
    BY <2>1, WakeFields
  <2>8. NamesFit(c)'
    BY <1>2, <2>1, <2>2, <2>3, <2>7, ContentsFacts, WakeAssumption
    DEF WakeFits, NamesFit, MayMerge, WakeAssumption
  <2>9. MayMerge(w) => ~XRuns(c) /\ ~DRuns(c) /\ w.claim = "none"
    BY <2>1 DEF WakeFits, ClaimsFit, MayMerge
  <2>10. (XRuns(c)' <=> XRuns(c)) /\ (DRuns(c)' <=> DRuns(c))
    BY <1>1, <2>2, <2>3 DEF XRuns, DRuns
  <2>11. (XAhead(c)' <=> XAhead(c)) /\ (DAhead(c)' <=> DAhead(c))
    BY <1>1, <2>10 DEF XAhead, DAhead
  <2>12. ClaimsFit(c)'
    BY <1>1, <2>1, <2>2, <2>3, <2>9, <2>10 DEF WakeFits, ClaimsFit, SameClaim
  <2>13. TurnsPaid(c)' /\ OneTurn(c)'
    BY <2>1, <2>2, <2>3, <2>11 DEF WakeFits, TurnsPaid, OneTurn, SameClaim, SameCourse
  <2>14. HeldOnce(c)'
    <3>1. Contents(w.msgs) \cap Contents(w.queued) = {} /\ e \notin Held(w)
      BY <1>1, <2>1 DEF WakeFits, HeldOnce
    <3>2. /\ Held(v) = Held(w) \cup {e}
          /\ Contents(v.msgs) \cap Contents(v.queued) = {}
      <4>1. CASE MayMerge(w)
        <5>1. Contents(v.msgs) = Contents(w.msgs) \cup {e} /\ v.queued = w.queued
          BY <2>2, <2>7, <4>1, ContentsFacts
        <5> QED BY <3>1, <5>1 DEF Held
      <4>2. CASE ~MayMerge(w)
        <5>1. Contents(v.queued) = Contents(w.queued) \cup {e} /\ v.msgs = w.msgs
          BY <2>2, <2>7, <4>2, ContentsFacts
        <5> QED BY <3>1, <5>1 DEF Held
      <4> QED BY <4>1, <4>2
    <3>3. e \notin givenUp'
      BY <1>1, <1>2 DEF IInv, FlightsFit
    <3> QED BY <1>1, <1>2, <2>1, <2>3, <3>2, <3>3 DEF WakeFits, HeldOnce
  <2>15. TurnsSeen(c)'
    <3>1. CASE MayMerge(w)
      <4>1. w.turns = 0 /\ ~w.acked
        BY <2>1, <2>7, <3>1 DEF WakeFits, TurnsPaid, MayMerge
      <4> QED BY <2>2, <2>3, <4>1 DEF TurnsSeen, SameCourse
    <3>2. CASE ~MayMerge(w)
      BY <1>1, <2>1, <2>2, <2>3, <3>2 DEF WakeFits, TurnsSeen, SameCourse
    <3> QED BY <3>1, <3>2
  <2> QED BY <2>4, <2>5, <2>6, <2>8, <2>12, <2>13, <2>14, <2>15 DEF IInv, WakeFits
<1>3. CASE /\ Present(c) => w.plain /\ ~Leased(w)
           /\ conts' = IF e \in Plain THEN conts ELSE conts + 1
           /\ pending' = [pending EXCEPT ![c] =
                 NewWake(e, e \in Plain, IF e \in Plain THEN 0 ELSE conts + 1)]
           /\ givenUp' = IF Present(c) THEN givenUp \cup (Held(w) \ shown) ELSE givenUp
  <2> DEFINE k == IF e \in Plain THEN 0 ELSE conts + 1
             v == NewWake(e, e \in Plain, k)
  <2>1. k \in Nat /\ conts \in Nat /\ (e \in Plain) \in BOOLEAN
    BY State
  <2>2. /\ v \in Wake
        /\ v.plain = (e \in Plain) /\ v.cont = k /\ v.msgs = <<e>> /\ v.queued = << >>
        /\ v.claim = "none" /\ ~v.lease /\ v.attempts = 0 /\ ~v.lapsed
        /\ ~v.delivered /\ ~v.acked /\ v.blocked = "no" /\ v.turns = 0 /\ ~v.rebatched
    <3> DEFINE b == e \in Plain
    <3>1. b \in BOOLEAN /\ k \in Nat /\ e \in Events
      BY <2>1
    <3> HIDE DEF k, b
    <3>2. LET x == NewWake(e, b, k)
          IN  /\ x \in Wake
              /\ x.plain = b /\ x.cont = k /\ x.msgs = <<e>> /\ x.queued = << >>
              /\ x.claim = "none" /\ ~x.lease /\ x.attempts = 0 /\ ~x.lapsed
              /\ ~x.delivered /\ ~x.acked /\ x.blocked = "no" /\ x.turns = 0 /\ ~x.rebatched
      BY ONLY <3>1, NewWakeEffect, ZenonT(30)
    <3> QED BY ONLY <3>2 DEF b
  <2>3. pending' = [pending EXCEPT ![c] = v]
    BY <1>3
  <2> HIDE DEF v
  <2>4. /\ pending' \in [Channels -> Wake \cup {NoWake}]
        /\ pending'[c] = v /\ \A d \in Channels \ {c} : pending'[d] = pending[d]
    BY <1>1, <2>2, <2>3, OneWake
  <2>5. conts' \in Nat /\ conts <= conts'
    BY <1>3, <2>1
  <2>6. Present(c) => w \in Wake /\ WakeFits(c) /\ Held(w) \subseteq Events /\ Held(w) \subseteq armed
    <3> SUFFICES ASSUME Present(c)
                 PROVE  w \in Wake /\ WakeFits(c) /\ Held(w) \subseteq Events /\ Held(w) \subseteq armed
      OBVIOUS
    <3>1. w \in Wake /\ WakeFits(c)
      BY <1>1, State DEF IInv
    <3>2. w.msgs \in Seq(Events) /\ w.queued \in Seq(Events)
      BY <3>1, WakeFields
    <3> QED BY <3>1, <3>2, ContentsFacts DEF Held, WakeFits, HeldOnce, Contents
  <2>7. givenUp' \subseteq armed /\ givenUp' \subseteq Events
    BY <1>3, <2>6 DEF IInv, TypeOK, FlightsFit
  <2>8. TypeOK'
    BY <1>1, <2>4, <2>5, <2>7 DEF IInv, TypeOK
  <2>9. FlightsFit'
    BY <1>1, <2>5, <2>7, State DEF IInv, FlightsFit
  <2>10. ASSUME NEW d \in Channels \ {c}, Present(d)'
         PROVE  WakeFits(d)'
    <3>1. Present(d) /\ WakeFits(d)
      BY <2>4, <2>10 DEF Present, IInv
    <3>2. \A x \in givenUp' \ givenUp : x \notin Held(pending[d])
      BY <1>3, <2>6, <3>1 DEF WakeFits, HeldOnce
    <3> QED BY <1>1, <2>4, <2>5, <2>10, <3>2, LeftAlone
  <2>11. ~XRuns(c)' /\ ~DRuns(c)'
    BY <1>1, <1>3, <2>2, <2>4, State DEF XRuns, DRuns, IInv, FlightsFit
  <2>12. NamesFit(c)'
    <3>1. Len(<<e>>) = 1 /\ 1 <= Visible
      BY WakeAssumption DEF WakeAssumption
    <3>2. (v.plain <=> v.cont = 0) /\ v.cont <= conts' /\ Len(v.msgs) <= Visible
      <4>1. v.plain <=> e \in Plain
        BY <2>2, Zenon
      <4>2. v.cont = k /\ v.msgs = <<e>>
        BY <2>2
      <4> QED BY <1>3, <2>1, <3>1, <4>1, <4>2
    <3> QED BY <2>2, <2>4, <3>2 DEF NamesFit
  <2>13. ClaimsFit(c)' /\ TurnsPaid(c)' /\ OneTurn(c)' /\ TurnsSeen(c)'
    BY <2>2, <2>4, <2>11 DEF ClaimsFit, TurnsPaid, OneTurn, TurnsSeen, XAhead, DAhead
  <2>14. e \notin givenUp'
    BY <1>1, <1>3, <2>6 DEF IInv, FlightsFit
  <2>15. HeldOnce(c)'
    <3>1. Contents(v.msgs) = {e} /\ Contents(v.queued) = {}
      BY <2>2, ContentsFacts
    <3> QED BY <1>1, <2>4, <2>14, <3>1 DEF HeldOnce, Held
  <2> QED BY <2>8, <2>9, <2>10, <2>12, <2>13, <2>15 DEF IInv, WakeFits
<1> QED BY <1>2, <1>3 DEF Arm

\* What the owner gives up is of one wake.
LEMMA CancelPendingKeeps ==
    ASSUME IInv, NEW c \in Channels, CancelPending(c)
    PROVE  IInv'
<1> DEFINE w == pending[c]
<1>1. /\ Present(c) /\ pending' = [pending EXCEPT ![c] = NoWake]
      /\ givenUp' = givenUp \cup (Held(w) \ shown)
      /\ UNCHANGED <<direct, widget, noticing, conts, armed, shown>>
  BY DEF CancelPending
<1>2. w \in Wake /\ WakeFits(c) /\ conts \in Nat
  BY <1>1, State DEF IInv
<1>3. Held(w) \subseteq Events /\ Held(w) \subseteq armed
  BY <1>2, WakeFields, ContentsFacts DEF Held, WakeFits, HeldOnce
<1>4. /\ pending' \in [Channels -> Wake \cup {NoWake}]
      /\ pending'[c] = NoWake /\ \A d \in Channels \ {c} : pending'[d] = pending[d]
  BY <1>1, OneWake
<1>5. TypeOK' /\ FlightsFit'
  BY <1>1, <1>3, <1>4 DEF IInv, TypeOK, FlightsFit
<1>6. ASSUME NEW d \in Channels, Present(d)'
      PROVE  WakeFits(d)'
  <2>1. d # c /\ Present(d) /\ WakeFits(d)
    BY <1>4, <1>6 DEF Present, IInv
  <2>2. \A x \in givenUp' \ givenUp : x \notin Held(pending[d])
    BY <1>1, <1>2, <2>1 DEF WakeFits, HeldOnce
  <2> QED BY <1>1, <1>2, <1>4, <1>6, <2>1, <2>2, LeftAlone
<1> QED BY <1>5, <1>6 DEF IInv

\* A wake that makes room for its queue leaves one that no flight carries.
LEMMA PromoteFits ==
    ASSUME IInv, NEW c \in Channels, Present(c), Promote(c, pending[c]), UNCHANGED history,
           widget'[c].cont <= conts, direct'.cont <= conts
    PROVE  /\ pending' \in [Channels -> Wake \cup {NoWake}] /\ conts' \in Nat /\ conts <= conts'
           /\ \A d \in Channels \ {c} : pending'[d] = pending[d]
           /\ Present(c)' => WakeFits(c)'
<1> DEFINE w == pending[c]
           v == Promoted(w)
<1>1. w \in Wake /\ WakeFits(c) /\ conts \in Nat
  BY State DEF IInv
<1>2. \/ w.queued = << >> /\ v = NoWake
      \/ /\ w.queued # << >> /\ v \in Wake
         /\ ~v.plain /\ v.cont = conts + 1
         /\ v.msgs = w.queued /\ v.queued = << >>
         /\ v.claim = "none" /\ ~v.lease /\ v.attempts = 0 /\ ~v.lapsed
         /\ ~v.delivered /\ ~v.acked /\ v.blocked = "no" /\ v.turns = 0
         /\ v.rebatched
  BY <1>1, PromotedEffect
<1>3. /\ pending' = [pending EXCEPT ![c] = v]
      /\ conts' = IF w.queued = << >> THEN conts ELSE conts + 1
  BY DEF Promote
<1> HIDE DEF v
<1>4. /\ pending' \in [Channels -> Wake \cup {NoWake}]
      /\ pending'[c] = v /\ \A d \in Channels \ {c} : pending'[d] = pending[d]
  BY <1>2, <1>3, OneWake
<1>5. conts' \in Nat /\ conts <= conts'
  BY <1>1, <1>3
<1>6. ASSUME Present(c)'
      PROVE  WakeFits(c)'
  <2>1. /\ w.queued # << >> /\ v \in Wake
        /\ ~v.plain /\ v.cont = conts + 1
        /\ v.msgs = w.queued /\ v.queued = << >>
        /\ v.claim = "none" /\ v.attempts = 0 /\ ~v.lapsed
        /\ ~v.acked /\ v.turns = 0 /\ v.rebatched
    BY <1>2, <1>4, <1>6 DEF Present
  <2>2. v.cont = conts' /\ v.cont # 0
    BY <1>1, <1>3, <2>1
  <2>3. ~XRuns(c)' /\ ~DRuns(c)'
    BY <1>1, <1>4, <2>1 DEF XRuns, DRuns
  <2>4. NamesFit(c)'
    BY <1>4, <1>5, <2>1, <2>2 DEF NamesFit
  <2>5. ClaimsFit(c)' /\ TurnsPaid(c)' /\ OneTurn(c)' /\ TurnsSeen(c)'
    BY <1>4, <2>1, <2>3 DEF ClaimsFit, TurnsPaid, OneTurn, TurnsSeen, XAhead, DAhead
  <2>6. HeldOnce(c)'
    <3>1. Contents(v.queued) = {}
      BY <2>1, ContentsFacts
    <3>2. Held(v) \subseteq Held(w)
      BY <2>1, <3>1 DEF Held
    <3> QED BY <1>1, <1>4, <3>1, <3>2 DEF WakeFits, HeldOnce, history
  <2> QED BY <2>4, <2>5, <2>6 DEF WakeFits
<1> QED BY <1>4, <1>5, <1>6

LEMMA StatusPromotesKeeps ==
    ASSUME IInv, NEW c \in Channels, StatusPromotes(c)
    PROVE  IInv'
<1>1. /\ Present(c) /\ Promote(c, pending[c])
      /\ UNCHANGED <<direct, widget, noticing, history>>
  BY DEF StatusPromotes
<1>2. widget'[c].cont <= conts /\ direct'.cont <= conts
  BY <1>1 DEF IInv, FlightsFit
<1>3. /\ pending' \in [Channels -> Wake \cup {NoWake}] /\ conts' \in Nat /\ conts <= conts'
      /\ \A d \in Channels \ {c} : pending'[d] = pending[d]
      /\ Present(c)' => WakeFits(c)'
  BY <1>1, <1>2, PromoteFits
<1>4. TypeOK'
  BY <1>1, <1>3 DEF IInv, TypeOK, history
<1>5. FlightsFit'
  BY <1>1, <1>3, State DEF IInv, FlightsFit, history
<1>6. ASSUME NEW d \in Channels \ {c}, Present(d)'
      PROVE  WakeFits(d)'
  BY <1>1, <1>3, <1>6, LeftAlone DEF history
<1> QED BY <1>3, <1>4, <1>5, <1>6 DEF IInv

XPhases == {"idle", "claimed", "submitted"}
DPhases == {"idle", "probing", "reprobing", "claimed", "submitted"}

\* A flight of the widget of one chat changes.
LEMMA OneWidget ==
    ASSUME IInv, NEW c \in Channels, NEW f \in Flight(XPhases),
           widget' = [widget EXCEPT ![c] = f]
    PROVE  /\ widget' \in [Channels -> Flight(XPhases)]
           /\ widget'[c] = f /\ \A d \in Channels \ {c} : widget'[d] = widget[d]
  BY DEF IInv, TypeOK, XPhases

\* Whoever may claim a wake finds it without a live claim, sent by nobody and
\* with an attempt left.
LEMMA MayClaimFacts ==
    ASSUME IInv, NEW c \in Channels, NEW carrier, MayClaim(c, carrier)
    PROVE  /\ Present(c) /\ pending[c] \in Wake /\ WakeFits(c)
           /\ ~pending[c].delivered /\ ~pending[c].acked /\ pending[c].blocked = "no"
           /\ ~pending[c].plain => pending[c].attempts < MaxAttempts
           /\ ~pending[c].lapsed => pending[c].claim = "none" /\ pending[c].turns = 0
<1>1. /\ Present(c) /\ ~Leased(pending[c])
      /\ ~pending[c].delivered /\ ~pending[c].acked /\ pending[c].blocked = "no"
      /\ ~pending[c].plain => pending[c].attempts < MaxAttempts
  BY DEF MayClaim
<1>2. pending[c] \in Wake /\ WakeFits(c)
  BY <1>1, State DEF IInv
<1>3. pending[c].turns \in Nat
  BY <1>2, WakeFields
<1> QED BY <1>1, <1>2, <1>3 DEF WakeFits, OneTurn, Leased

LEMMA WidgetClaimsKeeps ==
    ASSUME IInv, NEW c \in Channels, WidgetClaims(c)
    PROVE  IInv'
<1> DEFINE w == pending[c]
           v == Claimed(w, "x")
           f == [phase |-> "claimed", ch |-> c, cont |-> w.cont, msgs |-> w.msgs]
<1>1. /\ widget[c].phase = "idle" /\ MayClaim(c, "x")
      /\ pending' = [pending EXCEPT ![c] = v] /\ widget' = [widget EXCEPT ![c] = f]
      /\ UNCHANGED <<direct, noticing, conts, history>>
  BY State DEF WidgetClaims
<1>2. /\ Present(c) /\ w \in Wake /\ WakeFits(c)
      /\ ~w.delivered /\ ~w.acked /\ w.blocked = "no"
      /\ ~w.plain => w.attempts < MaxAttempts
      /\ ~w.lapsed => w.claim = "none" /\ w.turns = 0
  BY <1>1, MayClaimFacts
<1>3. w.cont \in Nat /\ w.msgs \in Seq(Events) /\ w.attempts \in Nat /\ w.turns \in Nat
  BY <1>2, WakeFields
<1>4. /\ v \in Wake /\ SameBatch(v, w) /\ SameCourse(v, w)
      /\ v.claim = "x" /\ v.lease /\ v.lapsed = w.lapsed
      /\ v.attempts = IF w.plain THEN w.attempts ELSE w.attempts + 1
  BY <1>2, ClaimedEffect
<1>5. /\ f \in Flight(XPhases) /\ f.phase = "claimed"
      /\ f.cont = w.cont /\ f.msgs = w.msgs
  BY <1>3 DEF Flight, XPhases
<1> HIDE DEF v, f
<1>6. /\ pending' \in [Channels -> Wake \cup {NoWake}]
      /\ pending'[c] = v /\ \A d \in Channels \ {c} : pending'[d] = pending[d]
  BY <1>1, <1>4, OneWake
<1>7. /\ widget' \in [Channels -> Flight(XPhases)]
      /\ widget'[c] = f /\ \A d \in Channels \ {c} : widget'[d] = widget[d]
  BY <1>1, <1>5, OneWidget
<1>8. TypeOK'
  BY <1>1, <1>6, <1>7 DEF IInv, TypeOK, history, XPhases
<1>9. FlightsFit'
  <2>1. w.cont <= conts /\ Contents(w.msgs) \subseteq armed
    BY <1>2 DEF WakeFits, NamesFit, HeldOnce, Held
  <2> QED BY <1>1, <1>5, <1>7, <2>1 DEF IInv, FlightsFit, history
<1>10. ASSUME NEW d \in Channels \ {c}, Present(d)'
       PROVE  WakeFits(d)'
  BY <1>1, <1>6, <1>7, <1>10, State, LeftAlone DEF history
<1>11. ~XRuns(c) /\ (DRuns(c)' <=> DRuns(c)) /\ (DAhead(c)' <=> DAhead(c))
  BY <1>1, <1>4, <1>6 DEF XRuns, DRuns, DAhead, SameBatch
<1>12. NamesFit(c)'
  BY <1>1, <1>2, <1>4, <1>6 DEF WakeFits, NamesFit, SameBatch
<1>13. w.cont # 0 => ~w.plain
  BY <1>2 DEF WakeFits, NamesFit
<1>14. ClaimsFit(c)'
  <2>1. XRuns(c)' => w.cont # 0
    BY <1>4, <1>6 DEF XRuns, SameBatch
  <2>2. DRuns(c) => w.cont # 0
    BY DEF DRuns
  <2> QED BY <1>1, <1>2, <1>3, <1>4, <1>5, <1>6, <1>7, <1>11, <1>13, <2>1, <2>2
          DEF WakeFits, ClaimsFit, SameBatch
<1>15. TurnsPaid(c)'
  <2>1. ~XAhead(c) /\ (XAhead(c)' => ~w.plain)
    BY <1>4, <1>6, <1>11, <1>13 DEF XAhead, XRuns, SameBatch
  <2> QED BY <1>2, <1>3, <1>4, <1>6, <1>11, <2>1 DEF WakeFits, TurnsPaid, SameBatch, SameCourse
<1>16. OneTurn(c)'
  <2>1. ~w.lapsed => ~DAhead(c)
    BY <1>2 DEF WakeFits, OneTurn
  <2> QED BY <1>2, <1>4, <1>6, <1>11, <2>1 DEF OneTurn, SameCourse
<1>17. HeldOnce(c)' /\ TurnsSeen(c)'
  BY <1>1, <1>2, <1>4, <1>6 DEF WakeFits, HeldOnce, Held, TurnsSeen, SameBatch, SameCourse, history
<1> QED BY <1>8, <1>9, <1>10, <1>12, <1>14, <1>15, <1>16, <1>17 DEF IInv, WakeFits

LEMMA WidgetSubmitsKeeps ==
    ASSUME IInv, NEW c \in Channels, WidgetSubmits(c)
    PROVE  IInv'
<1> DEFINE w == pending[c]
           v == pending'[c]
           f == [widget[c] EXCEPT !.phase = "submitted"]
<1>0. PICK r \in BOOLEAN : pending' = WithTurn(pending, c, widget[c].cont, r)
  BY Zenon DEF WidgetSubmits
<1>1. /\ widget[c].phase = "claimed"
      /\ shown' = shown \cup Contents(widget[c].msgs)
      /\ widget' = [widget EXCEPT ![c] = f]
      /\ UNCHANGED <<direct, noticing, conts, armed, givenUp>>
  BY DEF WidgetSubmits
<1>2. widget[c] \in Flight(XPhases) /\ widget[c].cont \in Nat /\ widget[c].msgs \in Seq(Events)
  BY State DEF IInv, TypeOK, XPhases
<1>3. /\ f \in Flight(XPhases) /\ f.phase = "submitted"
      /\ f.cont = widget[c].cont /\ f.msgs = widget[c].msgs
  <2>1. "submitted" \in XPhases
    BY DEF XPhases
  <2> QED BY <1>2, <2>1, PhaseEffect
<1> HIDE DEF f
<1>4. /\ widget' \in [Channels -> Flight(XPhases)]
      /\ widget'[c] = f /\ \A d \in Channels \ {c} : widget'[d] = widget[d]
  BY <1>1, <1>3, OneWidget
<1>5. /\ pending' \in [Channels -> Wake \cup {NoWake}]
      /\ \A d \in Channels \ {c} : pending'[d] = pending[d]
      /\ \/ ~(w # NoWake /\ widget[c].cont # 0 /\ w.cont = widget[c].cont) /\ v = w
         \/ /\ w # NoWake /\ widget[c].cont # 0 /\ w.cont = widget[c].cont
            /\ v \in Wake /\ SameBatch(v, w) /\ SameClaim(v, w)
            /\ v.delivered = w.delivered /\ v.acked = w.acked
            /\ v.blocked = w.blocked /\ v.turns = w.turns + 1
  BY <1>0, <1>2, State, WithTurnEffect
<1>6. Contents(widget[c].msgs) \subseteq Events /\ Contents(widget[c].msgs) \subseteq armed
  BY <1>2, ContentsFacts DEF IInv, FlightsFit
<1>7. TypeOK'
  BY <1>1, <1>4, <1>5, <1>6 DEF IInv, TypeOK, XPhases
<1>8. FlightsFit'
  BY <1>1, <1>3, <1>4, <1>6 DEF IInv, FlightsFit
<1>9. ASSUME NEW d \in Channels \ {c}, Present(d)'
      PROVE  WakeFits(d)'
  <2>1. /\ pending'[d] = pending[d] /\ widget'[d] = widget[d] /\ direct' = direct
        /\ conts' \in Nat /\ conts <= conts' /\ armed \subseteq armed' /\ shown \subseteq shown'
        /\ givenUp' \ givenUp = {}
    <3>1. pending'[d] = pending[d] /\ widget'[d] = widget[d]
      BY <1>4, <1>5
    <3> QED BY <1>1, <3>1, State
  <2> QED BY <1>9, <2>1, LeftAlone
<1>10. CASE ~(w # NoWake /\ widget[c].cont # 0 /\ w.cont = widget[c].cont) /\ v = w
  <2>1. ASSUME Present(c)'
        PROVE  WakeFits(c)'
    <3>1. Present(c)
      BY <1>10, <2>1 DEF Present
    <3>2. ~XRuns(c) /\ ~XRuns(c)'
      BY <1>3, <1>4, <1>10, <3>1 DEF XRuns, Present
    <3>3. CASE w.claim # "x"
      <4>1. /\ direct' = direct /\ conts' \in Nat /\ conts <= conts'
            /\ armed \subseteq armed' /\ shown \subseteq shown' /\ givenUp' \ givenUp = {}
        BY <1>1, State
      <4> QED BY <1>10, <2>1, <3>2, <3>3, <4>1, LeftAlone
    <3>4. CASE w.claim = "x"
      <4>1. w.cont = 0 /\ widget[c].cont = 0 /\ w \in Wake /\ WakeFits(c)
        BY <1>10, <3>1, <3>4, State DEF WakeFits, ClaimsFit, IInv, Present
      <4>2. (DRuns(c)' <=> DRuns(c)) /\ (DAhead(c)' <=> DAhead(c))
        BY <1>1, <1>10 DEF DRuns, DAhead
      <4>3. ~XAhead(c) /\ ~XAhead(c)'
        BY <3>2 DEF XAhead
      <4>4. ClaimsFit(c)'
        BY <1>1, <1>3, <1>4, <1>10, <3>2, <4>1, <4>2 DEF WakeFits, ClaimsFit
      <4>5. NamesFit(c)' /\ TurnsPaid(c)' /\ OneTurn(c)'
        BY <1>1, <1>10, <4>1, <4>2, <4>3 DEF WakeFits, NamesFit, TurnsPaid, OneTurn
      <4>6. HeldOnce(c)' /\ TurnsSeen(c)'
        BY <1>1, <1>10, <4>1 DEF WakeFits, HeldOnce, TurnsSeen
      <4> QED BY <4>4, <4>5, <4>6 DEF WakeFits
    <3> QED BY <3>3, <3>4
  <2> QED BY <1>7, <1>8, <1>9, <2>1 DEF IInv
<1>11. CASE /\ w # NoWake /\ widget[c].cont # 0 /\ w.cont = widget[c].cont
            /\ v \in Wake /\ SameBatch(v, w) /\ SameClaim(v, w)
            /\ v.delivered = w.delivered /\ v.acked = w.acked
            /\ v.blocked = w.blocked /\ v.turns = w.turns + 1
  <2>1. Present(c) /\ w \in Wake /\ WakeFits(c) /\ XAhead(c)
    BY <1>1, <1>11, State DEF Present, IInv, XAhead, XRuns
  <2>2. w.turns \in Nat /\ w.attempts \in Nat /\ w.cont \in Nat /\ w.msgs = widget[c].msgs
    BY <2>1, WakeFields DEF WakeFits, ClaimsFit, XAhead
  <2>3. ~XAhead(c)'
    BY <1>3, <1>4 DEF XAhead
  <2>4. (DRuns(c)' <=> DRuns(c)) /\ (DAhead(c)' <=> DAhead(c))
    BY <1>1, <1>11 DEF DRuns, DAhead, SameBatch
  <2>5. NamesFit(c)'
    BY <1>1, <1>11, <2>1 DEF WakeFits, NamesFit, SameBatch
  <2>6. ClaimsFit(c)'
    BY <1>1, <1>3, <1>4, <1>11, <2>1, <2>4 DEF WakeFits, ClaimsFit, SameBatch, SameClaim, XAhead, XRuns
  <2>7. TurnsPaid(c)'
    BY <1>11, <2>1, <2>2, <2>3, <2>4 DEF WakeFits, TurnsPaid, SameBatch, SameClaim
  <2>8. OneTurn(c)'
    <3>1. ~w.lapsed => w.claim = "x" /\ w.turns = 0 /\ ~DAhead(c)
      BY <2>1, <2>2 DEF WakeFits, OneTurn
    <3> QED BY <1>11, <2>1, <2>2, <2>3, <2>4, <3>1 DEF WakeFits, OneTurn, SameClaim
  <2>9. HeldOnce(c)'
    BY <1>1, <1>11, <2>1 DEF WakeFits, HeldOnce, Held, SameBatch
  <2>10. TurnsSeen(c)'
    BY <1>1, <1>11, <2>2 DEF TurnsSeen, Contents, SameBatch
  <2> QED BY <1>7, <1>8, <1>9, <2>5, <2>6, <2>7, <2>8, <2>9, <2>10 DEF IInv, WakeFits
<1> QED BY <1>5, <1>10, <1>11

\* A widget that ends carries nothing any more.
LEMMA WidgetEnds ==
    ASSUME IInv, NEW c \in Channels, widget' = [widget EXCEPT ![c] = Idle]
    PROVE  /\ widget' \in [Channels -> Flight(XPhases)]
           /\ widget'[c] = Idle /\ \A d \in Channels \ {c} : widget'[d] = widget[d]
           /\ ~XRuns(c)' /\ ~XAhead(c)'
<1>1. Idle \in Flight(XPhases)
  BY IdleEffect DEF XPhases
<1>2. /\ widget' \in [Channels -> Flight(XPhases)]
      /\ widget'[c] = Idle /\ \A d \in Channels \ {c} : widget'[d] = widget[d]
  BY <1>1, OneWidget
<1> QED BY <1>2, IdleEffect DEF XRuns, XAhead

LEMMA WidgetAcksKeeps ==
    ASSUME IInv, NEW c \in Channels, WidgetAcks(c)
    PROVE  IInv'
<1> DEFINE w == pending[c]
<1>1. /\ widget[c].phase = "submitted" /\ widget' = [widget EXCEPT ![c] = Idle]
      /\ UNCHANGED <<direct, noticing, history>>
  BY DEF WidgetAcks
<1>2. /\ widget' \in [Channels -> Flight(XPhases)]
      /\ widget'[c] = Idle /\ \A d \in Channels \ {c} : widget'[d] = widget[d]
      /\ ~XRuns(c)' /\ ~XAhead(c)'
  BY <1>1, WidgetEnds
<1>3. SUFFICES
        /\ pending' \in [Channels -> Wake \cup {NoWake}] /\ conts' \in Nat /\ conts <= conts'
        /\ \A d \in Channels \ {c} : pending'[d] = pending[d]
        /\ Present(c)' => WakeFits(c)'
  <2> SUFFICES ASSUME pending' \in [Channels -> Wake \cup {NoWake}], conts' \in Nat,
                      conts <= conts', \A d \in Channels \ {c} : pending'[d] = pending[d],
                      Present(c)' => WakeFits(c)'
               PROVE  IInv'
    OBVIOUS
  <2>1. TypeOK'
    BY <1>1, <1>2 DEF IInv, TypeOK, history, XPhases
  <2>2. FlightsFit'
    BY <1>1, <1>2, State, IdleEffect, ContentsFacts DEF IInv, FlightsFit, history
  <2>3. ASSUME NEW d \in Channels \ {c}, Present(d)'
        PROVE  WakeFits(d)'
    BY <1>1, <1>2, <2>3, LeftAlone DEF history
  <2> QED BY <2>1, <2>2, <2>3 DEF IInv
<1>4. CASE (~Present(c) \/ w.claim # "x") /\ UNCHANGED <<pending, conts>>
  <2>1. ASSUME Present(c)'
        PROVE  WakeFits(c)'
    <3>1. CASE ~XRuns(c)
      BY <1>1, <1>2, <1>4, <2>1, <3>1, State, LeftAlone DEF Present, history
    <3>2. CASE XRuns(c)
      <4>1. Present(c) /\ WakeFits(c) /\ w.claim # "x"
        BY <1>4, <2>1 DEF Present, IInv
      <4>2. ~XAhead(c) /\ (DRuns(c)' <=> DRuns(c)) /\ (DAhead(c)' <=> DAhead(c))
        BY <1>1, <1>4 DEF XAhead, DRuns, DAhead
      <4>3. NamesFit(c)' /\ ClaimsFit(c)'
        BY <1>1, <1>2, <1>4, <4>1, <4>2 DEF WakeFits, NamesFit, ClaimsFit
      <4>4. TurnsPaid(c)' /\ OneTurn(c)'
        BY <1>1, <1>2, <1>4, <4>1, <4>2 DEF WakeFits, TurnsPaid, OneTurn
      <4>5. HeldOnce(c)' /\ TurnsSeen(c)'
        BY <1>1, <1>4, <4>1 DEF WakeFits, HeldOnce, TurnsSeen, history
      <4> QED BY <4>3, <4>4, <4>5 DEF WakeFits
    <3> QED BY <3>1, <3>2
  <2> QED BY <1>4, <2>1, State
<1>5. CASE Present(c) /\ w.claim = "x" /\ w.acked /\ Promote(c, w)
  <2>1. widget'[c].cont <= conts /\ direct'.cont <= conts
    BY <1>1, <1>2, State, IdleEffect DEF IInv, FlightsFit
  <2> QED BY <1>1, <1>5, <2>1, PromoteFits
<1>6. CASE /\ Present(c) /\ w.claim = "x" /\ w.plain
           /\ pending' = [pending EXCEPT ![c] = NoWake] /\ UNCHANGED conts
  BY <1>6, OneWake, State DEF Present
<1>7. CASE /\ Present(c) /\ w.claim = "x" /\ ~w.plain /\ ~w.acked
           /\ pending' = [pending EXCEPT ![c] = Delivered(w)] /\ UNCHANGED conts
  <2> DEFINE v == Delivered(w)
  <2>1. w \in Wake /\ WakeFits(c) /\ conts \in Nat
    BY <1>7, State DEF IInv
  <2>2. /\ v \in Wake /\ SameBatch(v, w) /\ v.claim = "none" /\ ~v.lease
        /\ v.attempts = w.attempts /\ v.lapsed = w.lapsed
        /\ v.delivered /\ v.acked = w.acked /\ v.blocked = w.blocked /\ v.turns = w.turns
    BY <2>1, DeliveredEffect
  <2> HIDE DEF v
  <2>3. /\ pending' \in [Channels -> Wake \cup {NoWake}]
        /\ pending'[c] = v /\ \A d \in Channels \ {c} : pending'[d] = pending[d]
    BY <1>7, <2>2, OneWake DEF v
  <2>4. ~XAhead(c) /\ (DRuns(c)' <=> DRuns(c)) /\ (DAhead(c)' <=> DAhead(c))
    BY <1>1, <2>2, <2>3 DEF XAhead, DRuns, DAhead, SameBatch
  <2>5. NamesFit(c)' /\ ClaimsFit(c)'
    BY <1>1, <1>2, <1>7, <2>1, <2>2, <2>3, <2>4 DEF WakeFits, NamesFit, ClaimsFit, SameBatch
  <2>6. TurnsPaid(c)'
    BY <1>2, <2>1, <2>2, <2>3, <2>4 DEF WakeFits, TurnsPaid, SameBatch
  <2>7. OneTurn(c)'
    BY <1>2, <1>7, <2>1, <2>2, <2>3, <2>4 DEF WakeFits, OneTurn
  <2>8. HeldOnce(c)' /\ TurnsSeen(c)'
    BY <1>1, <2>1, <2>2, <2>3 DEF WakeFits, HeldOnce, Held, TurnsSeen, SameBatch, history
  <2> QED BY <1>7, <2>1, <2>3, <2>5, <2>6, <2>7, <2>8 DEF WakeFits
<1> QED BY <1>4, <1>5, <1>6, <1>7 DEF WidgetAcks

LEMMA WidgetGoneKeeps ==
    ASSUME IInv, NEW c \in Channels, WidgetGone(c)
    PROVE  IInv'
<1> DEFINE w == pending[c]
           v == pending'[c]
<1>1. /\ widget' = [widget EXCEPT ![c] = Idle]
      /\ UNCHANGED <<direct, noticing, conts, history>>
  BY DEF WidgetGone
<1>2. /\ widget' \in [Channels -> Flight(XPhases)]
      /\ widget'[c] = Idle /\ \A d \in Channels \ {c} : widget'[d] = widget[d]
      /\ ~XRuns(c)' /\ ~XAhead(c)'
  BY <1>1, WidgetEnds
<1>3. /\ pending' \in [Channels -> Wake \cup {NoWake}]
      /\ \A d \in Channels \ {c} : pending'[d] = pending[d]
      /\ \/ (~Present(c) \/ w.claim # "x") /\ v = w
         \/ /\ Present(c) /\ w.claim = "x"
            /\ v \in Wake /\ SameBatch(v, w) /\ SameCourse(v, w)
            /\ v.claim = "orphan" /\ v.lease = w.lease
            /\ v.attempts = w.attempts /\ v.lapsed = w.lapsed
  <2>1. CASE Present(c) /\ w.claim = "x"
    <3> DEFINE u == [w EXCEPT !.claim = "orphan"]
    <3>1. pending' = [pending EXCEPT ![c] = u]
      BY <2>1 DEF WidgetGone
    <3>2. /\ u \in Wake /\ SameBatch(u, w) /\ SameCourse(u, w)
          /\ u.claim = "orphan" /\ u.lease = w.lease
          /\ u.attempts = w.attempts /\ u.lapsed = w.lapsed
      BY <2>1, State, OrphanEffect
    <3> HIDE DEF u
    <3> QED BY <2>1, <3>1, <3>2, OneWake
  <2>2. CASE ~(Present(c) /\ w.claim = "x")
    BY <2>2, State DEF WidgetGone
  <2> QED BY <2>1, <2>2
<1>4. TypeOK'
  BY <1>1, <1>2, <1>3 DEF IInv, TypeOK, history, XPhases
<1>5. FlightsFit'
  BY <1>1, <1>2, State, IdleEffect, ContentsFacts DEF IInv, FlightsFit, history
<1>6. ASSUME NEW d \in Channels \ {c}, Present(d)'
      PROVE  WakeFits(d)'
  BY <1>1, <1>2, <1>3, <1>6, State, LeftAlone DEF history
<1>7. ASSUME Present(c)'
      PROVE  WakeFits(c)'
  <2>1. Present(c) /\ w \in Wake /\ WakeFits(c)
    BY <1>3, <1>7, State DEF Present, IInv
  <2>2. /\ SameBatch(v, w) /\ SameCourse(v, w) /\ v.lease = w.lease
        /\ v.attempts = w.attempts /\ v.lapsed = w.lapsed
        /\ v.claim = IF w.claim = "x" THEN "orphan" ELSE w.claim
    BY <1>3, <2>1 DEF SameBatch, SameCourse
  <2>3. (DRuns(c)' <=> DRuns(c)) /\ (DAhead(c)' <=> DAhead(c))
    BY <1>1, <2>2 DEF DRuns, DAhead, SameBatch
  <2>4. NamesFit(c)' /\ ClaimsFit(c)'
    BY <1>1, <1>2, <2>1, <2>2, <2>3 DEF WakeFits, NamesFit, ClaimsFit, SameBatch
  <2>5. TurnsPaid(c)'
    <3>1. w.turns \in Nat /\ w.attempts \in Nat
      BY <2>1, WakeFields
    <3> QED BY <1>2, <2>1, <2>2, <2>3, <3>1 DEF WakeFits, TurnsPaid, SameBatch, SameCourse
  <2>6. OneTurn(c)'
    BY <1>2, <2>1, <2>2, <2>3 DEF WakeFits, OneTurn, SameCourse
  <2>7. HeldOnce(c)' /\ TurnsSeen(c)'
    BY <1>1, <2>1, <2>2 DEF WakeFits, HeldOnce, Held, TurnsSeen, SameBatch, SameCourse, history
  <2> QED BY <2>4, <2>5, <2>6, <2>7 DEF WakeFits
<1> QED BY <1>4, <1>5, <1>6, <1>7 DEF IInv

\* What is left of a loop that gives its flight up, or only looks.
LEMMA LoopLooks ==
    ASSUME IInv, NEW c \in Channels, NEW p \in {"idle", "probing", "reprobing"},
           direct' = Idle \/ direct' = [Idle EXCEPT !.phase = p, !.ch = c, !.cont = pending[c].cont],
           Present(c) \/ direct' = Idle
    PROVE  /\ direct' \in Flight(DPhases) /\ direct'.cont <= conts
           /\ Contents(direct'.msgs) = {} /\ (direct'.phase # "idle" => direct'.ch \in Channels)
           /\ \A d \in Channels : ~DRuns(d)' /\ ~DAhead(d)'
<1>1. CASE direct' = Idle
  <2>1. Idle \in Flight(DPhases)
    BY IdleEffect DEF DPhases
  <2> QED BY <1>1, <2>1, IdleEffect, State, ContentsFacts DEF DRuns, DAhead
<1>2. CASE Present(c) /\ direct' = [Idle EXCEPT !.phase = p, !.ch = c, !.cont = pending[c].cont]
  <2>1. pending[c].cont \in Nat /\ pending[c].cont <= conts
    BY <1>2, State, WakeFields DEF IInv, WakeFits, NamesFit
  <2>2. << >> \in Seq(Events)
    OBVIOUS
  <2>3. /\ direct' \in Flight(DPhases) /\ direct'.cont = pending[c].cont
        /\ direct'.msgs = << >> /\ direct'.ch = c /\ direct'.phase = p
    BY <1>2, <2>1, <2>2 DEF Idle, Flight, DPhases
  <2> QED BY <2>1, <2>3, ContentsFacts DEF DRuns, DAhead
<1> QED BY <1>1, <1>2

\* Before its claim the loop carries no wake.
LEMMA LoopUnclaimed ==
    ASSUME IInv, direct.phase \in {"idle", "probing", "reprobing"}, NEW d \in Channels
    PROVE  ~DRuns(d) /\ (Present(d) /\ pending[d].claim = "direct" => pending[d].cont = 0)
  BY DEF IInv, WakeFits, ClaimsFit, DRuns

LEMMA LookKeeps ==
    ASSUME IInv, NEW c \in Channels, Look(c)
    PROVE  IInv'
<1>1. /\ direct.phase = "idle" /\ Present(c)
      /\ UNCHANGED <<pending, widget, noticing, conts, history>>
  BY DEF Look
<1>2. PICK p \in {"probing", "reprobing"} :
        direct' = [Idle EXCEPT !.phase = p, !.ch = c, !.cont = pending[c].cont]
  BY DEF Look
<1>3. /\ direct' \in Flight(DPhases) /\ direct'.cont <= conts
      /\ Contents(direct'.msgs) = {} /\ (direct'.phase # "idle" => direct'.ch \in Channels)
      /\ \A d \in Channels : ~DRuns(d)' /\ ~DAhead(d)'
  BY <1>1, <1>2, LoopLooks
<1>4. TypeOK' /\ FlightsFit'
  BY <1>1, <1>3 DEF IInv, TypeOK, FlightsFit, history, DPhases
<1>5. ASSUME NEW d \in Channels, Present(d)'
      PROVE  WakeFits(d)'
  <2>1. Present(d) /\ ~DRuns(d) /\ ~DRuns(d)' /\ (pending[d].claim = "direct" => pending[d].cont = 0)
    BY <1>1, <1>3, <1>5, LoopUnclaimed DEF Present
  <2> QED BY <1>1, <1>5, <2>1, State, LeftAlone DEF history
<1> QED BY <1>4, <1>5 DEF IInv

\* A loop that ends before its claim disturbs no wake but the one it writes.
LEMMA ProbeEnds ==
    ASSUME IInv, NEW c \in Channels, direct.phase \in {"probing", "reprobing"}, direct' = Idle,
           UNCHANGED <<widget, noticing, conts, history>>,
           pending' \in [Channels -> Wake \cup {NoWake}],
           \A d \in Channels \ {c} : pending'[d] = pending[d],
           Present(c)' => pending'[c] = pending[c] \/ WakeFits(c)'
    PROVE  IInv'
<1>2. /\ direct' \in Flight(DPhases) /\ direct'.cont <= conts
      /\ Contents(direct'.msgs) = {} /\ (direct'.phase # "idle" => direct'.ch \in Channels)
      /\ \A d \in Channels : ~DRuns(d)' /\ ~DAhead(d)'
  BY LoopLooks
<1>3. TypeOK' /\ FlightsFit'
  BY <1>2 DEF IInv, TypeOK, FlightsFit, history, DPhases
<1>4. ASSUME NEW d \in Channels, Present(d)'
      PROVE  WakeFits(d)'
  <2>1. CASE pending'[d] = pending[d]
    <3>1. Present(d) /\ ~DRuns(d) /\ ~DRuns(d)' /\ (pending[d].claim = "direct" => pending[d].cont = 0)
      BY <1>2, <1>4, <2>1, LoopUnclaimed DEF Present
    <3> QED BY <1>4, <2>1, <3>1, State, LeftAlone DEF history
  <2>2. CASE pending'[d] # pending[d]
    BY <1>4, <2>2
  <2> QED BY <2>1, <2>2
<1> QED BY <1>3, <1>4 DEF IInv

LEMMA ProbeFailsKeeps ==
    ASSUME IInv, ProbeFails
    PROVE  IInv'
<1>1. PICK c \in Channels : c = direct.ch
  BY DEF ProbeFails, IInv, FlightsFit
<1> QED BY <1>1, State, ProbeEnds DEF ProbeFails

\* A block before any send changes nothing but the block.
LEMMA BlockFits ==
    ASSUME IInv, NEW c \in Channels, Present(c), NEW b \in {"no", "auth"},
           pending[c].claim = "none", ~pending[c].delivered, ~pending[c].acked,
           pending[c].blocked \in {"no", "auth"},
           pending'[c] \in Wake, SameBatch(pending'[c], pending[c]),
           SameClaim(pending'[c], pending[c]),
           pending'[c].delivered = pending[c].delivered, pending'[c].acked = pending[c].acked,
           pending'[c].blocked = b, pending'[c].turns = pending[c].turns,
           ~DRuns(c)', ~DRuns(c), UNCHANGED <<widget, conts, history>>
    PROVE  WakeFits(c)'
<1>1. pending[c] \in Wake /\ WakeFits(c) /\ pending[c].turns \in Nat /\ pending[c].attempts \in Nat
  BY State, WakeFields DEF IInv
<1>2. (XRuns(c)' <=> XRuns(c)) /\ (XAhead(c)' <=> XAhead(c)) /\ ~DAhead(c)' /\ ~DAhead(c)
  BY DEF XRuns, XAhead, DAhead, SameBatch
<1>3. NamesFit(c)' /\ ClaimsFit(c)'
  BY <1>1, <1>2 DEF WakeFits, NamesFit, ClaimsFit, SameBatch, SameClaim
<1>4. TurnsPaid(c)' /\ OneTurn(c)'
  BY <1>1, <1>2 DEF WakeFits, TurnsPaid, OneTurn, SameBatch, SameClaim
<1>5. HeldOnce(c)' /\ TurnsSeen(c)'
  BY <1>1 DEF WakeFits, HeldOnce, Held, TurnsSeen, SameBatch, history
<1> QED BY <1>3, <1>4, <1>5 DEF WakeFits

LEMMA ProbeNeedsOwnerKeeps ==
    ASSUME IInv, ProbeNeedsOwner
    PROVE  IInv'
<1>0. PICK c \in Channels : c = direct.ch
  BY DEF ProbeNeedsOwner, IInv, FlightsFit
<1> DEFINE w == pending[c]
<1>1. direct.phase = "probing" /\ direct' = Idle /\ UNCHANGED <<widget, noticing, conts, history>>
  BY DEF ProbeNeedsOwner
<1>2. ~DRuns(c)
  BY <1>1, LoopUnclaimed
<1>3. CASE UNCHANGED pending
  BY <1>1, <1>3, State, ProbeEnds
<1>4. CASE /\ Present(c) /\ w.claim = "none" /\ ~w.delivered /\ ~w.acked /\ w.blocked = "no"
           /\ pending' = [pending EXCEPT ![c].blocked = "auth"]
  <2> DEFINE v == [w EXCEPT !.blocked = "auth"]
  <2>1. w \in Wake /\ "auth" \in Blocks
    BY <1>2, <1>4, State DEF Blocks
  <2>2. pending' = [pending EXCEPT ![c] = v]
    BY <1>4
  <2>3. /\ v \in Wake /\ SameBatch(v, w) /\ SameClaim(v, w)
        /\ v.delivered = w.delivered /\ v.acked = w.acked
        /\ v.blocked = "auth" /\ v.turns = w.turns
    BY <2>1, BlockEffect
  <2> HIDE DEF v
  <2>4. /\ pending' \in [Channels -> Wake \cup {NoWake}]
        /\ pending'[c] = v /\ \A d \in Channels \ {c} : pending'[d] = pending[d]
    BY <1>2, <2>2, <2>3, OneWake
  <2>5. ~DRuns(c)'
    BY <1>1, IdleEffect DEF DRuns
  <2>6. WakeFits(c)'
    <3>1. "no" \in {"no", "auth"} /\ "auth" \in {"no", "auth"}
      OBVIOUS
    <3> QED BY <1>1, <1>2, <1>4, <2>3, <2>4, <2>5, <3>1, BlockFits
  <2> QED BY <1>1, <2>4, <2>6, ProbeEnds
<1> QED BY <1>0, <1>3, <1>4 DEF ProbeNeedsOwner

LEMMA ProbeReleasesKeeps ==
    ASSUME IInv, ProbeReleases
    PROVE  IInv'
<1>0. PICK c \in Channels : c = direct.ch
  BY DEF ProbeReleases, IInv, FlightsFit
<1> DEFINE w == pending[c]
<1>1. direct.phase = "reprobing" /\ direct' = Idle /\ UNCHANGED <<widget, noticing, conts, history>>
  BY DEF ProbeReleases
<1>2. ~DRuns(c)
  BY <1>1, LoopUnclaimed
<1>3. CASE UNCHANGED pending
  BY <1>1, <1>3, State, ProbeEnds
<1>4. CASE /\ Present(c) /\ w.claim = "none" /\ ~w.delivered /\ ~w.acked /\ w.blocked = "auth"
           /\ pending' = [pending EXCEPT ![c].blocked = "no", ![c].notified = FALSE]
  <2> DEFINE v == [w EXCEPT !.blocked = "no", !.notified = FALSE]
  <2>1. w \in Wake /\ "no" \in Blocks
    BY <1>2, <1>4, State DEF Blocks
  <2>2. pending' = [pending EXCEPT ![c] = v]
    BY <1>2, <1>4, <2>1, State DEF Wake
  <2>3. /\ v \in Wake /\ SameBatch(v, w) /\ SameClaim(v, w)
        /\ v.delivered = w.delivered /\ v.acked = w.acked
        /\ v.blocked = "no" /\ v.turns = w.turns
    BY <2>1, BlockEffect
  <2> HIDE DEF v
  <2>4. /\ pending' \in [Channels -> Wake \cup {NoWake}]
        /\ pending'[c] = v /\ \A d \in Channels \ {c} : pending'[d] = pending[d]
    BY <1>2, <2>2, <2>3, OneWake
  <2>5. ~DRuns(c)'
    BY <1>1, IdleEffect DEF DRuns
  <2>6. WakeFits(c)'
    <3>1. "no" \in {"no", "auth"} /\ "auth" \in {"no", "auth"}
      OBVIOUS
    <3> QED BY <1>1, <1>2, <1>4, <2>3, <2>4, <2>5, <3>1, BlockFits
  <2> QED BY <1>1, <2>4, <2>6, ProbeEnds
<1> QED BY <1>0, <1>3, <1>4 DEF ProbeReleases, Releasable

LEMMA DirectClaimsKeeps ==
    ASSUME IInv, DirectClaims
    PROVE  IInv'
<1>0. PICK c \in Channels : c = direct.ch
  BY DEF DirectClaims, IInv, FlightsFit
<1> DEFINE w == pending[c]
           v == Claimed(w, "direct")
           f == [phase |-> "claimed", ch |-> c, cont |-> w.cont, msgs |-> w.msgs]
<1>1. direct.phase = "probing" /\ UNCHANGED <<widget, noticing, conts, history>>
  BY DEF DirectClaims
<1>2. CASE direct' = Idle /\ UNCHANGED pending
  BY <1>1, <1>2, State, ProbeEnds
<1>3. CASE /\ MayClaim(c, "direct")
           /\ pending' = [pending EXCEPT ![c] = v] /\ direct' = f
  <2>1. /\ Present(c) /\ w \in Wake /\ WakeFits(c)
        /\ ~w.delivered /\ ~w.acked /\ w.blocked = "no"
        /\ ~w.plain => w.attempts < MaxAttempts
        /\ ~w.lapsed => w.claim = "none" /\ w.turns = 0
    BY <1>3, MayClaimFacts
  <2>2. w.cont \in Nat /\ w.msgs \in Seq(Events) /\ w.attempts \in Nat /\ w.turns \in Nat
    BY <2>1, WakeFields
  <2>3. /\ v \in Wake /\ SameBatch(v, w) /\ SameCourse(v, w)
        /\ v.claim = "direct" /\ v.lease /\ v.lapsed = w.lapsed
        /\ v.attempts = IF w.plain THEN w.attempts ELSE w.attempts + 1
    BY <2>1, ClaimedEffect
  <2>4. /\ f \in Flight(DPhases) /\ f.phase = "claimed" /\ f.ch = c
        /\ f.cont = w.cont /\ f.msgs = w.msgs
    BY <2>2 DEF Flight, DPhases
  <2> HIDE DEF v, f
  <2>5. /\ pending' \in [Channels -> Wake \cup {NoWake}]
        /\ pending'[c] = v /\ \A d \in Channels \ {c} : pending'[d] = pending[d]
    BY <1>3, <2>3, OneWake
  <2>6. TypeOK'
    BY <1>1, <1>3, <2>4, <2>5 DEF IInv, TypeOK, history, DPhases
  <2>7. FlightsFit'
    <3>1. w.cont <= conts /\ Contents(w.msgs) \subseteq armed
      BY <2>1 DEF WakeFits, NamesFit, HeldOnce, Held
    <3> QED BY <1>1, <1>3, <2>4, <3>1 DEF IInv, FlightsFit, history
  <2>8. ASSUME NEW d \in Channels \ {c}, Present(d)'
        PROVE  WakeFits(d)'
    <3>1. Present(d) /\ ~DRuns(d) /\ ~DRuns(d)' /\ (pending[d].claim = "direct" => pending[d].cont = 0)
      BY <1>1, <1>3, <2>4, <2>5, <2>8, LoopUnclaimed DEF Present, DRuns
    <3> QED BY <1>1, <2>5, <2>8, <3>1, State, LeftAlone DEF history
  <2>9. ~DRuns(c) /\ ~DAhead(c) /\ (XRuns(c)' <=> XRuns(c)) /\ (XAhead(c)' <=> XAhead(c))
    BY <1>1, <2>3, <2>5, LoopUnclaimed DEF XRuns, XAhead, DAhead, SameBatch
  <2>10. NamesFit(c)'
    BY <1>1, <2>1, <2>3, <2>5 DEF WakeFits, NamesFit, SameBatch
  <2>11. /\ w.cont # 0 => ~w.plain
         /\ XRuns(c) => w.cont # 0
         /\ DRuns(c)' => w.cont # 0
    BY <2>1, <2>3, <2>5 DEF WakeFits, NamesFit, XRuns, DRuns, SameBatch
  <2>12. ClaimsFit(c)'
    BY <1>1, <1>3, <2>1, <2>2, <2>3, <2>4, <2>5, <2>9, <2>11 DEF WakeFits, ClaimsFit, SameBatch
  <2>13. TurnsPaid(c)'
    <3>1. DAhead(c)' => ~w.plain
      BY <2>11 DEF DAhead
    <3> QED BY <2>1, <2>2, <2>3, <2>5, <2>9, <3>1 DEF WakeFits, TurnsPaid, SameBatch, SameCourse
  <2>14. OneTurn(c)'
    <3>1. ~w.lapsed => ~XAhead(c)
      BY <2>1 DEF WakeFits, OneTurn
    <3> QED BY <2>1, <2>3, <2>5, <2>9, <3>1 DEF OneTurn, SameCourse
  <2>15. HeldOnce(c)' /\ TurnsSeen(c)'
    BY <1>1, <2>1, <2>3, <2>5
    DEF WakeFits, HeldOnce, Held, TurnsSeen, SameBatch, SameCourse, history
  <2> QED BY <2>6, <2>7, <2>8, <2>10, <2>12, <2>13, <2>14, <2>15 DEF IInv, WakeFits
<1> QED BY <1>0, <1>2, <1>3 DEF DirectClaims

\* A turn that the loop's program makes: the wake it claimed has an attempt for
\* it, and the prompt shows the batch as far as it has room.
LEMMA DirectTurn ==
    ASSUME IInv, NEW c \in Channels, DAhead(c), Present(c), Present(c)',
           SameBatch(pending'[c], pending[c]), pending'[c].attempts = pending[c].attempts,
           pending'[c].lapsed = pending[c].lapsed, pending'[c].lease = pending[c].lease,
           pending'[c].claim \in {pending[c].claim, "orphan"},
           pending'[c].claim = "direct" => DRuns(c)',
           pending'[c].delivered = pending[c].delivered, pending'[c].acked = pending[c].acked,
           pending'[c].blocked = pending[c].blocked, pending'[c].turns = pending[c].turns + 1,
           pending[c].claim = "none" => pending'[c].claim = "none",
           DRuns(c)' => direct'.msgs = direct.msgs, ~DAhead(c)',
           shown' = shown \cup Prompted(direct.msgs),
           UNCHANGED <<widget, conts, armed, givenUp>>
    PROVE  WakeFits(c)'
<1> DEFINE w == pending[c]
<1>1. w \in Wake /\ WakeFits(c)
  BY State DEF IInv
<1>2. w.turns \in Nat /\ w.attempts \in Nat /\ w.cont \in Nat /\ w.msgs = direct.msgs
  BY <1>1, WakeFields DEF WakeFits, ClaimsFit, DAhead
<1>3. (XRuns(c)' => XRuns(c)) /\ (XAhead(c)' => XAhead(c)) /\ (pending'[c].claim = "x" => w.claim = "x")
  BY DEF XRuns, XAhead, SameBatch
<1>4. NamesFit(c)'
  BY <1>1 DEF WakeFits, NamesFit, SameBatch
<1>5. ClaimsFit(c)'
  BY <1>1, <1>2, <1>3 DEF WakeFits, ClaimsFit, SameBatch, DRuns, DAhead
<1>6. TurnsPaid(c)'
  BY <1>1, <1>2, <1>3 DEF WakeFits, TurnsPaid, SameBatch, DAhead, DRuns
<1>7. OneTurn(c)'
  <2>1. ~w.lapsed => w.claim = "direct" /\ w.lease /\ w.turns = 0 /\ ~XAhead(c)
    BY <1>1, <1>2 DEF WakeFits, OneTurn
  <2> QED BY <1>2, <1>3, <2>1 DEF OneTurn
<1>8. HeldOnce(c)'
  BY <1>1 DEF WakeFits, HeldOnce, Held, SameBatch
<1>9. TurnsSeen(c)'
  <2>1. w.msgs \in Seq(Events) /\ (~w.rebatched => Len(w.msgs) <= Visible) /\ w.rebatched \in BOOLEAN
    BY <1>1, WakeFields DEF WakeFits, NamesFit
  <2>2. Visible \in Nat
    BY WakeAssumption DEF WakeAssumption
  <2>3. ASSUME NEW i \in DOMAIN w.msgs
        PROVE  w.msgs[i] \in shown' \/ (w.rebatched /\ i > Visible)
    <3>1. i \in Nat /\ i <= Len(w.msgs)
      BY <2>1
    <3>2. CASE i <= Visible
      BY <1>2, <3>2 DEF Prompted
    <3>3. CASE i > Visible
      BY <2>1, <2>2, <3>1, <3>3
    <3> QED BY <2>2, <3>1, <3>2, <3>3
  <2> QED BY <2>3 DEF TurnsSeen, SameBatch
<1> QED BY <1>4, <1>5, <1>6, <1>7, <1>8, <1>9 DEF WakeFits

\* What a prompt shows was armed.
LEMMA PromptedFacts ==
    ASSUME IInv
    PROVE  Prompted(direct.msgs) \subseteq Events /\ Prompted(direct.msgs) \subseteq armed
<1>1. Prompted(direct.msgs) \subseteq Contents(direct.msgs)
  BY DEF Prompted, Contents
<1> QED BY <1>1, State, ContentsFacts DEF IInv, FlightsFit

LEMMA DirectSubmitsKeeps ==
    ASSUME IInv, DirectSubmits
    PROVE  IInv'
<1>0. PICK c \in Channels : c = direct.ch
  BY DEF DirectSubmits, MaySubmit, IInv, FlightsFit
<1> DEFINE w == pending[c]
           v == pending'[c]
           f == [direct EXCEPT !.phase = "submitted"]
<1>1. /\ direct.phase = "claimed" /\ shown' = shown \cup Prompted(direct.msgs)
      /\ direct' = f /\ UNCHANGED <<widget, noticing, conts, armed, givenUp>>
  BY DEF DirectSubmits, MaySubmit
<1>2. direct \in Flight(DPhases) /\ direct.cont \in Nat
  BY State DEF IInv, TypeOK, DPhases
<1>3. /\ f \in Flight(DPhases) /\ f.phase = "submitted"
      /\ f.ch = direct.ch /\ f.cont = direct.cont /\ f.msgs = direct.msgs
  <2>1. "submitted" \in DPhases
    BY DEF DPhases
  <2> QED BY <1>2, <2>1, PhaseEffect
<1> HIDE DEF f
<1>4. PICK r \in BOOLEAN : pending' = WithTurn(pending, c, direct.cont, r)
  BY <1>0 DEF DirectSubmits
<1>5. /\ pending' \in [Channels -> Wake \cup {NoWake}]
      /\ \A d \in Channels \ {c} : pending'[d] = pending[d]
      /\ \/ ~(w # NoWake /\ direct.cont # 0 /\ w.cont = direct.cont) /\ v = w
         \/ /\ w # NoWake /\ direct.cont # 0 /\ w.cont = direct.cont
            /\ v \in Wake /\ SameBatch(v, w) /\ SameClaim(v, w)
            /\ v.delivered = w.delivered /\ v.acked = w.acked
            /\ v.blocked = w.blocked /\ v.turns = w.turns + 1
  <2>1. pending \in [Channels -> Wake \cup {NoWake}] /\ c \in Channels /\ direct.cont \in Nat
    BY <1>2, State
  <2> QED BY ONLY <1>4, <2>1, WithTurnEffect
<1>6. TypeOK'
  BY <1>1, <1>3, <1>5, PromptedFacts DEF IInv, TypeOK, DPhases
<1>7. FlightsFit'
  BY <1>1, <1>3, PromptedFacts DEF IInv, FlightsFit
<1>8. /\ \A d \in Channels \ {c} : ~DRuns(d) /\ ~DRuns(d)' /\ (Present(d) /\ pending[d].claim = "direct" => pending[d].cont = 0)
      /\ ~DAhead(c)' /\ conts' \in Nat /\ conts <= conts'
      /\ armed \subseteq armed' /\ shown \subseteq shown' /\ givenUp' \ givenUp = {}
  <2>1. \A d \in Channels \ {c} : ~DRuns(d) /\ ~DRuns(d)' /\ (Present(d) /\ pending[d].claim = "direct" => pending[d].cont = 0)
    BY <1>0, <1>1, <1>3 DEF DRuns, IInv, WakeFits, ClaimsFit
  <2> QED BY <1>1, <1>3, <2>1, State DEF DAhead
<1>9. ASSUME NEW d \in Channels \ {c}, Present(d)'
      PROVE  WakeFits(d)'
  <2>1. Present(d) /\ pending'[d] = pending[d]
    BY <1>5, <1>9 DEF Present
  <2> QED BY <1>1, <1>8, <1>9, <2>1, LeftAlone
<1>10. CASE ~(w # NoWake /\ direct.cont # 0 /\ w.cont = direct.cont) /\ v = w
  <2>1. ASSUME Present(c)'
        PROVE  WakeFits(c)'
    <3>1. Present(c) /\ WakeFits(c) /\ w \in Wake
      BY <1>10, <2>1, State DEF Present, IInv
    <3>2. ~DRuns(c) /\ ~DRuns(c)' /\ ~DAhead(c)
      BY <1>3, <1>1, <1>10, <3>1 DEF DRuns, DAhead, Present
    <3>3. (XRuns(c)' <=> XRuns(c)) /\ (XAhead(c)' <=> XAhead(c))
      BY <1>1, <1>10 DEF XRuns, XAhead
    <3>4. NamesFit(c)' /\ ClaimsFit(c)'
      BY <1>0, <1>1, <1>3, <1>10, <3>1, <3>2, <3>3 DEF WakeFits, NamesFit, ClaimsFit
    <3>5. TurnsPaid(c)' /\ OneTurn(c)'
      BY <1>8, <1>10, <3>1, <3>2, <3>3 DEF WakeFits, TurnsPaid, OneTurn
    <3>6. HeldOnce(c)' /\ TurnsSeen(c)'
      BY <1>1, <1>10, <3>1 DEF WakeFits, HeldOnce, TurnsSeen
    <3> QED BY <3>4, <3>5, <3>6 DEF WakeFits
  <2> QED BY <1>6, <1>7, <1>9, <2>1 DEF IInv
<1>11. CASE /\ w # NoWake /\ direct.cont # 0 /\ w.cont = direct.cont
            /\ v \in Wake /\ SameBatch(v, w) /\ SameClaim(v, w)
            /\ v.delivered = w.delivered /\ v.acked = w.acked
            /\ v.blocked = w.blocked /\ v.turns = w.turns + 1
  <2>1. Present(c) /\ Present(c)' /\ DAhead(c) /\ DRuns(c)' /\ direct'.msgs = direct.msgs
    BY <1>0, <1>1, <1>3, <1>11, NoWakeApart DEF Present, DAhead, DRuns, SameBatch
  <2>2. WakeFits(c)'
    BY <1>1, <1>8, <1>11, <2>1, DirectTurn DEF SameClaim
  <2> QED BY <1>6, <1>7, <1>9, <2>2 DEF IInv
<1> QED BY <1>5, <1>10, <1>11

\* The loop hears from its program, or never will: its claim is settled.
LEMMA DirectFinalizesKeeps ==
    ASSUME IInv, DirectFinalizes
    PROVE  IInv'
<1>0. PICK c \in Channels : c = direct.ch
  BY DEF DirectFinalizes, IInv, FlightsFit
<1> DEFINE w == pending[c]
<1>1. /\ direct.phase \in {"claimed", "submitted"} /\ direct' = Idle
      /\ UNCHANGED <<widget, noticing, history>>
  BY DEF DirectFinalizes
<1>2. /\ direct' \in Flight(DPhases) /\ direct'.cont <= conts
      /\ Contents(direct'.msgs) = {} /\ (direct'.phase # "idle" => direct'.ch \in Channels)
      /\ \A d \in Channels : ~DRuns(d)' /\ ~DAhead(d)'
  BY <1>1, LoopLooks
<1>3. /\ direct'.cont \in Nat /\ conts \in Nat
      /\ \A d \in Channels : widget[d].cont \in Nat /\ widget[d].cont <= conts
  BY <1>2, State, FlightFields DEF IInv, FlightsFit
<1>4. \A d \in Channels \ {c} : ~DRuns(d) /\ (Present(d) /\ pending[d].claim = "direct" => pending[d].cont = 0)
  BY <1>0 DEF DRuns, IInv, WakeFits, ClaimsFit
<1>5. SUFFICES
        /\ pending' \in [Channels -> Wake \cup {NoWake}] /\ conts' \in Nat /\ conts <= conts'
        /\ \A d \in Channels \ {c} : pending'[d] = pending[d]
        /\ Present(c)' => WakeFits(c)'
  <2> SUFFICES ASSUME pending' \in [Channels -> Wake \cup {NoWake}], conts' \in Nat,
                      conts <= conts', \A d \in Channels \ {c} : pending'[d] = pending[d],
                      Present(c)' => WakeFits(c)'
               PROVE  IInv'
    OBVIOUS
  <2>1. TypeOK'
    BY <1>1, <1>2 DEF IInv, TypeOK, history, DPhases
  <2>2. FlightsFit'
    BY <1>1, <1>2, <1>3 DEF IInv, FlightsFit, history
  <2>3. ASSUME NEW d \in Channels \ {c}, Present(d)'
        PROVE  WakeFits(d)'
    <3>1. Present(d)
      BY <2>3 DEF Present
    <3> QED BY <1>1, <1>2, <1>4, <2>3, <3>1, LeftAlone DEF history
  <2> QED BY <2>1, <2>2, <2>3 DEF IInv
<1>6. PICK d \in Dispositions :
        IF ~Present(c) \/ w.claim # "direct" \/ w.cont = 0
        THEN UNCHANGED <<pending, conts>>
        ELSE IF d = "delivered" /\ w.acked THEN Promote(c, w)
        ELSE IF d = "delivered"
        THEN pending' = [pending EXCEPT ![c] = Delivered(w)] /\ UNCHANGED conts
        ELSE /\ pending' = [pending EXCEPT ![c] =
                  [w EXCEPT !.claim = "none", !.lease = FALSE,
                            !.blocked = IF d = "not_submitted" THEN "no" ELSE d]]
             /\ UNCHANGED conts
  BY <1>0 DEF DirectFinalizes
<1>7. CASE (~Present(c) \/ w.claim # "direct" \/ w.cont = 0) /\ UNCHANGED <<pending, conts>>
  <2>1. ASSUME Present(c)'
        PROVE  WakeFits(c)'
    <3>1. Present(c) /\ WakeFits(c) /\ w \in Wake
      BY <1>7, <2>1, State DEF Present, IInv
    <3>2. w.turns \in Nat /\ w.attempts \in Nat /\ w.cont \in Nat
      BY <3>1, WakeFields
    <3>3. (XRuns(c)' <=> XRuns(c)) /\ (XAhead(c)' <=> XAhead(c))
      BY <1>1, <1>7 DEF XRuns, XAhead
    <3>5. NamesFit(c)' /\ ClaimsFit(c)'
      BY <1>1, <1>2, <1>7, <3>1, <3>3 DEF WakeFits, NamesFit, ClaimsFit
    <3>6. TurnsPaid(c)' /\ OneTurn(c)'
      BY <1>2, <1>7, <3>1, <3>2, <3>3 DEF WakeFits, TurnsPaid, OneTurn
    <3>7. HeldOnce(c)' /\ TurnsSeen(c)'
      BY <1>1, <1>7, <3>1 DEF WakeFits, HeldOnce, TurnsSeen, history
    <3> QED BY <3>5, <3>6, <3>7 DEF WakeFits
  <2> QED BY <1>3, <1>7, <2>1, State
<1>8. CASE Present(c) /\ w.claim = "direct" /\ w.acked /\ Promote(c, w)
  BY <1>1, <1>2, <1>3, <1>8, PromoteFits
<1>9. ASSUME NEW v \in Wake, Present(c), w.claim = "direct", w.cont # 0,
             pending' = [pending EXCEPT ![c] = v], UNCHANGED conts,
             SameBatch(v, w), v.claim = "none", ~v.lease,
             v.attempts = w.attempts, v.lapsed = w.lapsed,
             v.acked = w.acked, v.turns = w.turns,
             \/ v.delivered
             \/ v.delivered = w.delivered /\ v.blocked \in {"uncertain", "owner"}
             \/ v.delivered = w.delivered /\ DAhead(c)
      PROVE  /\ pending' \in [Channels -> Wake \cup {NoWake}] /\ conts' \in Nat /\ conts <= conts'
             /\ \A x \in Channels \ {c} : pending'[x] = pending[x]
             /\ Present(c)' => WakeFits(c)'
  <2>1. /\ pending' \in [Channels -> Wake \cup {NoWake}]
        /\ pending'[c] = v /\ \A x \in Channels \ {c} : pending'[x] = pending[x]
    BY <1>9, OneWake
  <2>2. WakeFits(c) /\ w \in Wake
    BY <1>9, State DEF IInv
  <2>3. w.turns \in Nat /\ w.attempts \in Nat
    BY <2>2, WakeFields
  <2>4. (XRuns(c)' <=> XRuns(c)) /\ (XAhead(c)' <=> XAhead(c))
    BY <1>1, <1>9, <2>1 DEF XRuns, XAhead, SameBatch
  <2>5. NamesFit(c)' /\ ClaimsFit(c)'
    BY <1>1, <1>2, <1>9, <2>1, <2>2, <2>4 DEF WakeFits, NamesFit, ClaimsFit, SameBatch
  <2>6. TurnsPaid(c)'
    BY <1>2, <1>9, <2>1, <2>2, <2>3, <2>4 DEF WakeFits, TurnsPaid, SameBatch
  <2>7. OneTurn(c)'
    <3>1. ~w.lapsed => ~XAhead(c) /\ (DAhead(c) => w.turns = 0)
      BY <1>9, <2>2, <2>3 DEF WakeFits, OneTurn
    <3> QED BY <1>2, <1>9, <2>1, <2>2, <2>4, <3>1 DEF WakeFits, OneTurn
  <2>8. HeldOnce(c)' /\ TurnsSeen(c)'
    BY <1>1, <1>9, <2>1, <2>2 DEF WakeFits, HeldOnce, Held, TurnsSeen, SameBatch, history
  <2> QED BY <1>3, <1>9, <2>1, <2>5, <2>6, <2>7, <2>8 DEF WakeFits
<1>10. CASE /\ Present(c) /\ w.claim = "direct" /\ w.cont # 0
            /\ pending' = [pending EXCEPT ![c] = Delivered(w)] /\ UNCHANGED conts
  BY <1>9, <1>10, State, DeliveredEffect
<1>11. CASE /\ Present(c) /\ w.claim = "direct" /\ w.cont # 0 /\ d # "delivered"
            /\ pending' = [pending EXCEPT ![c] =
                  [w EXCEPT !.claim = "none", !.lease = FALSE,
                            !.blocked = IF d = "not_submitted" THEN "no" ELSE d]]
            /\ UNCHANGED conts
  <2>1. w \in Wake /\ WakeFits(c)
    BY <1>11, State DEF IInv
  <2>2. PICK b \in Blocks : /\ b = IF d = "not_submitted" THEN "no" ELSE d
                            /\ b \in {"uncertain", "owner"} \/ direct.phase = "claimed"
    BY <1>1, <1>11 DEF Dispositions, Blocks
  <2> DEFINE v == [w EXCEPT !.claim = "none", !.lease = FALSE, !.blocked = b]
  <2>3. /\ v \in Wake /\ SameBatch(v, w) /\ v.claim = "none" /\ ~v.lease
        /\ v.attempts = w.attempts /\ v.lapsed = w.lapsed
        /\ v.delivered = w.delivered /\ v.acked = w.acked
        /\ v.blocked = b /\ v.turns = w.turns
    <3>1. b \in Blocks
      BY <2>2
    <3> HIDE DEF w
    <3> QED BY <2>1, <3>1 DEF Wake, Blocks, SameBatch
  <2>4. direct.phase = "claimed" => DAhead(c)
    BY <1>0, <1>11, <2>1 DEF WakeFits, ClaimsFit, DAhead, DRuns
  <2>5. pending' = [pending EXCEPT ![c] = v]
    BY <1>11, <2>2
  <2> HIDE DEF v
  <2> QED BY <1>9, <1>11, <2>2, <2>3, <2>4, <2>5
<1> QED BY <1>6, <1>7, <1>8, <1>10, <1>11

LEMMA ModelAcksKeeps ==
    ASSUME IInv, NEW c \in Channels, ModelAcks(c)
    PROVE  IInv'
<1> DEFINE w == pending[c]
           u == [w EXCEPT !.acked = TRUE, !.queued = << >>]
           v == IF Leased(w) THEN u ELSE NoWake
<1>1. /\ Present(c) /\ ~w.plain /\ w.turns > 0
      /\ shown' = shown \cup Contents(w.queued)
      /\ pending' = [pending EXCEPT ![c] = v]
      /\ UNCHANGED <<direct, widget, noticing, conts, armed, givenUp>>
  BY DEF ModelAcks
<1>2. w \in Wake /\ WakeFits(c) /\ conts \in Nat
  BY <1>1, State DEF IInv
<1>3. /\ u \in Wake /\ SameClaim(u, w)
      /\ u.plain = w.plain /\ u.cont = w.cont /\ u.msgs = w.msgs
      /\ u.queued = << >> /\ u.rebatched = w.rebatched
      /\ u.delivered = w.delivered /\ u.acked
      /\ u.blocked = w.blocked /\ u.turns = w.turns
  BY <1>2, AckEffect
<1> HIDE DEF u
<1>4. /\ pending' \in [Channels -> Wake \cup {NoWake}]
      /\ pending'[c] = v /\ \A d \in Channels \ {c} : pending'[d] = pending[d]
  BY <1>1, <1>3, OneWake
<1>5. Contents(w.queued) \subseteq Events /\ Contents(w.queued) \subseteq armed
  BY <1>2, WakeFields, ContentsFacts DEF WakeFits, HeldOnce, Held
<1>6. TypeOK' /\ FlightsFit'
  BY <1>1, <1>4, <1>5 DEF IInv, TypeOK, FlightsFit
<1>7. ASSUME NEW d \in Channels \ {c}, Present(d)'
      PROVE  WakeFits(d)'
  BY <1>1, <1>2, <1>4, <1>7, LeftAlone
<1>8. ASSUME Present(c)'
      PROVE  WakeFits(c)'
  <2>1. pending'[c] = u
    BY <1>4, <1>8 DEF Present
  <2>2. /\ (XRuns(c)' <=> XRuns(c)) /\ (XAhead(c)' <=> XAhead(c))
        /\ (DRuns(c)' <=> DRuns(c)) /\ (DAhead(c)' <=> DAhead(c))
    BY <1>1, <1>3, <2>1 DEF XRuns, XAhead, DRuns, DAhead
  <2>3. NamesFit(c)' /\ ClaimsFit(c)'
    BY <1>1, <1>2, <1>3, <2>1, <2>2 DEF WakeFits, NamesFit, ClaimsFit, SameClaim
  <2>4. TurnsPaid(c)' /\ OneTurn(c)'
    BY <1>2, <1>3, <2>1, <2>2 DEF WakeFits, TurnsPaid, OneTurn, SameClaim
  <2>5. HeldOnce(c)'
    BY <1>1, <1>2, <1>3, <2>1, ContentsFacts DEF WakeFits, HeldOnce, Held
  <2>6. TurnsSeen(c)'
    BY <1>1, <1>2, <1>3, <2>1 DEF WakeFits, TurnsSeen
  <2> QED BY <2>3, <2>4, <2>5, <2>6 DEF WakeFits
<1> QED BY <1>6, <1>7, <1>8 DEF IInv

\* A step of the clock, or of a notice, that writes no wake's batch or course.
LEMMA MarksKeep ==
    ASSUME IInv, UNCHANGED <<direct, widget, conts, history>>,
           noticing' \subseteq Nat, pending' \in [Channels -> Wake \cup {NoWake}],
           \A d \in Channels :
               /\ Present(d)' <=> Present(d)
               /\ Present(d) => /\ SameBatch(pending'[d], pending[d])
                                /\ SameClaim(pending'[d], pending[d])
                                /\ SameCourse(pending'[d], pending[d])
    PROVE  IInv'
<1>1. TypeOK' /\ FlightsFit'
  BY DEF IInv, TypeOK, FlightsFit, history
<1>2. ASSUME NEW d \in Channels, Present(d)'
      PROVE  WakeFits(d)'
  <2>1. Present(d) /\ pending'[d] \in Wake
    BY <1>2 DEF Present
  <2> QED BY <2>1, State, Undisturbed DEF history
<1> QED BY <1>1, <1>2 DEF IInv

LEMMA GrowsOldKeeps ==
    ASSUME IInv, NEW c \in Channels, GrowsOld(c)
    PROVE  IInv'
<1> DEFINE w == pending[c]
           v == [w EXCEPT !.old = TRUE]
<1>1. /\ Present(c) /\ pending' = [pending EXCEPT ![c] = v]
      /\ UNCHANGED <<direct, widget, noticing, conts, history>>
  BY DEF GrowsOld
<1>2. v \in Wake /\ SameBatch(v, w) /\ SameClaim(v, w) /\ SameCourse(v, w)
  BY <1>1, State, MarkEffect
<1> HIDE DEF v
<1>3. /\ pending' \in [Channels -> Wake \cup {NoWake}]
      /\ pending'[c] = v /\ \A d \in Channels \ {c} : pending'[d] = pending[d]
  BY <1>1, <1>2, OneWake
<1>4. ASSUME NEW d \in Channels
      PROVE  /\ Present(d)' <=> Present(d)
             /\ Present(d) => /\ SameBatch(pending'[d], pending[d])
                              /\ SameClaim(pending'[d], pending[d])
                              /\ SameCourse(pending'[d], pending[d])
  <2>1. CASE d = c
    BY <1>1, <1>2, <1>3, <2>1, NoWakeApart DEF Present
  <2>2. CASE d # c
    BY <1>3, <2>2 DEF Present, SameBatch, SameClaim, SameCourse
  <2> QED BY <2>1, <2>2
<1>5. noticing' \subseteq Nat
  BY <1>1 DEF IInv, TypeOK
<1> QED BY <1>1, <1>3, <1>4, <1>5, MarksKeep

LEMMA NoticeSentKeeps ==
    ASSUME IInv, NEW k \in noticing, NoticeSent(k)
    PROVE  IInv'
<1>1. /\ noticing' = noticing \ {k} /\ UNCHANGED <<direct, widget, conts, history>>
      /\ pending' = [c \in Channels |->
            IF Present(c) /\ pending[c].cont = k /\ ~pending[c].plain
            THEN [pending[c] EXCEPT !.notified = TRUE] ELSE pending[c]]
  BY DEF NoticeSent
<1>2. noticing' \subseteq Nat
  BY <1>1 DEF IInv, TypeOK
<1>3. ASSUME NEW d \in Channels
      PROVE  /\ pending'[d] \in Wake \cup {NoWake}
             /\ Present(d)' <=> Present(d)
             /\ Present(d) => /\ SameBatch(pending'[d], pending[d])
                              /\ SameClaim(pending'[d], pending[d])
                              /\ SameCourse(pending'[d], pending[d])
  <2>1. CASE pending'[d] = pending[d]
    BY <2>1, State DEF Present, SameBatch, SameClaim, SameCourse
  <2>2. CASE Present(d) /\ pending'[d] = [pending[d] EXCEPT !.notified = TRUE]
    <3>1. /\ pending'[d] \in Wake /\ SameBatch(pending'[d], pending[d])
          /\ SameClaim(pending'[d], pending[d]) /\ SameCourse(pending'[d], pending[d])
      BY <2>2, State, MarkEffect
    <3> QED BY <2>2, <3>1, NoWakeApart DEF Present
  <2> QED BY <1>1, <2>1, <2>2
<1>4. pending' \in [Channels -> Wake \cup {NoWake}]
  BY <1>1, <1>3
<1> QED BY <1>1, <1>2, <1>3, <1>4, MarksKeep

\* The list of the notices is of names that were given.
LEMMA NoticesKeep ==
    ASSUME IInv, Escalate \/ \E k \in noticing : NoticeFails(k)
    PROVE  IInv'
<1>1. UNCHANGED <<pending, direct, widget, conts, history>>
  BY DEF Escalate, NoticeFails
<1>2. noticing' \subseteq Nat
  <2>1. \A c \in Channels : Present(c) => pending[c].cont \in Nat
    BY State, WakeFields
  <2>2. CASE Escalate
    BY <2>1, <2>2 DEF Escalate
  <2>3. CASE \E k \in noticing : NoticeFails(k)
    BY <2>3 DEF IInv, TypeOK, NoticeFails
  <2> QED BY <2>2, <2>3
<1>3. \A d \in Channels :
        /\ Present(d)' <=> Present(d)
        /\ Present(d) => /\ SameBatch(pending'[d], pending[d])
                         /\ SameClaim(pending'[d], pending[d])
                         /\ SameCourse(pending'[d], pending[d])
  BY <1>1 DEF Present, SameBatch, SameClaim, SameCourse
<1> QED BY <1>1, <1>2, <1>3, State, MarksKeep

LEMMA LeaseEndsKeeps ==
    ASSUME IInv, NEW c \in Channels, LeaseEnds(c)
    PROVE  IInv'
<1> DEFINE w == pending[c]
           v == [w EXCEPT !.lease = FALSE, !.lapsed = TRUE]
<1>1. /\ Present(c) /\ UNCHANGED <<direct, widget, noticing, conts, history>>
      /\ pending' = [pending EXCEPT ![c].lease = FALSE, ![c].lapsed = TRUE]
  BY DEF LeaseEnds
<1>2. w \in Wake /\ WakeFits(c)
  BY <1>1, State DEF IInv
<1>3. /\ v \in Wake /\ SameBatch(v, w) /\ SameCourse(v, w)
      /\ v.claim = w.claim /\ ~v.lease /\ v.attempts = w.attempts /\ v.lapsed
  BY <1>2, LapseEffect
<1>4. pending' = [pending EXCEPT ![c] = v]
  BY <1>1, <1>2, State DEF Wake
<1> HIDE DEF v
<1>5. /\ pending' \in [Channels -> Wake \cup {NoWake}]
      /\ pending'[c] = v /\ \A d \in Channels \ {c} : pending'[d] = pending[d]
  BY <1>3, <1>4, OneWake
<1>6. TypeOK' /\ FlightsFit'
  BY <1>1, <1>5 DEF IInv, TypeOK, FlightsFit, history
<1>7. ASSUME NEW d \in Channels \ {c}, Present(d)'
      PROVE  WakeFits(d)'
  BY <1>1, <1>5, <1>7, State, LeftAlone DEF history
<1>8. WakeFits(c)'
  <2>1. /\ (XRuns(c)' <=> XRuns(c)) /\ (XAhead(c)' <=> XAhead(c))
        /\ (DRuns(c)' <=> DRuns(c)) /\ (DAhead(c)' <=> DAhead(c))
    BY <1>1, <1>3, <1>5 DEF XRuns, XAhead, DRuns, DAhead, SameBatch
  <2>2. NamesFit(c)' /\ ClaimsFit(c)'
    BY <1>1, <1>2, <1>3, <1>5, <2>1 DEF WakeFits, NamesFit, ClaimsFit, SameBatch
  <2>3. TurnsPaid(c)' /\ OneTurn(c)'
    BY <1>2, <1>3, <1>5, <2>1 DEF WakeFits, TurnsPaid, OneTurn, SameBatch, SameCourse
  <2>4. HeldOnce(c)' /\ TurnsSeen(c)'
    BY <1>1, <1>2, <1>3, <1>5
    DEF WakeFits, HeldOnce, Held, TurnsSeen, SameBatch, SameCourse, history
  <2> QED BY <2>2, <2>3, <2>4 DEF WakeFits
<1> QED BY <1>6, <1>7, <1>8 DEF IInv

\* What a restart leaves of the wakes: the loop's claims are nobody's.
LEMMA OrphanedEffect ==
    ASSUME IInv
    PROVE  /\ Orphaned \in [Channels -> Wake \cup {NoWake}]
           /\ \A c \in Channels :
                /\ Orphaned[c] # NoWake <=> Present(c)
                /\ Present(c) =>
                     /\ Orphaned[c] \in Wake /\ SameBatch(Orphaned[c], pending[c])
                     /\ SameCourse(Orphaned[c], pending[c])
                     /\ Orphaned[c].lease = pending[c].lease
                     /\ Orphaned[c].attempts = pending[c].attempts
                     /\ Orphaned[c].lapsed = pending[c].lapsed
                     /\ Orphaned[c].claim =
                          IF pending[c].claim = "direct" THEN "orphan" ELSE pending[c].claim
<1>1. ASSUME NEW c \in Channels
      PROVE  /\ Orphaned[c] \in Wake \cup {NoWake}
             /\ Orphaned[c] # NoWake <=> Present(c)
             /\ Present(c) =>
                  /\ Orphaned[c] \in Wake /\ SameBatch(Orphaned[c], pending[c])
                  /\ SameCourse(Orphaned[c], pending[c])
                  /\ Orphaned[c].lease = pending[c].lease
                  /\ Orphaned[c].attempts = pending[c].attempts
                  /\ Orphaned[c].lapsed = pending[c].lapsed
                  /\ Orphaned[c].claim =
                       IF pending[c].claim = "direct" THEN "orphan" ELSE pending[c].claim
  <2> DEFINE v == Orphaned[c]
  <2>1. CASE Present(c) /\ pending[c].claim = "direct"
    <3>1. v = [pending[c] EXCEPT !.claim = "orphan"]
      BY <2>1 DEF Orphaned
    <3> HIDE DEF v
    <3>2. /\ v \in Wake /\ SameBatch(v, pending[c]) /\ SameCourse(v, pending[c])
          /\ v.claim = "orphan" /\ v.lease = pending[c].lease
          /\ v.attempts = pending[c].attempts /\ v.lapsed = pending[c].lapsed
      BY <2>1, <3>1, State, OrphanEffect
    <3> QED BY <2>1, <3>2, NoWakeApart DEF v
  <2>2. CASE ~(Present(c) /\ pending[c].claim = "direct")
    <3>1. v = pending[c]
      BY <2>2 DEF Orphaned
    <3> QED BY <2>2, <3>1, State DEF Present, SameBatch, SameCourse
  <2> QED BY <2>1, <2>2
<1>2. Orphaned \in [Channels -> Wake \cup {NoWake}]
  BY <1>1 DEF Orphaned
<1> QED BY <1>1, <1>2

\* A wake whose claim was the loop's, after the loop has died without a turn.
LEMMA OrphanFits ==
    ASSUME IInv, NEW c \in Channels, Present(c), NEW p, p = Orphaned, pending'[c] = p[c],
           ~DRuns(c)', ~DAhead(c)', UNCHANGED <<widget, conts, armed, givenUp>>,
           shown \subseteq shown'
    PROVE  WakeFits(c)'
<1> DEFINE w == pending[c]
           v == pending'[c]
<1>1. w \in Wake /\ WakeFits(c) /\ w.turns \in Nat /\ w.attempts \in Nat
  BY State, WakeFields DEF IInv
<1>2. /\ SameBatch(v, w) /\ SameCourse(v, w) /\ v.lease = w.lease
      /\ v.attempts = w.attempts /\ v.lapsed = w.lapsed
      /\ v.claim = IF w.claim = "direct" THEN "orphan" ELSE w.claim
  BY OrphanedEffect
<1>3. (XRuns(c)' <=> XRuns(c)) /\ (XAhead(c)' <=> XAhead(c))
  BY <1>2 DEF XRuns, XAhead, SameBatch
<1>4. NamesFit(c)' /\ ClaimsFit(c)'
  BY <1>1, <1>2, <1>3 DEF WakeFits, NamesFit, ClaimsFit, SameBatch
<1>5. TurnsPaid(c)'
  BY <1>1, <1>2, <1>3 DEF WakeFits, TurnsPaid, SameBatch, SameCourse
<1>6. OneTurn(c)'
  BY <1>1, <1>2, <1>3 DEF WakeFits, OneTurn, SameCourse
<1>7. HeldOnce(c)' /\ TurnsSeen(c)'
  BY <1>1, <1>2 DEF WakeFits, HeldOnce, Held, TurnsSeen, SameBatch, SameCourse
<1> QED BY <1>4, <1>5, <1>6, <1>7 DEF WakeFits

LEMMA CrashKeeps ==
    ASSUME IInv, Crash
    PROVE  IInv'
<1> DEFINE p == Orphaned
<1>1. /\ noticing' = {} /\ direct' = Idle
      /\ UNCHANGED <<widget, conts, armed, givenUp>>
  BY DEF Crash
<1>2. direct' \in Flight(DPhases) /\ \A d \in Channels : ~DRuns(d)' /\ ~DAhead(d)'
  <2>1. Idle \in Flight(DPhases)
    BY IdleEffect DEF DPhases
  <2> QED BY <1>1, <2>1, IdleEffect DEF DRuns, DAhead
<1>3. /\ p \in [Channels -> Wake \cup {NoWake}]
      /\ \A c \in Channels : p[c] # NoWake <=> Present(c)
  BY OrphanedEffect
<1>4. shown \subseteq shown' /\ shown' \subseteq Events /\ shown' \subseteq armed
  BY PromptedFacts DEF Crash, IInv, TypeOK, FlightsFit
<1>5. FlightsFit'
  BY <1>1, <1>4, IdleEffect, State, ContentsFacts DEF IInv, FlightsFit
<1>6. pending' \in [Channels -> Wake \cup {NoWake}] => TypeOK'
  BY <1>1, <1>2, <1>4 DEF IInv, TypeOK, DPhases
<1>7. ASSUME NEW d \in Channels, Present(d)', pending'[d] = p[d]
      PROVE  WakeFits(d)'
  <2>1. Present(d)
    BY <1>3, <1>7 DEF Present
  <2> QED BY <1>1, <1>2, <1>4, <1>7, <2>1, OrphanFits
<1>8. CASE pending' = p
  BY <1>3, <1>5, <1>6, <1>7, <1>8 DEF IInv
<1>9. CASE /\ MaySubmit /\ shown' = shown \cup Prompted(direct.msgs)
           /\ \E r \in BOOLEAN : pending' = WithTurn(p, direct.ch, direct.cont, r)
  <2>1. PICK r \in BOOLEAN : pending' = WithTurn(p, direct.ch, direct.cont, r)
    BY <1>9
  <2>2. direct.phase = "claimed" /\ direct.cont \in Nat
    BY <1>9, State DEF MaySubmit
  <2>3. PICK c \in Channels : c = direct.ch
    BY <2>2 DEF IInv, FlightsFit
  <2> HIDE DEF p
  <2>4. /\ pending' \in [Channels -> Wake \cup {NoWake}]
        /\ \A d \in Channels \ {c} : pending'[d] = p[d]
        /\ \/ ~(p[c] # NoWake /\ direct.cont # 0 /\ p[c].cont = direct.cont) /\ pending'[c] = p[c]
           \/ /\ p[c] # NoWake /\ direct.cont # 0 /\ p[c].cont = direct.cont
              /\ pending'[c] \in Wake /\ SameBatch(pending'[c], p[c]) /\ SameClaim(pending'[c], p[c])
              /\ pending'[c].delivered = p[c].delivered /\ pending'[c].acked = p[c].acked
              /\ pending'[c].blocked = p[c].blocked /\ pending'[c].turns = p[c].turns + 1
    BY <1>3, <2>1, <2>2, <2>3, WithTurnEffect
  <2>5. ASSUME /\ p[c] # NoWake /\ direct.cont # 0 /\ p[c].cont = direct.cont
               /\ pending'[c] \in Wake /\ SameBatch(pending'[c], p[c]) /\ SameClaim(pending'[c], p[c])
               /\ pending'[c].delivered = p[c].delivered /\ pending'[c].acked = p[c].acked
               /\ pending'[c].blocked = p[c].blocked /\ pending'[c].turns = p[c].turns + 1
        PROVE  WakeFits(c)'
    <3>1. /\ Present(c) /\ SameBatch(p[c], pending[c]) /\ SameCourse(p[c], pending[c])
          /\ p[c].lease = pending[c].lease /\ p[c].attempts = pending[c].attempts
          /\ p[c].lapsed = pending[c].lapsed
          /\ p[c].claim = IF pending[c].claim = "direct" THEN "orphan" ELSE pending[c].claim
      BY <2>5, OrphanedEffect DEF p
    <3>2. DAhead(c) /\ Present(c)'
      BY <2>2, <2>3, <2>5, <3>1, NoWakeApart DEF DAhead, DRuns, Present, SameBatch
    <3>3. /\ SameBatch(pending'[c], pending[c])
          /\ pending'[c].attempts = pending[c].attempts /\ pending'[c].lapsed = pending[c].lapsed
          /\ pending'[c].lease = pending[c].lease
          /\ pending'[c].claim = IF pending[c].claim = "direct" THEN "orphan" ELSE pending[c].claim
          /\ pending'[c].delivered = pending[c].delivered /\ pending'[c].acked = pending[c].acked
          /\ pending'[c].blocked = pending[c].blocked /\ pending'[c].turns = pending[c].turns + 1
      BY <2>5, <3>1 DEF SameBatch, SameClaim, SameCourse
    <3>4. /\ pending'[c].claim \in {pending[c].claim, "orphan"} /\ pending'[c].claim # "direct"
          /\ pending[c].claim = "none" => pending'[c].claim = "none"
      BY <3>3
    <3> QED BY <1>1, <1>2, <1>9, <3>1, <3>2, <3>3, <3>4, DirectTurn
  <2>6. ASSUME NEW d \in Channels, Present(d)'
        PROVE  WakeFits(d)'
    <3>1. CASE pending'[d] = p[d]
      BY <1>7, <2>6, <3>1
    <3>2. CASE pending'[d] # p[d]
      BY <2>4, <2>5, <3>2
    <3> QED BY <3>1, <3>2
  <2> QED BY <1>5, <1>6, <2>4, <2>6 DEF IInv
<1> QED BY <1>8, <1>9 DEF Crash

LEMMA InitHolds == Init => IInv
<1> SUFFICES ASSUME Init PROVE IInv
  OBVIOUS
<1>1. /\ pending = [c \in Channels |-> NoWake] /\ direct = Idle
      /\ widget = [c \in Channels |-> Idle]
      /\ noticing = {} /\ conts = 0 /\ armed = {} /\ shown = {} /\ givenUp = {}
  BY DEF Init
<1>2. Idle \in Flight(DPhases) /\ Idle \in Flight(XPhases)
  BY IdleEffect DEF DPhases, XPhases
<1>3. TypeOK
  BY <1>1, <1>2 DEF TypeOK, DPhases, XPhases
<1>4. FlightsFit
  BY <1>1, IdleEffect, ContentsFacts DEF FlightsFit
<1> QED BY <1>1, <1>3, <1>4 DEF IInv, Present

\* Every step, of whichever carrier, keeps the invariant.
LEMMA StepKeeps == IInv /\ [Next]_vars => IInv'
<1> SUFFICES ASSUME IInv, [Next]_vars PROVE IInv'
  OBVIOUS
<1>1. CASE UNCHANGED vars
  <2>1. TypeOK' /\ FlightsFit'
    BY <1>1 DEF vars, history, IInv, TypeOK, FlightsFit
  <2>2. ASSUME NEW d \in Channels, Present(d)'
        PROVE  WakeFits(d)'
    BY <1>1, <2>2, State, LeftAlone DEF vars, history
  <2> QED BY <2>1, <2>2 DEF IInv
<1>2. CASE \E e \in Events : Arm(e)
  BY <1>2, ArmKeeps
<1>3. ASSUME NEW c \in Channels,
             \/ CancelPending(c) \/ StatusPromotes(c)
             \/ WidgetClaims(c) \/ WidgetSubmits(c)
             \/ WidgetAcks(c) \/ WidgetGone(c)
             \/ Look(c) \/ ModelAcks(c)
             \/ LeaseEnds(c) \/ GrowsOld(c)
      PROVE  IInv'
  BY <1>3, CancelPendingKeeps, StatusPromotesKeeps, WidgetClaimsKeeps, WidgetSubmitsKeeps,
     WidgetAcksKeeps, WidgetGoneKeeps, LookKeeps, ModelAcksKeeps, LeaseEndsKeeps, GrowsOldKeeps
<1>4. CASE ProbeFails \/ ProbeNeedsOwner \/ ProbeReleases
  BY <1>4, ProbeFailsKeeps, ProbeNeedsOwnerKeeps, ProbeReleasesKeeps
<1>5. CASE DirectClaims \/ DirectSubmits \/ DirectFinalizes
  BY <1>5, DirectClaimsKeeps, DirectSubmitsKeeps, DirectFinalizesKeeps
<1>6. CASE Escalate \/ \E k \in noticing : NoticeSent(k) \/ NoticeFails(k)
  BY <1>6, NoticesKeep, NoticeSentKeeps
<1>7. CASE Crash
  BY <1>7, CrashKeeps
<1> QED BY <1>1, <1>2, <1>3, <1>4, <1>5, <1>6, <1>7 DEF Next

\* What a carrier, the owner, the model and the clock leave of the wakes fits
\* together, and has the types of the module.
THEOREM WakesFit == Spec => []IInv
  BY InitHolds, StepKeeps, PTL DEF Spec

THEOREM TypesHold == Spec => []TypeOK
<1>1. IInv => TypeOK
  BY DEF IInv
<1> QED BY <1>1, WakesFit, PTL

\* The invariant accounts for every turn: one claim, one turn, one attempt.
LEMMA ResendFollows == IInv => ResendNeedsLapse
<1> SUFFICES ASSUME IInv, NEW c \in Channels, Present(c)
             PROVE  /\ pending[c].turns <= MaxAttempts
                    /\ pending[c].turns > 1 => pending[c].lapsed
  BY DEF ResendNeedsLapse
<1>1. WakeFits(c) /\ pending[c] \in Wake
  BY State DEF IInv
<1>2. /\ pending[c].turns \in Nat /\ pending[c].attempts \in Nat
      /\ pending[c].attempts <= MaxAttempts /\ MaxAttempts \in Nat
  BY <1>1, WakeFields, WakeAssumption DEF WakeAssumption
<1> QED BY <1>1, <1>2 DEF WakeFits, TurnsPaid, OneTurn

\* A continuation is put twice into the chat only behind a claim that lapsed,
\* and never more often than it has attempts.
THEOREM ResendsNeedALapse == Spec => []ResendNeedsLapse
  BY WakesFit, ResendFollows, PTL

-----------------------------------------------------------------------------
(* The wakes implement EventDelivery.                                      *)

\* An event is held by the wake of its chat; and there it may be cut off.
HeldAtHome(e) == Present(Home[e]) /\ e \in Held(pending[Home[e]])
CutAtHome(e) ==
    /\ Present(Home[e]) /\ pending[Home[e]].rebatched
    /\ \E i \in DOMAIN pending[Home[e]].msgs :
          i > Visible /\ pending[Home[e]].msgs[i] = e

LEMMA AtHome ==
    IInv => \A e \in Events : /\ Home[e] \in Channels
                              /\ HeldSomewhere(e) <=> HeldAtHome(e)
                              /\ CutOff(e) <=> CutAtHome(e)
                              /\ CutAtHome(e) => HeldAtHome(e)
                              /\ HeldAtHome(e) => e \in armed /\ e \notin givenUp
<1> SUFFICES ASSUME IInv, NEW e \in Events
             PROVE  /\ Home[e] \in Channels
                    /\ HeldSomewhere(e) <=> HeldAtHome(e)
                    /\ CutOff(e) <=> CutAtHome(e)
                    /\ CutAtHome(e) => HeldAtHome(e)
                    /\ HeldAtHome(e) => e \in armed /\ e \notin givenUp
  OBVIOUS
<1>1. Home[e] \in Channels
  BY WakeAssumption DEF WakeAssumption
<1>2. ASSUME NEW c \in Channels, Present(c), e \in Held(pending[c])
      PROVE  c = Home[e] /\ e \in armed /\ e \notin givenUp
  BY <1>2 DEF IInv, WakeFits, HeldOnce
<1>3. ASSUME NEW c \in Channels,
             \E i \in DOMAIN pending[c].msgs : i > Visible /\ pending[c].msgs[i] = e
      PROVE  e \in Held(pending[c])
  BY <1>3 DEF Held, Contents
<1>4. CutAtHome(e) => HeldAtHome(e)
  BY <1>1, <1>3 DEF CutAtHome, HeldAtHome
<1>5. HeldSomewhere(e) <=> HeldAtHome(e)
  BY <1>1, <1>2 DEF HeldSomewhere, HeldAtHome
<1>6. CutOff(e) <=> CutAtHome(e)
  BY <1>1, <1>2, <1>3 DEF CutOff, CutAtHome
<1> QED BY <1>1, <1>2, <1>4, <1>5, <1>6 DEF HeldAtHome

LEMMA AtHomeNext ==
    IInv' => \A e \in Events : /\ HeldSomewhere(e)' <=> HeldAtHome(e)'
                               /\ CutOff(e)' <=> CutAtHome(e)'
                               /\ CutAtHome(e)' => HeldAtHome(e)'
                               /\ HeldAtHome(e)' => e \in armed' /\ e \notin givenUp'
<1>1. (IInv => \A e \in Events : /\ Home[e] \in Channels
                                 /\ HeldSomewhere(e) <=> HeldAtHome(e)
                                 /\ CutOff(e) <=> CutAtHome(e)
                                 /\ CutAtHome(e) => HeldAtHome(e)
                                 /\ HeldAtHome(e) => e \in armed /\ e \notin givenUp)'
  BY AtHome, PTL
<1> QED BY <1>1

\* How a step may treat an event.
Treats(e) ==
    /\ (e \in armed => e \in armed') /\ (e \in shown => e \in shown')
    /\ e \in givenUp => e \in givenUp'
    /\ e \notin armed /\ e \in armed' => e \notin shown' /\ ~CutAtHome(e)' /\ HeldAtHome(e)'
    /\ HeldAtHome(e) /\ ~HeldAtHome(e)' => e \in shown' \/ e \in givenUp' \/ CutAtHome(e)
    /\ e \in armed /\ HeldAtHome(e)' => HeldAtHome(e)
    /\ CutAtHome(e) /\ HeldAtHome(e)' => CutAtHome(e)'
    /\ e \in givenUp' /\ e \notin givenUp => HeldAtHome(e)

\* An event that is treated so moves as EventDelivery lets it.
LEMMA TreatedMoves ==
    ASSUME IInv, IInv', NEW e \in Events, Treats(e), EventState(e)' # EventState(e)
    PROVE  <<EventState(e), EventState(e)'>> \in Delivery!Moves
<1>1. /\ HeldSomewhere(e) <=> HeldAtHome(e)
      /\ CutOff(e) <=> CutAtHome(e)
      /\ CutAtHome(e) => HeldAtHome(e)
      /\ HeldAtHome(e) => e \in armed /\ e \notin givenUp
  BY AtHome
<1>2. /\ HeldSomewhere(e)' <=> HeldAtHome(e)'
      /\ CutOff(e)' <=> CutAtHome(e)'
      /\ CutAtHome(e)' => HeldAtHome(e)'
      /\ HeldAtHome(e)' => e \in armed' /\ e \notin givenUp'
  BY AtHomeNext
<1>3. shown \subseteq armed /\ givenUp \subseteq armed
  BY DEF IInv, FlightsFit
<1> QED BY <1>1, <1>2, <1>3 DEF Treats, EventState, Delivery!Moves

\* A step that leaves the batch of an event's chat alone treats it well.
LEMMA Unmoved ==
    ASSUME IInv, NEW e \in Events, NEW c \in Channels, c = Home[e],
           Present(c)' <=> Present(c), Present(c) => SameBatch(pending'[c], pending[c]),
           e \in armed' <=> e \in armed, e \in givenUp' <=> e \in givenUp, shown \subseteq shown'
    PROVE  Treats(e)
<1>1. HeldAtHome(e)' <=> HeldAtHome(e)
  BY DEF HeldAtHome, Held, SameBatch
<1>2. CutAtHome(e)' <=> CutAtHome(e)
  BY DEF CutAtHome, SameBatch
<1> QED BY <1>1, <1>2 DEF Treats

\* The steps that leave every batch alone.
Quiet ==
    /\ armed' = armed /\ givenUp' = givenUp /\ shown \subseteq shown'
    /\ \A c \in Channels : /\ Present(c)' <=> Present(c)
                           /\ Present(c) => SameBatch(pending'[c], pending[c])

LEMMA QuietTreats ==
    ASSUME IInv, Quiet, NEW e \in Events
    PROVE  Treats(e)
<1>1. Home[e] \in Channels
  BY WakeAssumption DEF WakeAssumption
<1> QED BY <1>1, Unmoved DEF Quiet

\* One wake is written and keeps its batch.
LEMMA QuietWrite ==
    ASSUME IInv, NEW c \in Channels, Present(c), NEW v \in Wake, SameBatch(v, pending[c]),
           pending' = [pending EXCEPT ![c] = v],
           armed' = armed, givenUp' = givenUp, shown \subseteq shown'
    PROVE  Quiet
<1>1. pending'[c] = v /\ \A d \in Channels \ {c} : pending'[d] = pending[d]
  BY OneWake
<1> QED BY <1>1, NoWakeApart DEF Quiet, Present, SameBatch

\* No wake is written.
LEMMA QuietStay ==
    ASSUME UNCHANGED pending, armed' = armed, givenUp' = givenUp, shown \subseteq shown'
    PROVE  Quiet
  BY DEF Quiet, Present, SameBatch

LEMMA WidgetQuiet ==
    ASSUME IInv, NEW c \in Channels, WidgetClaims(c) \/ WidgetSubmits(c) \/ WidgetGone(c)
    PROVE  Quiet
<1> DEFINE w == pending[c]
<1>1. CASE WidgetClaims(c)
  <2>1. /\ MayClaim(c, "x") /\ pending' = [pending EXCEPT ![c] = Claimed(w, "x")]
        /\ UNCHANGED history
    BY <1>1, State DEF WidgetClaims
  <2>2. Claimed(w, "x") \in Wake /\ SameBatch(Claimed(w, "x"), w) /\ Present(c)
    BY <2>1, MayClaimFacts, ClaimedEffect
  <2> QED BY <2>1, <2>2, QuietWrite DEF history
<1>2. CASE WidgetSubmits(c)
  <2>1. PICK r \in BOOLEAN : pending' = WithTurn(pending, c, widget[c].cont, r)
    BY <1>2, Zenon DEF WidgetSubmits
  <2>2. armed' = armed /\ givenUp' = givenUp /\ shown \subseteq shown'
    BY <1>2 DEF WidgetSubmits
  <2>3. /\ \A d \in Channels \ {c} : pending'[d] = pending[d]
        /\ \/ pending'[c] = w
           \/ w # NoWake /\ pending'[c] \in Wake /\ SameBatch(pending'[c], w)
    BY <2>1, State, WithTurnEffect
  <2> QED BY <2>2, <2>3, NoWakeApart DEF Quiet, Present, SameBatch
<1>3. CASE WidgetGone(c)
  <2>1. UNCHANGED history
    BY <1>3 DEF WidgetGone
  <2>2. CASE UNCHANGED pending
    BY <2>1, <2>2, QuietStay DEF history
  <2>3. CASE Present(c) /\ pending' = [pending EXCEPT ![c] = [w EXCEPT !.claim = "orphan"]]
    BY <2>1, <2>3, State, OrphanEffect, QuietWrite DEF history
  <2> QED BY <1>3, <2>2, <2>3 DEF WidgetGone
<1> QED BY <1>1, <1>2, <1>3

LEMMA LoopQuiet ==
    ASSUME IInv, ProbeFails \/ ProbeNeedsOwner \/ ProbeReleases \/ DirectClaims \/ DirectSubmits
    PROVE  Quiet
<1>0. PICK c \in Channels : c = direct.ch
  BY DEF ProbeFails, ProbeNeedsOwner, ProbeReleases, DirectClaims, DirectSubmits, MaySubmit,
         IInv, FlightsFit
<1> DEFINE w == pending[c]
<1>1. CASE UNCHANGED pending /\ UNCHANGED history
  BY <1>1, QuietStay DEF history
<1>2. CASE ProbeNeedsOwner
  <2> DEFINE v == [w EXCEPT !.blocked = "auth"]
  <2>1. UNCHANGED history
    BY <1>2 DEF ProbeNeedsOwner
  <2>2. CASE Present(c) /\ pending' = [pending EXCEPT ![c] = v]
    <3>0. w \in Wake
      BY <2>2, State
    <3>1. v \in Wake /\ SameBatch(v, w)
      <4> HIDE DEF w
      <4> QED BY ONLY <3>0 DEF Wake, SameBatch
    <3> QED BY <2>1, <2>2, <3>1, QuietWrite DEF history
  <2> QED BY <1>0, <1>1, <1>2, <2>1, <2>2 DEF ProbeNeedsOwner
<1>3. CASE ProbeReleases
  <2> DEFINE v == [w EXCEPT !.blocked = "no", !.notified = FALSE]
  <2>1. UNCHANGED history
    BY <1>3 DEF ProbeReleases
  <2>2. CASE /\ Present(c)
             /\ pending' = [pending EXCEPT ![c].blocked = "no", ![c].notified = FALSE]
    <3>0. w \in Wake
      BY <2>2, State
    <3>1. v \in Wake /\ SameBatch(v, w)
      <4> HIDE DEF w
      <4> QED BY ONLY <3>0 DEF Wake, SameBatch
    <3>2. pending' = [pending EXCEPT ![c] = v]
      BY <2>2, <3>0, State DEF Wake
    <3> QED BY <2>1, <2>2, <3>1, <3>2, QuietWrite DEF history
  <2> QED BY <1>0, <1>1, <1>3, <2>1, <2>2 DEF ProbeReleases
<1>4. CASE DirectClaims
  <2>1. CASE MayClaim(c, "direct") /\ pending' = [pending EXCEPT ![c] = Claimed(w, "direct")]
    <3>1. Claimed(w, "direct") \in Wake /\ SameBatch(Claimed(w, "direct"), w) /\ Present(c)
      BY <2>1, MayClaimFacts, ClaimedEffect
    <3> QED BY <1>4, <2>1, <3>1, QuietWrite DEF DirectClaims, history
  <2> QED BY <1>0, <1>1, <1>4, <2>1 DEF DirectClaims
<1>5. CASE DirectSubmits
  <2>1. PICK r \in BOOLEAN : pending' = WithTurn(pending, c, direct.cont, r)
    BY <1>0, <1>5 DEF DirectSubmits
  <2>2. armed' = armed /\ givenUp' = givenUp /\ shown \subseteq shown'
    BY <1>5 DEF DirectSubmits
  <2>3. /\ \A d \in Channels \ {c} : pending'[d] = pending[d]
        /\ \/ pending'[c] = w
           \/ w # NoWake /\ pending'[c] \in Wake /\ SameBatch(pending'[c], w)
    BY <2>1, State, WithTurnEffect
  <2> QED BY <2>2, <2>3, NoWakeApart DEF Quiet, Present, SameBatch
<1> QED BY <1>1, <1>2, <1>3, <1>4, <1>5 DEF ProbeFails

LEMMA ClockQuiet ==
    ASSUME IInv, NEW c \in Channels, LeaseEnds(c) \/ GrowsOld(c) \/ Look(c)
    PROVE  Quiet
<1> DEFINE w == pending[c]
<1>1. CASE LeaseEnds(c)
  <2> DEFINE v == [w EXCEPT !.lease = FALSE, !.lapsed = TRUE]
  <2>1. /\ Present(c) /\ w \in Wake /\ UNCHANGED history
        /\ pending' = [pending EXCEPT ![c].lease = FALSE, ![c].lapsed = TRUE]
    BY <1>1, State DEF LeaseEnds
  <2>2. v \in Wake /\ SameBatch(v, w)
    BY <2>1 DEF Wake, SameBatch
  <2>3. pending' = [pending EXCEPT ![c] = v]
    BY <2>1, State DEF Wake
  <2> QED BY <2>1, <2>2, <2>3, QuietWrite DEF history
<1>2. CASE GrowsOld(c)
  BY <1>2, State, MarkEffect, QuietWrite DEF GrowsOld, history
<1>3. CASE Look(c)
  BY <1>3, QuietStay DEF Look, history
<1> QED BY <1>1, <1>2, <1>3

LEMMA NoticeQuiet ==
    ASSUME IInv, Escalate \/ \E k \in noticing : NoticeSent(k) \/ NoticeFails(k)
    PROVE  Quiet
<1>1. CASE Escalate \/ \E k \in noticing : NoticeFails(k)
  BY <1>1, QuietStay DEF Escalate, NoticeFails, history
<1>2. ASSUME NEW k \in noticing, NoticeSent(k)
      PROVE  Quiet
  <2>1. /\ UNCHANGED history
        /\ pending' = [c \in Channels |->
              IF Present(c) /\ pending[c].cont = k /\ ~pending[c].plain
              THEN [pending[c] EXCEPT !.notified = TRUE] ELSE pending[c]]
    BY <1>2 DEF NoticeSent
  <2>2. ASSUME NEW c \in Channels
        PROVE  /\ Present(c)' <=> Present(c)
               /\ Present(c) => SameBatch(pending'[c], pending[c])
    <3>1. CASE pending'[c] = pending[c]
      BY <3>1 DEF Present, SameBatch
    <3>2. CASE Present(c) /\ pending'[c] = [pending[c] EXCEPT !.notified = TRUE]
      BY <3>2, State, MarkEffect, NoWakeApart DEF Present
    <3> QED BY <2>1, <3>1, <3>2
  <2> QED BY <2>1, <2>2 DEF Quiet, history
<1> QED BY <1>1, <1>2

LEMMA CrashQuiet ==
    ASSUME IInv, Crash
    PROVE  Quiet
<1> DEFINE p == Orphaned
<1>1. armed' = armed /\ givenUp' = givenUp /\ shown \subseteq shown'
  BY DEF Crash
<1>2. /\ p \in [Channels -> Wake \cup {NoWake}]
      /\ \A c \in Channels : /\ p[c] # NoWake <=> Present(c)
                             /\ Present(c) => SameBatch(p[c], pending[c])
  BY OrphanedEffect
<1>3. CASE pending' = p
  BY <1>1, <1>2, <1>3 DEF Quiet, Present
<1>4. CASE MaySubmit /\ \E r \in BOOLEAN : pending' = WithTurn(p, direct.ch, direct.cont, r)
  <2>1. PICK r \in BOOLEAN : pending' = WithTurn(p, direct.ch, direct.cont, r)
    BY <1>4
  <2>2. PICK c \in Channels : c = direct.ch
    BY <1>4 DEF MaySubmit, IInv, FlightsFit
  <2>3. direct.cont \in Nat
    BY State
  <2> HIDE DEF p
  <2>4. /\ \A d \in Channels \ {c} : pending'[d] = p[d]
        /\ \/ pending'[c] = p[c]
           \/ p[c] # NoWake /\ pending'[c] \in Wake /\ SameBatch(pending'[c], p[c])
    BY <1>2, <2>1, <2>2, <2>3, WithTurnEffect
  <2>5. ASSUME NEW d \in Channels
        PROVE  /\ Present(d)' <=> Present(d)
               /\ Present(d) => SameBatch(pending'[d], pending[d])
    BY <1>2, <2>4, NoWakeApart DEF Present, SameBatch
  <2> QED BY <1>1, <2>5 DEF Quiet
<1> QED BY <1>3, <1>4 DEF Crash

\* An event held at home is in the batch or in the queue behind it, not in both.
LEMMA HeldWhere ==
    ASSUME IInv, NEW e \in Events, NEW c \in Channels, c = Home[e], Present(c)
    PROVE  /\ HeldAtHome(e) <=> e \in Contents(pending[c].msgs) \/ e \in Contents(pending[c].queued)
           /\ CutAtHome(e) => e \in Contents(pending[c].msgs)
           /\ ~(e \in Contents(pending[c].msgs) /\ e \in Contents(pending[c].queued))
<1>1. HeldOnce(c)
  BY DEF IInv, WakeFits
<1> QED BY <1>1 DEF HeldAtHome, CutAtHome, Held, HeldOnce, Contents

\* What was put into the chat, or acknowledged, was shown or is cut off.
LEMMA SentWasSeen ==
    ASSUME IInv, NEW e \in Events, NEW c \in Channels, c = Home[e], Present(c),
           pending[c].turns > 0 \/ pending[c].acked, e \in Contents(pending[c].msgs)
    PROVE  e \in shown \/ CutAtHome(e)
<1>1. TurnsSeen(c)
  BY DEF IInv, WakeFits
<1> QED BY <1>1 DEF TurnsSeen, CutAtHome, Contents

\* The wake is gone: its events were shown, cut off, or are given up.
LEMMA GoneTreats ==
    ASSUME IInv, NEW e \in Events, NEW c \in Channels, c = Home[e], Present(c), ~Present(c)',
           armed' = armed, shown \subseteq shown', givenUp \subseteq givenUp',
           HeldAtHome(e) => e \in shown' \/ e \in givenUp' \/ CutAtHome(e),
           \A x \in givenUp' \ givenUp : x \in Held(pending[c])
    PROVE  Treats(e)
<1>1. ~HeldAtHome(e)' /\ ~CutAtHome(e)'
  BY DEF HeldAtHome, CutAtHome
<1>2. e \in givenUp' /\ e \notin givenUp => HeldAtHome(e)
  BY DEF HeldAtHome
<1> QED BY <1>1, <1>2 DEF Treats

LEMMA CancelPendingTreats ==
    ASSUME IInv, NEW c \in Channels, CancelPending(c), NEW e \in Events
    PROVE  Treats(e)
<1>1. /\ Present(c) /\ pending' = [pending EXCEPT ![c] = NoWake]
      /\ givenUp' = givenUp \cup (Held(pending[c]) \ shown)
      /\ armed' = armed /\ shown' = shown
  BY DEF CancelPending
<1>2. pending'[c] = NoWake /\ \A d \in Channels \ {c} : pending'[d] = pending[d]
  BY <1>1, OneWake
<1>3. CASE Home[e] = c
  <2>1. HeldAtHome(e) => e \in shown' \/ e \in givenUp'
    BY <1>1, <1>3 DEF HeldAtHome
  <2>2. ~Present(c)' /\ \A x \in givenUp' \ givenUp : x \in Held(pending[c])
    BY <1>1, <1>2 DEF Present
  <2> QED BY <1>1, <1>3, <2>1, <2>2, GoneTreats
<1>4. CASE Home[e] # c
  <2>1. PICK d \in Channels \ {c} : d = Home[e]
    BY <1>4, WakeAssumption DEF WakeAssumption
  <2>2. e \in givenUp' <=> e \in givenUp
    <3>1. e \notin Held(pending[c])
      BY <1>1, <1>4 DEF IInv, WakeFits, HeldOnce
    <3> QED BY <1>1, <3>1
  <2>3. (Present(d)' <=> Present(d)) /\ (Present(d) => SameBatch(pending'[d], pending[d]))
    BY <1>2 DEF Present, SameBatch
  <2> QED BY <1>1, <2>1, <2>2, <2>3, Unmoved
<1> QED BY <1>3, <1>4

\* An acknowledged wake that makes room leaves unseen only what is cut off.
LEMMA PromoteTreats ==
    ASSUME IInv, NEW c \in Channels, Present(c), pending[c].acked, Promote(c, pending[c]),
           UNCHANGED history, NEW e \in Events
    PROVE  Treats(e)
<1> DEFINE w == pending[c]
           v == Promoted(w)
<1>1. w \in Wake /\ conts \in Nat /\ pending' = [pending EXCEPT ![c] = v]
  BY State DEF Promote
<1>2. \/ w.queued = << >> /\ v = NoWake
      \/ v \in Wake /\ v.msgs = w.queued /\ v.queued = << >> /\ v.rebatched
  BY <1>1, PromotedEffect
<1> HIDE DEF v
<1>3. pending'[c] = v /\ \A d \in Channels \ {c} : pending'[d] = pending[d]
  BY <1>1, <1>2, OneWake
<1>4. armed' = armed /\ givenUp' = givenUp /\ shown' = shown
  BY DEF history
<1>5. CASE Home[e] = c
  <2>1. /\ HeldAtHome(e) <=> e \in Contents(w.msgs) \/ e \in Contents(w.queued)
        /\ CutAtHome(e) => e \in Contents(w.msgs)
        /\ ~(e \in Contents(w.msgs) /\ e \in Contents(w.queued))
    BY <1>5, HeldWhere
  <2>2. e \in Contents(w.msgs) => e \in shown \/ CutAtHome(e)
    BY <1>5, SentWasSeen
  <2>3. HeldAtHome(e)' <=> e \in Contents(w.queued)
    <3>1. CASE v = NoWake /\ w.queued = << >>
      BY <1>3, <1>5, <3>1, ContentsFacts DEF HeldAtHome, Present
    <3>2. CASE v \in Wake /\ v.msgs = w.queued /\ v.queued = << >>
      BY <1>3, <1>5, <3>2, NoWakeApart, ContentsFacts DEF HeldAtHome, Held, Present
    <3> QED BY <1>2, <3>1, <3>2
  <2>4. HeldAtHome(e) => e \in armed
    BY AtHome
  <2> QED BY <1>4, <2>1, <2>2, <2>3, <2>4 DEF Treats
<1>6. CASE Home[e] # c
  <2>1. PICK d \in Channels \ {c} : d = Home[e]
    BY <1>6, WakeAssumption DEF WakeAssumption
  <2>2. (Present(d)' <=> Present(d)) /\ (Present(d) => SameBatch(pending'[d], pending[d]))
    BY <1>3 DEF Present, SameBatch
  <2> QED BY <1>4, <2>1, <2>2, Unmoved
<1> QED BY <1>5, <1>6

LEMMA StatusPromotesTreats ==
    ASSUME IInv, NEW c \in Channels, StatusPromotes(c), NEW e \in Events
    PROVE  Treats(e)
  BY PromoteTreats DEF StatusPromotes

LEMMA WidgetAcksTreats ==
    ASSUME IInv, NEW c \in Channels, WidgetAcks(c), NEW e \in Events
    PROVE  Treats(e)
<1> DEFINE w == pending[c]
<1>1. widget[c].phase = "submitted" /\ UNCHANGED history
  BY DEF WidgetAcks
<1>2. CASE UNCHANGED pending
  BY <1>1, <1>2, QuietStay, QuietTreats DEF history
<1>3. CASE Present(c) /\ w.acked /\ Promote(c, w)
  BY <1>1, <1>3, PromoteTreats
<1>4. CASE Present(c) /\ w.claim = "x" /\ w.plain /\ pending' = [pending EXCEPT ![c] = NoWake]
  <2>1. pending'[c] = NoWake /\ \A d \in Channels \ {c} : pending'[d] = pending[d]
    BY <1>4, OneWake
  <2>2. /\ w.queued = << >> /\ widget[c].msgs = w.msgs /\ Contents(widget[c].msgs) \subseteq shown
    BY <1>1, <1>4 DEF IInv, FlightsFit, WakeFits, NamesFit, ClaimsFit
  <2>3. CASE Home[e] = c
    <3>1. HeldAtHome(e) => e \in shown'
      BY <1>1, <1>4, <2>2, <2>3, HeldWhere, ContentsFacts DEF history
    <3> QED BY <1>1, <1>4, <2>1, <2>3, <3>1, GoneTreats DEF history, Present
  <2>4. CASE Home[e] # c
    <3>1. PICK d \in Channels \ {c} : d = Home[e]
      BY <2>4, WakeAssumption DEF WakeAssumption
    <3>2. (Present(d)' <=> Present(d)) /\ (Present(d) => SameBatch(pending'[d], pending[d]))
      BY <2>1 DEF Present, SameBatch
    <3> QED BY <1>1, <3>1, <3>2, Unmoved DEF history
  <2> QED BY <2>3, <2>4
<1>5. CASE Present(c) /\ pending' = [pending EXCEPT ![c] = Delivered(w)]
  BY <1>1, <1>5, State, DeliveredEffect, QuietWrite, QuietTreats DEF history
<1> QED BY <1>2, <1>3, <1>4, <1>5 DEF WidgetAcks

LEMMA DirectFinalizesTreats ==
    ASSUME IInv, DirectFinalizes, NEW e \in Events
    PROVE  Treats(e)
<1>0. PICK c \in Channels : c = direct.ch
  BY DEF DirectFinalizes, IInv, FlightsFit
<1> DEFINE w == pending[c]
<1>1. UNCHANGED history
  BY DEF DirectFinalizes
<1>2. PICK x \in Dispositions :
        IF ~Present(c) \/ w.claim # "direct" \/ w.cont = 0
        THEN UNCHANGED <<pending, conts>>
        ELSE IF x = "delivered" /\ w.acked THEN Promote(c, w)
        ELSE IF x = "delivered"
        THEN pending' = [pending EXCEPT ![c] = Delivered(w)] /\ UNCHANGED conts
        ELSE /\ pending' = [pending EXCEPT ![c] =
                  [w EXCEPT !.claim = "none", !.lease = FALSE,
                            !.blocked = IF x = "not_submitted" THEN "no" ELSE x]]
             /\ UNCHANGED conts
  BY <1>0 DEF DirectFinalizes
<1>3. CASE UNCHANGED pending
  BY <1>1, <1>3, QuietStay, QuietTreats DEF history
<1>4. CASE Present(c) /\ w.acked /\ Promote(c, w)
  BY <1>1, <1>4, PromoteTreats
<1>5. CASE Present(c) /\ pending' = [pending EXCEPT ![c] = Delivered(w)]
  BY <1>1, <1>5, State, DeliveredEffect, QuietWrite, QuietTreats DEF history
<1>6. CASE /\ Present(c) /\ x # "delivered"
           /\ pending' = [pending EXCEPT ![c] =
                  [w EXCEPT !.claim = "none", !.lease = FALSE,
                            !.blocked = IF x = "not_submitted" THEN "no" ELSE x]]
  <2>1. PICK b \in Blocks : b = IF x = "not_submitted" THEN "no" ELSE x
    BY <1>6 DEF Dispositions, Blocks
  <2> DEFINE v == [w EXCEPT !.claim = "none", !.lease = FALSE, !.blocked = b]
  <2>2. w \in Wake /\ b \in Blocks
    BY <1>6, <2>1, State
  <2>3. v \in Wake /\ SameBatch(v, w)
    <3> HIDE DEF w
    <3> QED BY <2>2 DEF Wake, Blocks, SameBatch
  <2>4. pending' = [pending EXCEPT ![c] = v]
    BY <1>6, <2>1
  <2> HIDE DEF v
  <2> QED BY <1>1, <1>6, <2>3, <2>4, QuietWrite, QuietTreats DEF history
<1> QED BY <1>2, <1>3, <1>4, <1>5, <1>6

LEMMA ModelAcksTreats ==
    ASSUME IInv, NEW c \in Channels, ModelAcks(c), NEW e \in Events
    PROVE  Treats(e)
<1> DEFINE w == pending[c]
           u == [w EXCEPT !.acked = TRUE, !.queued = << >>]
           v == IF Leased(w) THEN u ELSE NoWake
<1>1. /\ Present(c) /\ w.turns > 0
      /\ shown' = shown \cup Contents(w.queued)
      /\ pending' = [pending EXCEPT ![c] = v]
      /\ armed' = armed /\ givenUp' = givenUp
  BY DEF ModelAcks
<1>2. w \in Wake
  BY <1>1, State
<1>3. u \in Wake /\ u.msgs = w.msgs /\ u.queued = << >> /\ u.rebatched = w.rebatched
  BY <1>2, AckEffect
<1> HIDE DEF u
<1>4. pending'[c] = v /\ \A d \in Channels \ {c} : pending'[d] = pending[d]
  BY <1>1, <1>3, OneWake
<1>5. CASE Home[e] = c
  <2>1. /\ HeldAtHome(e) <=> e \in Contents(w.msgs) \/ e \in Contents(w.queued)
        /\ CutAtHome(e) => e \in Contents(w.msgs)
    BY <1>1, <1>5, HeldWhere
  <2>2. e \in Contents(w.msgs) => e \in shown \/ CutAtHome(e)
    BY <1>1, <1>5, SentWasSeen
  <2>3. HeldAtHome(e) => e \in shown' \/ CutAtHome(e)
    BY <1>1, <2>1, <2>2
  <2>4. CASE ~Leased(w)
    BY <1>1, <1>4, <1>5, <2>3, <2>4, GoneTreats DEF Present
  <2>5. CASE Leased(w)
    <3>1. pending'[c] = u /\ Present(c)'
      BY <1>3, <1>4, <2>5, NoWakeApart DEF Present
    <3>2. HeldAtHome(e)' <=> e \in Contents(w.msgs)
      BY <1>3, <1>5, <3>1, ContentsFacts DEF HeldAtHome, Held
    <3>3. CutAtHome(e)' <=> CutAtHome(e)
      BY <1>1, <1>3, <1>5, <3>1 DEF CutAtHome
    <3>4. HeldAtHome(e) => e \in armed
      BY AtHome
    <3> QED BY <1>1, <2>1, <2>3, <3>2, <3>3, <3>4 DEF Treats
  <2> QED BY <2>4, <2>5
<1>6. CASE Home[e] # c
  <2>1. PICK d \in Channels \ {c} : d = Home[e]
    BY <1>6, WakeAssumption DEF WakeAssumption
  <2>2. (Present(d)' <=> Present(d)) /\ (Present(d) => SameBatch(pending'[d], pending[d]))
    BY <1>4 DEF Present, SameBatch
  <2> QED BY <1>1, <2>1, <2>2, Unmoved
<1> QED BY <1>5, <1>6

LEMMA ArmTreats ==
    ASSUME IInv, NEW a \in Events, Arm(a), NEW e \in Events
    PROVE  Treats(e)
<1>0. PICK c \in Channels : c = Home[a]
  BY WakeAssumption DEF WakeAssumption
<1> DEFINE w == pending[c]
<1>1. /\ a \notin armed /\ armed' = armed \cup {a} /\ shown' = shown
      /\ a \notin shown /\ a \notin givenUp
  BY DEF Arm, IInv, FlightsFit
<1>2. CASE /\ Present(c) /\ ~w.plain /\ givenUp' = givenUp
           /\ pending' = [pending EXCEPT ![c] = Coalesced(w, a)]
  <2> DEFINE v == Coalesced(w, a)
  <2>1. w \in Wake /\ w.msgs \in Seq(Events) /\ w.queued \in Seq(Events)
    BY <1>2, State, WakeFields
  <2>2. /\ v \in Wake /\ v.rebatched = w.rebatched
        /\ \/ MayMerge(w) /\ v.msgs = Append(w.msgs, a) /\ v.queued = w.queued
           \/ ~MayMerge(w) /\ v.msgs = w.msgs /\ v.queued = Append(w.queued, a)
    BY <2>1, CoalescedEffect
  <2> HIDE DEF v
  <2>3. pending'[c] = v /\ \A d \in Channels \ {c} : pending'[d] = pending[d]
    BY <1>2, <2>2, OneWake DEF v
  <2>4. CASE Home[e] # c
    <3>1. PICK d \in Channels \ {c} : d = Home[e]
      BY <2>4, WakeAssumption DEF WakeAssumption
    <3>2. (Present(d)' <=> Present(d)) /\ (Present(d) => SameBatch(pending'[d], pending[d]))
      BY <2>3 DEF Present, SameBatch
    <3>3. e # a
      BY <1>0, <2>4
    <3> QED BY <1>1, <1>2, <3>1, <3>2, <3>3, Unmoved
  <2>5. CASE Home[e] = c
    <3>1. /\ HeldAtHome(e) <=> e \in Contents(w.msgs) \/ e \in Contents(w.queued)
          /\ CutAtHome(e) => e \in Contents(w.msgs)
      BY <1>2, <2>5, HeldWhere
    <3>2. HeldAtHome(e)' <=> e \in Contents(v.msgs) \/ e \in Contents(v.queued)
      BY <2>2, <2>3, <2>5, NoWakeApart DEF HeldAtHome, Held, Present
    <3>3. HeldAtHome(e)' <=> HeldAtHome(e) \/ e = a
      <4>1. CASE MayMerge(w)
        <5>1. Contents(v.msgs) = Contents(w.msgs) \cup {a} /\ v.queued = w.queued
          BY <2>1, <2>2, <4>1, ContentsFacts
        <5> QED BY <3>1, <3>2, <5>1
      <4>2. CASE ~MayMerge(w)
        <5>1. Contents(v.queued) = Contents(w.queued) \cup {a} /\ v.msgs = w.msgs
          BY <2>1, <2>2, <4>2, ContentsFacts
        <5> QED BY <3>1, <3>2, <5>1
      <4> QED BY <4>1, <4>2
    <3>4. HeldAtHome(e) => e # a /\ e \in armed
      BY <1>1, AtHome
    <3>5. DOMAIN w.msgs = 1..Len(w.msgs) /\ Len(w.msgs) \in Nat /\ Visible \in Nat
      BY <2>1, WakeAssumption DEF WakeAssumption
    <3>6. CutAtHome(e) => CutAtHome(e)'
      <4>1. CASE MayMerge(w)
        <5>1. \A i \in DOMAIN w.msgs : i \in DOMAIN v.msgs /\ v.msgs[i] = w.msgs[i]
          BY <2>1, <2>2, <3>5, <4>1
        <5> QED BY <2>2, <2>3, <2>5, <5>1, NoWakeApart DEF CutAtHome, Present
      <4>2. CASE ~MayMerge(w)
        BY <2>2, <2>3, <2>5, <4>2, NoWakeApart DEF CutAtHome, Present
      <4> QED BY <4>1, <4>2
    <3>7. e = a => ~CutAtHome(e)'
      <4>1. e = a => e \notin Contents(w.msgs)
        BY <3>1, <3>4
      <4>2. CASE MayMerge(w)
        <5>1. /\ DOMAIN v.msgs = 1..(Len(w.msgs) + 1) /\ Len(w.msgs) < Visible
          BY <2>1, <2>2, <4>2 DEF MayMerge
        <5>2. \A i \in DOMAIN v.msgs : ~(i > Visible)
          BY <3>5, <5>1
        <5> QED BY <2>3, <2>5, <5>2 DEF CutAtHome
      <4>3. CASE ~MayMerge(w)
        BY <2>2, <2>3, <2>5, <4>1, <4>3 DEF CutAtHome, Contents
      <4> QED BY <4>2, <4>3
    <3> QED BY <1>1, <1>2, <3>3, <3>4, <3>6, <3>7 DEF Treats
  <2> QED BY <2>4, <2>5
<1>3. CASE /\ Present(c) => w.plain /\ ~Leased(w)
           /\ conts' = IF a \in Plain THEN conts ELSE conts + 1
           /\ pending' = [pending EXCEPT ![c] =
                 NewWake(a, a \in Plain, IF a \in Plain THEN 0 ELSE conts + 1)]
           /\ givenUp' = IF Present(c) THEN givenUp \cup (Held(w) \ shown) ELSE givenUp
  <2>1. PICK p \in BOOLEAN, k \in Nat : pending' = [pending EXCEPT ![c] = NewWake(a, p, k)]
    <3>1. (a \in Plain) \in BOOLEAN /\ (IF a \in Plain THEN 0 ELSE conts + 1) \in Nat
      BY State
    <3> QED BY <1>3, <3>1, Zenon
  <2> DEFINE v == NewWake(a, p, k)
  <2>2. v \in Wake /\ v.msgs = <<a>> /\ v.queued = << >> /\ ~v.rebatched
    BY NewWakeEffect
  <2>3. pending' = [pending EXCEPT ![c] = v]
    BY <2>1
  <2> HIDE DEF v
  <2>4. pending'[c] = v /\ \A d \in Channels \ {c} : pending'[d] = pending[d]
    BY <2>2, <2>3, OneWake
  <2>5. CASE Home[e] # c
    <3>1. PICK d \in Channels \ {c} : d = Home[e]
      BY <2>5, WakeAssumption DEF WakeAssumption
    <3>2. (Present(d)' <=> Present(d)) /\ (Present(d) => SameBatch(pending'[d], pending[d]))
      BY <2>4 DEF Present, SameBatch
    <3>3. e # a
      BY <1>0, <2>5
    <3>4. Present(c) => e \notin Held(w)
      BY <2>5 DEF IInv, WakeFits, HeldOnce
    <3>5. e \in givenUp' <=> e \in givenUp
      BY <1>3, <3>4
    <3> QED BY <1>1, <3>1, <3>2, <3>3, <3>5, Unmoved
  <2>6. CASE Home[e] = c
    <3>1. HeldAtHome(e)' <=> e = a
      <4>1. Contents(v.msgs) = {a} /\ Contents(v.queued) = {} /\ v # NoWake
        BY <2>2, NoWakeApart, ContentsFacts
      <4> QED BY <2>4, <2>6, <4>1 DEF HeldAtHome, Held, Present
    <3>2. ~CutAtHome(e)'
      BY <2>2, <2>4, <2>6 DEF CutAtHome
    <3>3. HeldAtHome(e) <=> Present(c) /\ e \in Held(w)
      BY <2>6 DEF HeldAtHome
    <3>4. /\ HeldAtHome(e) => e # a /\ e \in armed
          /\ CutAtHome(e) => HeldAtHome(e)
      BY <1>1, AtHome
    <3>5. HeldAtHome(e) => e \in shown' \/ e \in givenUp'
      BY <1>1, <1>3, <3>3
    <3>6. e \in givenUp' /\ e \notin givenUp => HeldAtHome(e)
      BY <1>3, <3>3
    <3>7. e \in givenUp => e \in givenUp'
      BY <1>3
    <3> QED BY <1>1, <3>1, <3>2, <3>4, <3>5, <3>6, <3>7 DEF Treats
  <2> QED BY <2>5, <2>6
<1> QED BY <1>0, <1>2, <1>3 DEF Arm

\* Every step treats every event well.
LEMMA StepTreats ==
    ASSUME IInv, [Next]_vars, NEW e \in Events
    PROVE  Treats(e)
<1>1. CASE UNCHANGED vars
  BY <1>1, QuietStay, QuietTreats DEF vars, history
<1>2. CASE \E a \in Events : Arm(a)
  BY <1>2, ArmTreats
<1>3. ASSUME NEW c \in Channels,
             \/ CancelPending(c) \/ StatusPromotes(c)
             \/ WidgetClaims(c) \/ WidgetSubmits(c)
             \/ WidgetAcks(c) \/ WidgetGone(c)
             \/ Look(c) \/ ModelAcks(c)
             \/ LeaseEnds(c) \/ GrowsOld(c)
      PROVE  Treats(e)
  BY <1>3, CancelPendingTreats, StatusPromotesTreats, WidgetQuiet, WidgetAcksTreats,
     ModelAcksTreats, ClockQuiet, QuietTreats
<1>4. CASE ProbeFails \/ ProbeNeedsOwner \/ ProbeReleases \/ DirectClaims \/ DirectSubmits
  BY <1>4, LoopQuiet, QuietTreats
<1>5. CASE DirectFinalizes
  BY <1>5, DirectFinalizesTreats
<1>6. CASE Escalate \/ \E k \in noticing : NoticeSent(k) \/ NoticeFails(k)
  BY <1>6, NoticeQuiet, QuietTreats
<1>7. CASE Crash
  BY <1>7, CrashQuiet, QuietTreats
<1> QED BY <1>1, <1>2, <1>3, <1>4, <1>5, <1>6, <1>7 DEF Next

\* The events start new, and every step of the wakes is a step of
\* EventDelivery, or leaves the states of all events as they were.
LEMMA StartsNew == Init => Delivery!Init
  BY DEF Init, EventState, Delivery!Init

LEMMA StepsAreMoves ==
    IInv /\ IInv' /\ [Next]_vars => [Delivery!Next]_([e \in Events |-> EventState(e)])
<1> SUFFICES ASSUME IInv, IInv', [Next]_vars
             PROVE  Delivery!Next
  OBVIOUS
<1> DEFINE state == [e \in Events |-> EventState(e)]
<1>1. state' = [e \in Events |-> EventState(e)']
  OBVIOUS
<1>2. state' \in [Events -> Delivery!EventStates]
  BY DEF EventState, Delivery!EventStates
<1>3. ASSUME NEW e \in Events, state'[e] # state[e]
      PROVE  <<state[e], state'[e]>> \in Delivery!Moves
  <2>1. Treats(e)
    BY StepTreats
  <2>2. state[e] = EventState(e) /\ state'[e] = EventState(e)'
    BY <1>1
  <2> QED BY <1>3, <2>1, <2>2, TreatedMoves
<1> QED BY <1>2, <1>3 DEF Delivery!Next

\* An event that was accepted stays with the Bridge until the model was shown
\* it or the owner gave it up, but for the tail of a re-made batch.
THEOREM EventsAreKept == Spec => EventsKept
  BY WakesFit, StartsNew, StepsAreMoves, PTL DEF Spec, EventsKept, Delivery!Spec

-----------------------------------------------------------------------------
(* The browser host: types, and what holds of the loop wherever it is.       *)

\* In a quiet period the loop is at its head; behind it, it works on a chat.
LoopFits ==
    /\ quiet => pc \in {"down", "parked", "top"}
    /\ pc \notin {"down", "parked", "top"} => aim \in Chats
    /\ pc \in {"down", "parked"} => Open = {}

\* A rollover and what the loop holds of it; the reserved generation is one.
RollFits ==
    /\ held <= used["roll"]
    /\ roll # None => /\ roll.token \in 1..used["roll"] /\ roll.src < MaxGen
                      /\ roll.src <= gen[roll.route]
    /\ pc \in {"record", "vet"} /\ Mine => roll.route = aim[1]

\* A continuation is of one route, which is bound; those to come cost nothing.
HostWakesFit ==
    /\ used["arm"] <= load["arm"]
    /\ budget.cont <= used["arm"]
    /\ \A r \in Routes :
         /\ wake[r].id <= used["arm"]
         /\ wake[r].st = "idle" <=> wake[r].id = 0
         /\ wake[r].id # 0 => bound[r]
    /\ \A r, q \in Routes : wake[r].id = wake[q].id /\ wake[r].id # 0 => r = q
    /\ \A c \in Wakes : c > used["arm"] => spent[c] = 0

HostBase == HostTypeOK /\ LoopFits /\ RollFits /\ HostWakesFit

\* Chats are no other pages.
LEMMA ChatShape ==
    /\ \A r \in Routes, g \in 0..MaxGen : /\ Chat(r, g) \in Chats
                                          /\ Chat(r, g)[1] = r /\ Chat(r, g)[2] = g
    /\ \A c \in Chats : c[1] \in Routes /\ c[2] \in 0..MaxGen /\ c = Chat(c[1], c[2])
    /\ Shut \notin Chats /\ Blank \notin Chats /\ HomePage \notin Chats /\ Away \notin Chats
    /\ Shut # Blank /\ Shut # HomePage /\ Shut # Away /\ Blank # HomePage /\ Blank # Away /\ HomePage # Away
<1>1. \A r \in Routes : r # "shut" /\ r # "blank" /\ r # "home" /\ r # "away"
  BY HostAssumption
<1>2. \A r \in Routes, g \in 0..MaxGen : /\ Chat(r, g) \in Chats
                                          /\ Chat(r, g)[1] = r /\ Chat(r, g)[2] = g
  BY DEF Chat, Chats
<1>3. \A c \in Chats : c[1] \in Routes /\ c[2] \in 0..MaxGen /\ c = Chat(c[1], c[2])
  BY DEF Chat, Chats
<1>4. Shut[1] = "shut" /\ Blank[1] = "blank" /\ HomePage[1] = "home" /\ Away[1] = "away"
  BY DEF Shut, Blank, HomePage, Away
<1>5. Shut \notin Chats /\ Blank \notin Chats /\ HomePage \notin Chats /\ Away \notin Chats
  BY <1>1, <1>3, <1>4
<1> QED BY <1>2, <1>3, <1>4, <1>5

\* A new tab is one that is shut.
LEMMA NewTabIsShut == \A t \in NewTabs : t \in Tabs /\ t \notin Open /\ tabs[t] = Shut
BY DEF NewTabs, Open

\* The bound of an event is counted down.
Passed(e) ==
    /\ used' \in [HostEvents -> Nat]
    /\ used'[e] = used[e] + 1 /\ used'[e] <= load[e]
    /\ \A f \in HostEvents \ {e} : used'[f] = used[f]

\* An event of the environment that is used is counted, and no other.
LEMMA UsePasses ==
    ASSUME HostTypeOK, NEW e \in HostEvents, Use(e)
    PROVE  Passed(e)
<1>1. used \in [HostEvents -> Nat] /\ load \in [HostEvents -> Nat]
  BY HostAssumption DEF HostTypeOK
<1> QED BY <1>1 DEF Use, Left, Passed

\* Everything else stays as it is, but for tabs that are closed.
SparesOf(t, others) ==
    \A u \in Tabs \ {t} : tabs'[u] = IF u \in others THEN Shut ELSE tabs[u]

TabStates == Chats \cup {Shut, Blank, HomePage, Away}

\* Tabs that are closed are shut, and those that are not stay as they are.
LEMMA ClosedTabs ==
    ASSUME HostTypeOK, NEW ts
    PROVE  /\ Closed(ts) \in [Tabs -> TabStates]
           /\ \A u \in Tabs : Closed(ts)[u] = IF u \in ts THEN Shut ELSE tabs[u]
BY DEF HostTypeOK, Closed, TabStates

\* A navigation ends where it should, but for a tab that was not closed, or by a
\* mishap elsewhere.
LEMMA LandsSomewhere ==
    ASSUME HostTypeOK, NEW t \in Tabs, NEW c \in TabStates, NEW others, Lands(t, c, others)
    PROVE  /\ tabs' \in [Tabs -> TabStates]
           /\ \/ tabs'[t] = c /\ SparesOf(t, others) /\ used' = used
              \/ \E s \in others : tabs'[t] = c /\ SparesOf(t, others \ {s}) /\ Passed("mishap")
              \/ tabs'[t] \in {HomePage, Away} /\ SparesOf(t, {}) /\ Passed("mishap") /\ c # Blank
<1>0. tabs \in [Tabs -> TabStates] /\ "mishap" \in HostEvents
  BY DEF HostTypeOK, TabStates, HostEvents
<1>1. ASSUME NEW ts, tabs' = [Closed(ts) EXCEPT ![t] = c]
      PROVE  tabs' \in [Tabs -> TabStates] /\ tabs'[t] = c /\ SparesOf(t, ts)
  BY <1>1, ClosedTabs DEF SparesOf
<1>2. ASSUME NEW s \in others, tabs' = [Closed(others \ {s}) EXCEPT ![t] = c], Use("mishap")
      PROVE  /\ tabs' \in [Tabs -> TabStates]
             /\ tabs'[t] = c /\ SparesOf(t, others \ {s}) /\ Passed("mishap")
  BY <1>0, <1>1, <1>2, UsePasses
<1>3. ASSUME c # Blank, Use("mishap"), NEW there \in {HomePage, Away},
             tabs' = [tabs EXCEPT ![t] = there]
      PROVE  /\ tabs' \in [Tabs -> TabStates]
             /\ tabs'[t] \in {HomePage, Away} /\ SparesOf(t, {}) /\ Passed("mishap") /\ c # Blank
  <2>1. Passed("mishap")
    BY <1>0, <1>3, UsePasses
  <2> QED BY <1>0, <1>3, <2>1 DEF SparesOf, TabStates
<1> QED BY <1>1, <1>2, <1>3 DEF Lands

\* Of the tabs to be closed all are shut, or by a mishap all but one.
LEMMA CloseShuts ==
    ASSUME HostTypeOK, NEW ts, Close(ts)
    PROVE  /\ tabs' \in [Tabs -> TabStates]
           /\ \A u \in Tabs \ ts : tabs'[u] = tabs[u]
           /\ \A u \in Tabs : tabs'[u] = tabs[u] \/ tabs'[u] = Shut
           /\ \/ used' = used /\ \A u \in Tabs \cap ts : tabs'[u] = Shut
              \/ \E s \in ts : Passed("mishap") /\ \A u \in (Tabs \cap ts) \ {s} : tabs'[u] = Shut
<1>1. CASE tabs' = Closed(ts) /\ UNCHANGED used
  BY <1>1, ClosedTabs
<1>2. ASSUME NEW s \in ts, tabs' = Closed(ts \ {s}), Use("mishap")
      PROVE  /\ tabs' \in [Tabs -> TabStates]
             /\ \A u \in Tabs \ ts : tabs'[u] = tabs[u]
             /\ \A u \in Tabs : tabs'[u] = tabs[u] \/ tabs'[u] = Shut
             /\ Passed("mishap") /\ \A u \in (Tabs \cap ts) \ {s} : tabs'[u] = Shut
  <2>1. Passed("mishap")
    BY <1>2, UsePasses DEF HostEvents
  <2> QED BY <1>2, <2>1, ClosedTabs
<1> QED BY <1>1, <1>2 DEF Close

\* What the types say of a rollover and of the chats met on the way.
LEMMA BaseShape ==
    ASSUME HostBase
    PROVE  /\ tabs \in [Tabs -> TabStates]
           /\ used \in [HostEvents -> Nat] /\ load \in [HostEvents -> Nat]
           /\ load["arm"] <= MaxWakes
           /\ pc \notin {"down", "parked", "top"} => aim \in Chats
           /\ roll # None => /\ roll \in Rollovers /\ roll.src < MaxGen
                             /\ Chat(roll.route, roll.src) \in Chats
                             /\ Chat(roll.route, roll.src + 1) \in Chats
           /\ pc \notin {"down", "parked", "top"} /\ roll # None => Successor \in Chats
           /\ Target \in Chats \cup {Blank}
           /\ \A c : WakeOf(c).id \in {0} \cup Wakes
<1>1. used \in [HostEvents -> Nat] /\ load \in [HostEvents -> Nat] /\ load["arm"] <= MaxWakes
  BY HostAssumption DEF HostBase, HostTypeOK
<1>2. ASSUME roll # None
      PROVE  /\ roll \in Rollovers /\ roll.src < MaxGen
             /\ Chat(roll.route, roll.src) \in Chats
             /\ Chat(roll.route, roll.src + 1) \in Chats
  <2>1. roll \in Rollovers /\ roll.src < MaxGen
    BY <1>2 DEF HostBase, HostTypeOK, RollFits
  <2>2. roll.route \in Routes /\ roll.src \in 0..MaxGen /\ roll.src + 1 \in 0..MaxGen
    BY <2>1, HostAssumption DEF Rollovers
  <2> QED BY <2>1, <2>2, ChatShape
<1>3. ASSUME pc \notin {"down", "parked", "top"}, roll # None PROVE Successor \in Chats
  <2>1. aim[1] \in Routes
    BY <1>3, ChatShape DEF HostBase, LoopFits
  <2>2. roll.src + 1 \in 0..MaxGen
    BY <1>2, <1>3, HostAssumption DEF Rollovers
  <2> QED BY <2>1, <2>2, ChatShape DEF Successor
<1>4. Target \in Chats \cup {Blank}
  BY ChatShape DEF HostBase, HostTypeOK, Target
<1>5. ASSUME NEW c PROVE WakeOf(c).id \in {0} \cup Wakes
  <2>1. CASE c \in Chats
    <3>1. wake[c[1]].id \in {0} \cup Wakes
      BY <2>1, ChatShape DEF HostBase, HostTypeOK
    <3> QED BY <3>1 DEF WakeOf
  <2> QED BY <2>1 DEF WakeOf
<1> QED BY <1>1, <1>2, <1>3, <1>4, <1>5 DEF HostBase, HostTypeOK, TabStates, LoopFits

LEMMA HostUses ==
    ASSUME HostTypeOK, NEW e \in HostEvents, Use(e)
    PROVE  used' \in [HostEvents -> Nat]
BY UsePasses DEF Passed

\* An event of the environment may have been used up.
Charged == used' = used \/ Passed("mishap")

LEMMA LandsTypes ==
    ASSUME HostTypeOK, NEW t \in Tabs, NEW c \in TabStates, NEW others, Lands(t, c, others)
    PROVE  tabs' \in [Tabs -> TabStates] /\ Charged
BY LandsSomewhere DEF Charged

\* Types, of every step of the loop that navigates.
LEMMA NavigationTypes ==
    ASSUME HostBase,
           \/ Boot \/ Top \/ RollCreates \/ RollReopens \/ RollAborts
           \/ SeekFinds \/ SeekLoads \/ FreshOpens \/ CheckPasses \/ CheckFails
           \/ ListenFails \/ Finishes \/ Parks \/ \E t \in Tabs : Strays(t)
    PROVE  tabs' \in [Tabs -> TabStates] /\ Charged
<1> USE DEF Charged
<1>0. /\ HostTypeOK /\ tabs \in [Tabs -> TabStates] /\ used \in [HostEvents -> Nat]
      /\ Shut \in TabStates /\ Blank \in TabStates /\ Chats \subseteq TabStates
      /\ {"mishap", "crash"} \subseteq HostEvents
  BY BaseShape DEF HostBase, TabStates, HostEvents
<1>1. CASE Boot
  <2>1. PICK t \in NewTabs : Lands(t, FirstPage(Target), {})
    BY <1>1 DEF Boot
  <2>2. t \in Tabs /\ FirstPage(Target) \in TabStates
    BY <1>0, BaseShape, NewTabIsShut DEF FirstPage
  <2> QED BY <1>0, <2>1, <2>2, LandsTypes
<1>2. CASE Top
  <2>1. CASE UNCHANGED <<tabs, used>>
    BY <1>0, <2>1
  <2>2. ASSUME Refreshed # Blank, NEW t \in Pages, Lands(t, Refreshed, {})
        PROVE tabs' \in [Tabs -> TabStates] /\ Charged
    <3>1. t \in Tabs /\ Refreshed \in TabStates
      BY <1>0, BaseShape DEF Refreshed, Pages
    <3> QED BY <1>0, <2>2, <3>1, LandsTypes
  <2> QED BY <1>2, <2>1, <2>2 DEF Top
<1>3. CASE RollCreates
  <2>1. PICK t \in NewTabs, s \in Pages : tabs' = [tabs EXCEPT ![s] = aim, ![t] = Successor]
    BY <1>3 DEF RollCreates
  <2>2. aim \in Chats /\ Successor \in Chats
    BY <1>3, BaseShape DEF RollCreates, Turn, Pending
  <2>3. t \in Tabs /\ s \in Tabs
    BY NewTabIsShut DEF Pages
  <2> QED BY <1>0, <1>3, <2>1, <2>2, <2>3 DEF RollCreates, world
<1>4. CASE RollReopens
  <2>1. Successor \in TabStates
    BY <1>0, <1>4, BaseShape DEF RollReopens, Turn, Pending
  <2>2. CASE UNCHANGED <<tabs, used>>
    BY <1>0, <2>2
  <2>3. ASSUME NEW t \in Pages, Lands(t, Successor, {})
        PROVE tabs' \in [Tabs -> TabStates] /\ Charged
    <3>1. t \in Tabs
      BY DEF Pages
    <3> QED BY <1>0, <2>1, <2>3, <3>1, LandsTypes
  <2> QED BY <1>4, <2>2, <2>3 DEF RollReopens
<1>5. CASE RollAborts
  <2> DEFINE c == Chat(roll.route, roll.src)
  <2>1. c \in TabStates
    BY <1>0, <1>5, BaseShape DEF RollAborts, Pending, Mine
  <2>2. CASE UNCHANGED <<tabs, used>>
    BY <1>0, <2>2
  <2>3. ASSUME NEW t \in Showing(c) \cup Pages, Lands(t, c, Others(t))
        PROVE tabs' \in [Tabs -> TabStates] /\ Charged
    <3>1. t \in Tabs
      BY <2>3 DEF Pages, Showing
    <3> QED BY <1>0, <2>1, <2>3, <3>1, LandsTypes
  <2>4. Restores(c)
    BY <1>5 DEF RollAborts
  <2> HIDE DEF c
  <2> QED BY <2>2, <2>3, <2>4 DEF Restores
<1>6. CASE SeekFinds
  BY <1>0, <1>6, CloseShuts DEF SeekFinds
<1>7. CASE SeekLoads
  <2>1. aim \in TabStates
    BY <1>0, <1>7, BaseShape DEF SeekLoads, Turn
  <2>2. PICK t \in Pages \cup SpareTab \cup NewTabs :
          \/ tabs' = [tabs EXCEPT ![t] = IF @ = Shut THEN Blank ELSE @] /\ UNCHANGED used
          \/ Lands(t, aim, Others(t)) \/ Lands(t, aim, {})
    BY <1>7 DEF SeekLoads
  <2>3. t \in Tabs
    BY <1>0, <2>2, NewTabIsShut DEF Pages, SpareTab, HostTypeOK
  <2>4. CASE tabs' = [tabs EXCEPT ![t] = IF @ = Shut THEN Blank ELSE @] /\ UNCHANGED used
    BY <1>0, <2>3, <2>4
  <2>5. ASSUME NEW others, Lands(t, aim, others)
        PROVE  tabs' \in [Tabs -> TabStates] /\ Charged
    BY <1>0, <2>1, <2>3, <2>5, LandsTypes
  <2> QED BY <2>2, <2>4, <2>5
<1>8. CASE FreshOpens
  <2>1. aim \in TabStates
    BY <1>0, <1>8, BaseShape DEF FreshOpens, Turn
  <2>2. PICK t \in NewTabs : Lands(t, aim, {})
    BY <1>8 DEF FreshOpens
  <2> QED BY <1>0, <2>1, <2>2, NewTabIsShut, LandsTypes
<1>9. CASE CheckPasses \/ CheckFails
  BY <1>0, <1>9, CloseShuts DEF CheckPasses, CheckFails
<1>10. CASE ListenFails \/ Finishes
  <2>1. aim \in TabStates
    BY <1>0, <1>10, BaseShape DEF ListenFails, Finishes, Turn
  <2>2. CASE UNCHANGED <<tabs, used>>
    BY <1>0, <2>2
  <2>3. CASE Reloads
    <3>1. PICK t \in Showing(aim) \cup Pages : Lands(t, aim, {})
      BY <2>3 DEF Reloads
    <3>2. t \in Tabs
      BY DEF Showing, Pages
    <3> QED BY <1>0, <2>1, <3>1, <3>2, LandsTypes
  <2> QED BY <1>10, <2>2, <2>3 DEF ListenFails, Finishes
<1>11. CASE Parks
  BY <1>0, <1>11, UsePasses DEF Parks, Down
<1>12. ASSUME NEW t \in Tabs, Strays(t)
       PROVE  tabs' \in [Tabs -> TabStates] /\ Charged
  <2>1. Charged
    BY <1>0, <1>12, UsePasses DEF Strays
  <2> QED BY <1>0, <1>12, <2>1 DEF Strays, TabStates
<1> QED BY <1>1, <1>2, <1>3, <1>4, <1>5, <1>6, <1>7, <1>8, <1>9, <1>10, <1>11, <1>12

BudgetTypes == [cont : {0} \cup Wakes, attempts : 0..MaxLiveAttempts,
                cooling : BOOLEAN, inflight : BOOLEAN]

\* The settled attempt, which cools down while the budget lasts.
Settled == [budget EXCEPT !.inflight = FALSE, !.cooling = budget.attempts < MaxLiveAttempts]

LEMMA SettledTypes ==
    ASSUME HostTypeOK
    PROVE  Settled \in BudgetTypes /\ Settled.cont = budget.cont /\ Settled.attempts = budget.attempts
<1>1. budget \in BudgetTypes
  BY DEF HostTypeOK, BudgetTypes
<1> DEFINE b == budget.attempts < MaxLiveAttempts
<1>2. b \in BOOLEAN
  OBVIOUS
<1>3. Settled = [budget EXCEPT !.inflight = FALSE, !.cooling = b]
  BY DEF Settled
<1> HIDE DEF b
<1> QED BY <1>1, <1>2, <1>3 DEF BudgetTypes

\* Types hold after every step.
LEMMA HostTypesKeep == HostBase /\ [HostNext]_hostVars => HostTypeOK'
<1> SUFFICES ASSUME HostBase, [HostNext]_hostVars PROVE HostTypeOK'
  OBVIOUS
<1>0. /\ HostTypeOK /\ tabs \in [Tabs -> TabStates] /\ used \in [HostEvents -> Nat]
      /\ HostEvents = {"arm", "switch", "roll", "rebind", "unbind", "turn", "limit", "mishap", "crash"}
  BY BaseShape DEF HostBase, HostEvents
<1> USE DEF browser, registry, world, files, Turn, Goto, TabStates, Steps, Charged, Passed
<1>1. CASE UNCHANGED hostVars
  BY <1>0, <1>1 DEF HostTypeOK, hostVars
<1>2. CASE Boot
  <2>1. tabs' \in [Tabs -> TabStates] /\ used' \in [HostEvents -> Nat]
    BY <1>0, <1>2, NavigationTypes
  <2>2. budget' \in BudgetTypes
    <3>1. budget \in BudgetTypes
      BY <1>0 DEF HostTypeOK, BudgetTypes
    <3> DEFINE b == budget.cooling \/ budget.inflight
    <3>2. b \in BOOLEAN /\ budget' = [budget EXCEPT !.cooling = b, !.inflight = FALSE]
      BY <1>2, <3>1 DEF Boot, RestoredBudget, BudgetTypes
    <3> HIDE DEF b
    <3> QED BY <3>1, <3>2 DEF BudgetTypes
  <2>3. /\ pc' = "top" /\ aim' \in Chats \cup {Blank} /\ page' = None /\ fresh' = None
        /\ recovering' = None /\ throttled' = FALSE /\ held' = 0
        /\ UNCHANGED <<registry, wake, busy, limited, load, quiet, spent>>
    BY <1>2, BaseShape DEF Boot
  <2> QED BY <1>0, <2>1, <2>2, <2>3 DEF HostTypeOK, BudgetTypes
<1>3. CASE HostCrash \/ Parks
  <2>1. tabs' \in [Tabs -> TabStates] /\ used' \in [HostEvents -> Nat]
    BY <1>0, <1>3, NavigationTypes, HostUses DEF HostCrash, Down
  <2>2. /\ pc' \in Steps /\ page' = None /\ fresh' = None /\ recovering' = None
        /\ throttled' = FALSE /\ held' = 0
        /\ UNCHANGED <<aim, registry, wake, busy, limited, load, files>>
    BY <1>3 DEF HostCrash, Parks, Down
  <2> QED BY <1>0, <2>1, <2>2 DEF HostTypeOK
<1>4. CASE OwnerStarts
  BY <1>0, <1>4 DEF HostTypeOK, OwnerStarts
<1>5. CASE Top
  BY <1>0, <1>5, NavigationTypes, BaseShape DEF HostTypeOK, Top, Refreshed
<1>6. CASE NoRollover \/ RollWaits \/ VetWaits
  BY <1>0, <1>6 DEF HostTypeOK, NoRollover, RollWaits, VetWaits
<1>7. CASE RollCreates
  <2>1. held' \in Nat /\ fresh' \in Tabs
    BY <1>7, BaseShape, NewTabIsShut DEF RollCreates, Pending, Rollovers
  <2> QED BY <1>0, <1>7, <2>1, NavigationTypes DEF HostTypeOK, RollCreates
<1>8. CASE RollReopens
  <2>1. held' \in Nat /\ fresh' \in Tabs
    BY <1>8, BaseShape DEF RollReopens, Pending, Rollovers, Pages, Showing
  <2> QED BY <1>0, <1>8, <2>1, NavigationTypes DEF HostTypeOK, RollReopens
<1>9. CASE Records
  <2>1. roll' \in {None} \cup Rollovers
    <3>1. roll \in {None} \cup Rollovers
      BY <1>0 DEF HostTypeOK
    <3>2. \/ roll' = roll
          \/ Mine /\ \E b \in BOOLEAN : roll' = [roll EXCEPT !.candidate = b]
      <4>1. CASE Mine /\ roll' = [roll EXCEPT !.candidate = TRUE]
        BY <4>1
      <4>2. CASE Mine /\ roll' = [roll EXCEPT !.candidate = @ \/ Current(roll)]
        <5>1. roll \in Rollovers
          BY <3>1, <4>2 DEF Mine
        <5>2. (roll.candidate \/ Current(roll)) \in BOOLEAN
          BY <5>1 DEF Rollovers, Current
        <5> QED BY <4>2, <5>2
      <4> QED BY <1>9, <4>1, <4>2 DEF Records
    <3> QED BY <3>1, <3>2 DEF Mine, Rollovers
  <2>2. used' \in [HostEvents -> Nat]
    BY <1>0, <1>9, HostUses DEF Records
  <2> QED BY <1>0, <1>9, <2>1, <2>2 DEF HostTypeOK, Records
<1>10. CASE Commits
  <2>1. /\ roll \in Rollovers /\ roll.src < MaxGen /\ roll.src = gen[roll.route]
        /\ Chat(roll.route, roll.src + 1) \in Chats
    BY <1>10, BaseShape DEF Commits, Mine, Current
  <2>2. gen' \in [Routes -> 0..MaxGen] /\ wanted' \in Routes
    BY <1>0, <1>10, <2>1, HostAssumption DEF HostTypeOK, Commits, Rollovers
  <2> QED BY <1>0, <1>10, <2>1, <2>2 DEF HostTypeOK, Commits
<1>11. CASE RollAborts
  BY <1>0, <1>11, NavigationTypes DEF HostTypeOK, RollAborts
<1>12. CASE SeekFinds
  <2>1. tabs' \in [Tabs -> TabStates] /\ used' \in [HostEvents -> Nat]
    BY <1>0, <1>12, NavigationTypes
  <2>2. /\ pc' \in Steps /\ page' \in Tabs \cup {None} /\ recovering' = None /\ throttled' = FALSE
        /\ UNCHANGED <<aim, held, fresh, registry, wake, busy, limited, load, files>>
    BY <1>12 DEF SeekFinds, Works, Showing
  <2> QED BY <1>0, <2>1, <2>2 DEF HostTypeOK
<1>13. CASE SeekLoads
  <2>1. PICK t \in Pages \cup SpareTab \cup NewTabs :
          \/ Works(t)
          \/ /\ recovering' = t /\ Goto("top") /\ UNCHANGED page
             /\ (UNCHANGED throttled \/ throttled' = TRUE)
    BY <1>13 DEF SeekLoads
  <2>2. t \in Tabs
    BY <1>0, <2>1, NewTabIsShut DEF Pages, SpareTab, HostTypeOK
  <2>3. UNCHANGED <<aim, held, fresh, registry, wake, busy, limited, load, files>>
    BY <1>13 DEF SeekLoads
  <2>4. tabs' \in [Tabs -> TabStates] /\ used' \in [HostEvents -> Nat]
    BY <1>0, <1>13, NavigationTypes
  <2>5. /\ pc' \in Steps /\ page' \in Tabs \cup {None} /\ recovering' \in Tabs \cup {None}
        /\ throttled' \in BOOLEAN
    BY <1>0, <2>1, <2>2 DEF HostTypeOK, Works
  <2> HIDE DEF Charged, Passed
  <2> QED BY <1>0, <2>3, <2>4, <2>5 DEF HostTypeOK
<1>14. CASE LimitDetected \/ Idles \/ WakeIsReady \/ ListenPasses
  BY <1>0, <1>14 DEF HostTypeOK, LimitDetected, Idles, WakeIsReady, ListenPasses
<1>15. CASE GateOpens \/ TurnFails
  BY <1>0, <1>15, HostUses DEF HostTypeOK, GateOpens, TurnFails
<1>16. CASE Bootstraps
  BY <1>0, <1>16 DEF HostTypeOK, Bootstraps
<1>17. CASE PreflightBegins
  <2> DEFINE c == WakeOf(aim).id
  <2>1. c \in Wakes
    <3>1. c \in {0} \cup Wakes /\ WakeOf(aim).st = "preflight" /\ aim \in Chats
      BY <1>17, BaseShape DEF PreflightBegins
    <3>2. WakeOf(aim) = wake[aim[1]] /\ aim[1] \in Routes
      BY <3>1, ChatShape DEF WakeOf
    <3> QED BY <3>1, <3>2 DEF HostBase, HostWakesFit
  <2>2. BudgetFor(c) \in [cont : {0} \cup Wakes, attempts : 0..MaxLiveAttempts,
                          cooling : BOOLEAN, inflight : BOOLEAN]
    BY <1>0, <2>1, HostAssumption DEF HostTypeOK, BudgetFor
  <2>3. Begins(c)
    BY <1>17 DEF PreflightBegins
  <2> HIDE DEF c
  <2>4. /\ budget' \in [cont : {0} \cup Wakes, attempts : 0..MaxLiveAttempts,
                        cooling : BOOLEAN, inflight : BOOLEAN]
        /\ spent' \in [Wakes -> Nat]
    <3> DEFINE b == BudgetFor(c)
    <3>1. CASE MayTry(c)
      <4>1. b.attempts + 1 \in 0..MaxLiveAttempts
        BY <2>2, <3>1, HostAssumption DEF MayTry
      <4>2. budget' = [b EXCEPT !.attempts = @ + 1, !.inflight = TRUE]
        BY <2>3, <3>1 DEF Begins
      <4>3. spent' = [spent EXCEPT ![c] = @ + 1]
        BY <2>3, <3>1 DEF Begins
      <4> HIDE DEF b
      <4>4. b \in [cont : {0} \cup Wakes, attempts : 0..MaxLiveAttempts,
                   cooling : BOOLEAN, inflight : BOOLEAN]
        BY <2>2 DEF b
      <4>5. spent' \in [Wakes -> Nat]
        BY <1>0, <2>1, <4>3 DEF HostTypeOK
      <4> QED BY <4>1, <4>2, <4>4, <4>5
    <3>2. CASE ~MayTry(c)
      BY <1>0, <2>2, <2>3, <3>2 DEF Begins, HostTypeOK
    <3> QED BY <3>1, <3>2
  <2>5. pc' \in Steps
    BY <2>3 DEF Begins
  <2> QED BY <1>0, <1>17, <2>4, <2>5 DEF HostTypeOK, PreflightBegins
<1>18. CASE FreshOpens
  BY <1>0, <1>18, NavigationTypes, NewTabIsShut DEF HostTypeOK, FreshOpens
<1>19. CASE CheckPasses
  BY <1>0, <1>19, NavigationTypes DEF HostTypeOK, CheckPasses
<1>20. CASE CheckFails \/ PollFails
  <2>0. budget' \in BudgetTypes /\ UNCHANGED <<quiet, spent>> /\ Goto("top")
    BY <1>0, <1>20, SettledTypes DEF CheckFails, PollFails, Fails, Settled
  <2>1. CASE CheckFails
    BY <1>0, <2>0, <2>1, NavigationTypes DEF HostTypeOK, CheckFails, BudgetTypes
  <2>2. CASE PollFails
    BY <1>0, <2>0, <2>2 DEF HostTypeOK, PollFails, BudgetTypes
  <2> QED BY <1>20, <2>1, <2>2
<1>21. CASE PollPasses
  <2>1. used' \in [HostEvents -> Nat]
    BY <1>0, <1>21, HostUses DEF PollPasses
  <2>2. wake' \in [Routes -> [id : {0} \cup Wakes, st : {"idle", "preflight", "ready", "out"}]]
    BY <1>0, <1>21 DEF HostTypeOK, PollPasses
  <2>3. spent' \in [Wakes -> Nat]
    BY <1>0, <1>21 DEF HostTypeOK, PollPasses, Fails
  <2>4. budget' \in [cont : {0} \cup Wakes, attempts : 0..MaxLiveAttempts,
                     cooling : BOOLEAN, inflight : BOOLEAN]
    <3>1. \/ budget' = Settled
          \/ budget' = [cont |-> 0, attempts |-> 0, cooling |-> FALSE, inflight |-> FALSE]
      BY <1>21 DEF PollPasses, Fails, Settled
    <3>2. [cont |-> 0, attempts |-> 0, cooling |-> FALSE, inflight |-> FALSE] \in BudgetTypes
      BY HostAssumption DEF BudgetTypes
    <3>3. Settled \in BudgetTypes
      BY <1>0, SettledTypes
    <3> QED BY <3>1, <3>2, <3>3 DEF BudgetTypes
  <2> QED BY <1>0, <1>21, <2>1, <2>2, <2>3, <2>4 DEF HostTypeOK, PollPasses, Fails
<1>22. CASE ListenFails \/ Finishes
  BY <1>0, <1>22, NavigationTypes DEF HostTypeOK, ListenFails, Finishes
<1>23. CASE Time
  <2>1. CASE QuietEnds
    <3>1. quiet' \in BOOLEAN /\ UNCHANGED <<pc, aim, held, browser, registry, world, budget, spent>>
      BY <2>1 DEF QuietEnds
    <3> QED BY <1>0, <3>1 DEF HostTypeOK
  <2>2. CASE CoolingEnds
    <3>1. budget \in BudgetTypes /\ budget' = [budget EXCEPT !.cooling = FALSE]
      BY <1>0, <2>2 DEF HostTypeOK, CoolingEnds, BudgetTypes
    <3>2. budget' \in BudgetTypes
      BY <3>1 DEF BudgetTypes
    <3> QED BY <1>0, <2>2, <3>2 DEF HostTypeOK, CoolingEnds, BudgetTypes
  <2>3. CASE RetryPasses
    <3>1. /\ throttled' \in BOOLEAN
          /\ UNCHANGED <<pc, aim, held, tabs, page, fresh, recovering, registry, world, files>>
      BY <2>3 DEF RetryPasses
    <3> QED BY <1>0, <3>1 DEF HostTypeOK
  <2> QED BY <1>23, <2>1, <2>2, <2>3 DEF Time
<1>24. ASSUME NEW r \in Routes, Arms(r) PROVE HostTypeOK'
  <2>1. used["arm"] + 1 \in Wakes
    BY <1>0, <1>24, BaseShape, HostAssumption DEF Arms, Use, Left, Wakes
  <2>2. used' \in [HostEvents -> Nat]
    BY <1>0, <1>24, HostUses DEF Arms
  <2>3. wake' \in [Routes -> [id : {0} \cup Wakes, st : {"idle", "preflight", "ready", "out"}]]
    BY <1>0, <1>24, <2>1 DEF HostTypeOK, Arms
  <2> QED BY <1>0, <1>24, <2>2, <2>3 DEF HostTypeOK, Arms
<1>25. ASSUME NEW r \in Routes, Lapses(r) \/ Delivers(r) \/ Acks(r) PROVE HostTypeOK'
  BY <1>0, <1>25 DEF HostTypeOK, Lapses, Delivers, Acks
<1>26. ASSUME NEW r \in Routes, Switches(r) PROVE HostTypeOK'
  BY <1>0, <1>26, HostUses DEF HostTypeOK, Switches
<1>27. ASSUME NEW r \in Routes, Prepares(r) PROVE HostTypeOK'
  <2>1. roll' \in Rollovers /\ used' \in [HostEvents -> Nat]
    BY <1>0, <1>27, HostUses DEF HostTypeOK, Prepares, Rollovers
  <2> QED BY <1>0, <1>27, <2>1 DEF HostTypeOK, Prepares
<1>28. ASSUME NEW r \in Routes, Rebinds(r) \/ Unbinds(r) PROVE HostTypeOK'
  <2>1. used' \in [HostEvents -> Nat]
    BY <1>0, <1>28, HostUses DEF Rebinds, Unbinds
  <2>2. gen' \in [Routes -> 0..MaxGen] /\ bound' \in [Routes -> BOOLEAN]
    <3>1. \/ UNCHANGED gen
          \/ gen[r] < MaxGen /\ gen' = [gen EXCEPT ![r] = @ + 1]
      BY <1>28 DEF Rebinds, Unbinds
    <3>2. gen' \in [Routes -> 0..MaxGen]
      BY <1>0, <3>1, HostAssumption DEF HostTypeOK
    <3>3. bound' \in [Routes -> BOOLEAN]
      BY <1>0, <1>28 DEF HostTypeOK, Rebinds, Unbinds
    <3> QED BY <3>2, <3>3
  <2>3. wake' \in [Routes -> [id : {0} \cup Wakes, st : {"idle", "preflight", "ready", "out"}]]
    BY <1>0, <1>28 DEF HostTypeOK, Rebinds, Unbinds
  <2> QED BY <1>0, <1>28, <2>1, <2>2, <2>3 DEF HostTypeOK, Rebinds, Unbinds
<1>29. CASE Ages \/ OwnerAborts
  <2>1. roll' \in {None} \cup Rollovers
    BY <1>0, <1>29 DEF HostTypeOK, Ages, OwnerAborts, Rollovers
  <2>2. used' \in [HostEvents -> Nat]
    BY <1>0, <1>29, HostUses DEF Ages, OwnerAborts
  <2> QED BY <1>0, <1>29, <2>1, <2>2 DEF HostTypeOK, Ages, OwnerAborts
<1>30. CASE TurnBegins \/ TurnEnds \/ Limits \/ Lifts
  <2>1. used' \in [HostEvents -> Nat]
    BY <1>0, <1>30, HostUses DEF TurnBegins, TurnEnds, Limits, Lifts
  <2>2. /\ busy' \in BOOLEAN /\ limited' \in BOOLEAN
        /\ UNCHANGED <<pc, aim, held, browser, registry, wake, load, files>>
    BY <1>0, <1>30 DEF HostTypeOK, TurnBegins, TurnEnds, Limits, Lifts
  <2> QED BY <1>0, <2>1, <2>2 DEF HostTypeOK
<1>31. ASSUME NEW t \in Tabs, Strays(t) PROVE HostTypeOK'
  <2>1. tabs' \in [Tabs -> TabStates] /\ used' \in [HostEvents -> Nat]
    BY <1>0, <1>31, NavigationTypes
  <2> QED BY <1>0, <1>31, <2>1 DEF HostTypeOK, Strays
<1> QED
  BY <1>1, <1>2, <1>3, <1>4, <1>5, <1>6, <1>7, <1>8, <1>9, <1>10, <1>11, <1>12, <1>13, <1>14,
     <1>15, <1>16, <1>17, <1>18, <1>19, <1>20, <1>21, <1>22, <1>23, <1>24, <1>25, <1>26, <1>27,
     <1>28, <1>29, <1>30, <1>31 DEF HostNext, Loop, Rolling, Preflight

-----------------------------------------------------------------------------
(* What a step spends, and where it leaves the loop.                         *)

\* Every step but those of the environment that are counted by themselves.
Uncounted ==
    \/ Boot \/ Parks \/ OwnerStarts \/ Loop \/ TurnFails \/ Time
    \/ \E r \in Routes : Lapses(r) \/ Delivers(r) \/ Acks(r)
    \/ Ages \/ OwnerAborts \/ TurnEnds \/ Lifts
    \/ \E t \in Tabs : Strays(t)

\* Of those steps, only a mishap costs anything.
LEMMA UncountedCharges == HostBase /\ Uncounted => Charged
<1> SUFFICES ASSUME HostBase, Uncounted PROVE Charged
  OBVIOUS
<1>0. HostTypeOK /\ "mishap" \in HostEvents
  BY DEF HostBase, HostEvents
<1> USE DEF browser, registry, world, files
<1>1. CASE \/ Boot \/ Top \/ RollCreates \/ RollReopens \/ RollAborts
           \/ SeekFinds \/ SeekLoads \/ FreshOpens \/ CheckPasses \/ CheckFails
           \/ ListenFails \/ Finishes \/ Parks \/ \E t \in Tabs : Strays(t)
  BY <1>1, NavigationTypes
<1>2. CASE Records \/ GateOpens \/ TurnFails \/ PollPasses \/ OwnerAborts
  BY <1>0, <1>2, UsePasses DEF Records, GateOpens, TurnFails, PollPasses, OwnerAborts, Charged
<1>3. CASE OwnerStarts \/ NoRollover \/ RollWaits \/ VetWaits \/ Commits
  BY <1>3 DEF OwnerStarts, NoRollover, RollWaits, VetWaits, Commits, Charged
<1>4. CASE LimitDetected \/ Idles \/ WakeIsReady \/ ListenPasses \/ Bootstraps
  BY <1>4 DEF LimitDetected, Idles, WakeIsReady, ListenPasses, Bootstraps, Charged
<1>5. CASE PreflightBegins \/ PollFails \/ Time
  BY <1>5 DEF PreflightBegins, PollFails, Time, QuietEnds, CoolingEnds, RetryPasses, Charged
<1>6. CASE \/ \E r \in Routes : Lapses(r) \/ Delivers(r) \/ Acks(r)
           \/ Ages \/ TurnEnds \/ Lifts
  BY <1>6 DEF Lapses, Delivers, Acks, Ages, TurnEnds, Lifts, Charged
<1> QED BY <1>1, <1>2, <1>3, <1>4, <1>5, <1>6 DEF Uncounted, Loop, Rolling, Preflight

\* A step of the loop behind its head works on the same chat, and in a quiet
\* period there is none.
LEMMA LoopMoves ==
    ASSUME HostBase, Loop, ~Top
    PROVE  /\ pc \notin {"down", "parked", "top"} /\ pc' \notin {"down", "parked"} /\ aim' = aim
           /\ ~quiet /\ (quiet' => pc' = "top")
<1> USE DEF browser, registry, world, files, Turn, Goto
<1>1. CASE Rolling
  BY <1>1 DEF Rolling, NoRollover, RollCreates, RollReopens, RollWaits, Records, Commits, VetWaits,
              RollAborts, HostBase, LoopFits
<1>2. CASE SeekFinds \/ SeekLoads
  BY <1>2 DEF SeekFinds, SeekLoads, Works, HostBase, LoopFits
<1>3. CASE LimitDetected \/ Bootstraps \/ Idles \/ GateOpens \/ WakeIsReady
  BY <1>3 DEF LimitDetected, Bootstraps, Idles, GateOpens, WakeIsReady, HostBase, LoopFits
<1>4. CASE PreflightBegins
  BY <1>4 DEF PreflightBegins, Begins, HostBase, LoopFits
<1>5. CASE FreshOpens \/ CheckPasses \/ CheckFails \/ PollFails
  BY <1>5 DEF FreshOpens, CheckPasses, CheckFails, PollFails, Fails, HostBase, LoopFits
<1>6. CASE PollPasses
  BY <1>6 DEF PollPasses, Fails, HostBase, LoopFits
<1>7. CASE ListenFails \/ ListenPasses \/ Finishes
  BY <1>7 DEF ListenFails, ListenPasses, Finishes, HostBase, LoopFits
<1> QED BY <1>1, <1>2, <1>3, <1>4, <1>5, <1>6, <1>7 DEF Loop, Preflight

\* The environment leaves the loop where it is.
Around == \/ Time \/ Ages \/ OwnerAborts \/ TurnBegins \/ TurnEnds \/ Limits \/ Lifts
          \/ \E r \in Routes : Arms(r) \/ Lapses(r) \/ Delivers(r) \/ Acks(r)
                               \/ Switches(r) \/ Prepares(r) \/ Rebinds(r) \/ Unbinds(r)

LEMMA AroundStays ==
    ASSUME HostBase, Around
    PROVE  /\ UNCHANGED <<pc, aim, held, tabs, page, fresh>>
           /\ quiet' => quiet
<1> USE DEF browser, registry, world, files
<1>1. CASE Time
  BY <1>1 DEF Time, QuietEnds, CoolingEnds, RetryPasses
<1>2. CASE Ages \/ OwnerAborts \/ TurnBegins \/ TurnEnds \/ Limits \/ Lifts
  BY <1>2 DEF Ages, OwnerAborts, TurnBegins, TurnEnds, Limits, Lifts
<1>3. ASSUME NEW r \in Routes, Arms(r) \/ Lapses(r) \/ Delivers(r) \/ Acks(r)
      PROVE  UNCHANGED <<pc, aim, held, tabs, page, fresh, quiet>>
  BY <1>3 DEF Arms, Lapses, Delivers, Acks
<1>4. ASSUME NEW r \in Routes, Switches(r) \/ Prepares(r) \/ Rebinds(r) \/ Unbinds(r)
      PROVE  UNCHANGED <<pc, aim, held, tabs, page, fresh, quiet>>
  BY <1>4 DEF Switches, Prepares, Rebinds, Unbinds
<1> QED BY <1>1, <1>2, <1>3, <1>4 DEF Around

\* A step is of the process, of the loop, of what is around it, or of a page by itself.
LEMMA HostSteps ==
    HostNext => \/ Boot \/ HostCrash \/ Parks \/ OwnerStarts \/ Loop \/ TurnFails
                \/ Around \/ \E t \in Tabs : Strays(t)
BY DEF HostNext, Around

\* A quiet period is met at the head of the loop, and a closed host has no tab.
LEMMA LoopKeeps == HostBase /\ [HostNext]_hostVars => LoopFits'
<1> SUFFICES ASSUME HostBase, [HostNext]_hostVars PROVE LoopFits'
  OBVIOUS
<1>0. LoopFits
  BY DEF HostBase
<1> USE DEF browser, registry, world, files, Turn, Goto, LoopFits
<1>1. CASE Boot
  BY <1>0, <1>1 DEF Boot
<1>2. CASE HostCrash \/ Parks \/ OwnerStarts
  BY <1>0, <1>2 DEF HostCrash, Parks, Down, OwnerStarts, Open
<1>3. CASE Top
  <2>1. Refreshed \in Chats \cup {Blank}
    BY BaseShape DEF Refreshed
  <2> QED BY <1>0, <1>3, <2>1 DEF Top
<1>4. CASE Loop /\ ~Top
  BY <1>0, <1>4, LoopMoves
<1>5. CASE TurnFails
  BY <1>0, <1>5 DEF TurnFails
<1>6. CASE Around
  BY <1>0, <1>6, AroundStays DEF Open
<1>7. ASSUME NEW t \in Tabs, Strays(t) PROVE LoopFits'
  <2>1. t \in Open
    BY <1>7, ChatShape DEF Strays, Pages, Open
  <2> QED BY <1>0, <1>7, <2>1 DEF Strays
<1>8. CASE UNCHANGED hostVars
  BY <1>0, <1>8 DEF hostVars, Open
<1> QED BY <1>1, <1>2, <1>3, <1>4, <1>5, <1>6, <1>7, <1>8, HostSteps

\* The generation of a route only grows: by a commit, a rebind or an unbind.
LEMMA GensGrow ==
    ASSUME HostBase, [HostNext]_hostVars, NEW r \in Routes
    PROVE  gen[r] \in Nat /\ gen'[r] \in Nat /\ gen[r] <= gen'[r]
<1> USE DEF browser, registry, world, files
<1>0. gen \in [Routes -> 0..MaxGen] /\ MaxGen \in Nat /\ gen[r] \in Nat
  BY HostAssumption DEF HostBase, HostTypeOK
<1>1. CASE UNCHANGED gen
  BY <1>0, <1>1
<1>2. CASE Commits
  BY <1>0, <1>2 DEF Commits
<1>3. ASSUME NEW q \in Routes, Rebinds(q) \/ Unbinds(q)
      PROVE  gen[r] \in Nat /\ gen'[r] \in Nat /\ gen[r] <= gen'[r]
  <2>1. gen' = gen \/ gen' = [gen EXCEPT ![q] = @ + 1]
    BY <1>3 DEF Rebinds, Unbinds
  <2> QED BY <1>0, <2>1
<1>4. CASE \/ Boot \/ HostCrash \/ Parks \/ OwnerStarts \/ TurnFails \/ UNCHANGED hostVars
           \/ \E t \in Tabs : Strays(t)
  <2>1. UNCHANGED gen
    BY <1>4 DEF Boot, HostCrash, Parks, OwnerStarts, TurnFails, hostVars, Strays
  <2> QED BY <1>1, <2>1
<1>5. CASE Loop /\ ~Commits
  <2>1. UNCHANGED gen
    <3>1. CASE Rolling
      BY <1>5, <3>1 DEF Rolling, NoRollover, RollCreates, RollReopens, RollWaits, Records, VetWaits,
                        RollAborts
    <3>2. CASE Top \/ SeekFinds \/ SeekLoads \/ LimitDetected \/ Bootstraps \/ Idles \/ GateOpens
               \/ WakeIsReady
      BY <3>2 DEF Top, SeekFinds, SeekLoads, LimitDetected, Bootstraps, Idles, GateOpens, WakeIsReady
    <3>3. CASE Preflight \/ ListenFails \/ ListenPasses \/ Finishes
      BY <3>3 DEF Preflight, PreflightBegins, FreshOpens, CheckPasses, CheckFails, PollPasses,
                  PollFails, ListenFails, ListenPasses, Finishes
    <3> QED BY <1>5, <3>1, <3>2, <3>3 DEF Loop
  <2> QED BY <1>1, <2>1
<1>6. CASE \/ Time \/ Ages \/ OwnerAborts \/ TurnBegins \/ TurnEnds \/ Limits \/ Lifts
           \/ \E q \in Routes : Arms(q) \/ Lapses(q) \/ Delivers(q) \/ Acks(q) \/ Switches(q)
                                \/ Prepares(q)
  <2>1. UNCHANGED gen
    BY <1>6 DEF Time, QuietEnds, CoolingEnds, RetryPasses, Ages, OwnerAborts, TurnBegins, TurnEnds,
                Limits, Lifts, Arms, Lapses, Delivers, Acks, Switches, Prepares
  <2> QED BY <1>1, <2>1
<1> QED BY <1>2, <1>3, <1>4, <1>5, <1>6, HostSteps DEF Around

\* The rollover goes on or is gone, and the loop holds what it held or nothing.
RollStays ==
    /\ used["roll"] <= used'["roll"]
    /\ held' \in {0, held}
    /\ roll' = roll \/ roll' = None
       \/ (roll # None /\ roll' # None /\ roll'.token = roll.token /\ roll'.src = roll.src
           /\ roll'.route = roll.route)
    /\ pc' \in {"record", "vet"} => pc \in {"record", "vet"} /\ aim' = aim /\ held' = held

LEMMA RollStaysFit == HostBase /\ RollStays /\ HostTypeOK' /\ [HostNext]_hostVars => RollFits'
<1> SUFFICES ASSUME HostBase, RollStays, HostTypeOK', [HostNext]_hostVars PROVE RollFits'
  OBVIOUS
<1>1. held \in Nat /\ used["roll"] \in Nat /\ used'["roll"] \in Nat /\ RollFits
  BY DEF HostBase, HostTypeOK, HostEvents
<1>2. roll' # None => roll # None /\ roll'.token = roll.token /\ roll'.src = roll.src /\ roll'.route = roll.route
  BY DEF RollStays
<1>3. roll' # None => roll'.src <= gen'[roll'.route]
  <2> SUFFICES ASSUME roll' # None PROVE roll'.src <= gen'[roll'.route]
    OBVIOUS
  <2>1. roll.route \in Routes /\ roll.src \in Nat /\ roll.src <= gen[roll.route]
    BY <1>1, <1>2 DEF HostBase, HostTypeOK, Rollovers, RollFits
  <2> QED BY <1>2, <2>1, GensGrow
<1> QED BY <1>1, <1>2, <1>3 DEF RollStays, RollFits, Mine

\* A charged step spends neither rollovers nor wakes nor changes of the route.
LEMMA ChargedSpares ==
    ASSUME Charged
    PROVE  /\ used'["roll"] = used["roll"] /\ used'["arm"] = used["arm"]
           /\ used'["switch"] = used["switch"] /\ used'["rebind"] = used["rebind"]
BY DEF Charged, Passed, HostEvents

\* The loop never holds a rollover of another route than the one it works on.
LEMMA RollKeeps == HostBase /\ [HostNext]_hostVars => RollFits'
<1> SUFFICES ASSUME HostBase, [HostNext]_hostVars PROVE RollFits'
  OBVIOUS
<1>0. /\ HostTypeOK' /\ held \in Nat /\ used["roll"] \in Nat /\ used'["roll"] \in Nat
      /\ HostTypeOK /\ RollFits
  BY HostTypesKeep DEF HostBase, HostTypeOK, HostEvents
<1> USE DEF browser, registry, world, files, Turn, Goto
<1>1. CASE Boot \/ Parks \/ OwnerStarts \/ TurnFails
  <2>1. used["roll"] <= used'["roll"]
    BY <1>0, <1>1, UncountedCharges, ChargedSpares DEF Uncounted
  <2>2. held' \in {0, held} /\ roll' = roll /\ pc' \notin {"record", "vet"}
    BY <1>1 DEF Boot, Parks, Down, OwnerStarts, TurnFails
  <2> QED BY <1>0, <2>1, <2>2, RollStaysFit DEF RollStays
<1>2. CASE HostCrash
  <2>1. used["roll"] <= used'["roll"]
    BY <1>0, <1>2, UsePasses DEF HostCrash, Passed, HostEvents
  <2> QED BY <1>0, <1>2, <2>1, RollStaysFit DEF RollStays, HostCrash, Down
<1>3. CASE Loop
  <2>0. used'["roll"] = used["roll"]
    BY <1>3, UncountedCharges, ChargedSpares DEF Uncounted
  <2>1. CASE RollCreates \/ RollReopens
    <3>1. held' = roll.token /\ roll' = roll /\ aim' = aim /\ roll # None /\ roll.route = aim[1]
      BY <2>1 DEF RollCreates, RollReopens, Pending
    <3>2. gen' = gen
      BY <2>1 DEF RollCreates, RollReopens
    <3> QED BY <1>0, <2>0, <3>1, <3>2 DEF RollFits, Mine
  <2>2. CASE Records
    <3>1. roll' = roll \/ (roll # None /\ roll' # None /\ roll'.token = roll.token /\ roll'.src = roll.src
           /\ roll'.route = roll.route)
      <4>1. CASE roll' = [roll EXCEPT !.candidate = TRUE] /\ Mine
        <5>1. roll \in Rollovers /\ roll' \in Rollovers
          BY <1>0, <4>1 DEF HostTypeOK, Mine, Rollovers
        <5> QED BY <4>1, <5>1, HostAssumption DEF Rollovers
      <4>2. CASE roll' = [roll EXCEPT !.candidate = @ \/ Current(roll)] /\ Mine
        <5>1. roll \in Rollovers
          BY <1>0, <4>2 DEF HostTypeOK, Mine
        <5>2. roll'.token = roll.token /\ roll'.src = roll.src /\ roll'.route = roll.route /\ roll' \in Rollovers
          BY <4>2, <5>1 DEF Rollovers, Current
        <5> QED BY <5>1, <5>2, HostAssumption
      <4> QED BY <2>2, <4>1, <4>2 DEF Records
    <3>2. held' \in {0, held} /\ aim' = aim /\ (pc' \in {"record", "vet"} => held' = held) /\ pc = "record"
      BY <2>2 DEF Records
    <3> QED BY <1>0, <2>0, <3>1, <3>2, RollStaysFit DEF RollStays
  <2>3. CASE NoRollover \/ RollWaits \/ Commits \/ VetWaits \/ RollAborts
    BY <1>0, <2>0, <2>3, RollStaysFit
       DEF RollStays, NoRollover, RollWaits, Commits, VetWaits, RollAborts
  <2>4. CASE Top \/ SeekFinds \/ SeekLoads \/ LimitDetected \/ Bootstraps \/ Idles \/ GateOpens
             \/ WakeIsReady
    <3>1. UNCHANGED <<held, roll>> /\ pc' \notin {"record", "vet"}
      BY <2>4 DEF Top, SeekFinds, SeekLoads, Works, LimitDetected, Bootstraps, Idles, GateOpens, WakeIsReady
    <3> QED BY <1>0, <2>0, <3>1, RollStaysFit DEF RollStays
  <2>5. CASE Preflight \/ ListenFails \/ ListenPasses \/ Finishes
    <3>1. UNCHANGED <<held, roll>> /\ pc' \notin {"record", "vet"}
      BY <2>5 DEF Preflight, PreflightBegins, Begins, FreshOpens, CheckPasses, CheckFails, PollPasses,
                  PollFails, Fails, ListenFails, ListenPasses, Finishes
    <3> QED BY <1>0, <2>0, <3>1, RollStaysFit DEF RollStays
  <2> QED BY <1>3, <2>1, <2>2, <2>3, <2>4, <2>5 DEF Loop, Rolling
<1>4. CASE Time \/ Ages \/ OwnerAborts \/ TurnEnds \/ Lifts
           \/ \E r \in Routes : Lapses(r) \/ Delivers(r) \/ Acks(r)
  <2>1. used'["roll"] = used["roll"]
    BY <1>4, UncountedCharges, ChargedSpares DEF Uncounted
  <2>2. UNCHANGED <<pc, aim, held>>
    BY <1>4, AroundStays DEF Around
  <2>3. CASE Ages
    <3>1. roll \in Rollovers /\ roll' = [roll EXCEPT !.old = TRUE]
      BY <1>0, <2>3 DEF Ages, HostTypeOK
    <3>2. roll'.token = roll.token /\ roll'.src = roll.src /\ roll'.route = roll.route /\ roll' \in Rollovers
      BY <3>1 DEF Rollovers
    <3> QED BY <1>0, <2>1, <2>2, <3>1, <3>2, HostAssumption, RollStaysFit DEF RollStays
  <2>4. CASE OwnerAborts
    BY <1>0, <2>1, <2>2, <2>4, RollStaysFit DEF RollStays, OwnerAborts
  <2>5. CASE Time \/ TurnEnds \/ Lifts \/ \E r \in Routes : Lapses(r) \/ Delivers(r) \/ Acks(r)
    <3>1. roll' = roll
      BY <2>5 DEF Time, QuietEnds, CoolingEnds, RetryPasses, TurnEnds, Lifts, Lapses, Delivers, Acks
    <3> QED BY <1>0, <2>1, <2>2, <3>1, RollStaysFit DEF RollStays
  <2> QED BY <1>4, <2>3, <2>4, <2>5
<1>5. ASSUME NEW r \in Routes, Prepares(r) PROVE RollFits'
  <2>1. UNCHANGED <<pc, aim, held>>
    BY <1>5 DEF Prepares
  <2>2. used'["roll"] = used["roll"] + 1
    BY <1>0, <1>5, UsePasses DEF Prepares, Passed, HostEvents
  <2>3. /\ roll'.token = used["roll"] + 1 /\ roll'.src = gen[r] /\ gen[r] < MaxGen
        /\ roll'.route = r /\ gen' = gen /\ gen[r] \in Nat
    BY <1>5, GensGrow DEF Prepares
  <2> QED BY <1>0, <2>1, <2>2, <2>3 DEF RollFits, Mine
<1>6. CASE TurnBegins \/ Limits \/ \E r \in Routes : Arms(r) \/ Switches(r) \/ Rebinds(r) \/ Unbinds(r)
  <2>1. UNCHANGED <<pc, aim, held>>
    BY <1>6, AroundStays DEF Around
  <2>2. PICK e \in HostEvents : Use(e)
    BY <1>6 DEF TurnBegins, Limits, Arms, Switches, Rebinds, Unbinds, HostEvents
  <2>3. Passed(e)
    BY <1>0, <2>2, UsePasses
  <2>4. used["roll"] <= used'["roll"]
    BY <1>0, <2>3 DEF Passed, HostEvents
  <2>5. roll' = roll \/ roll' = None
    BY <1>6 DEF TurnBegins, Limits, Arms, Switches, Rebinds, Unbinds
  <2> QED BY <1>0, <2>1, <2>4, <2>5, RollStaysFit DEF RollStays
<1>7. ASSUME NEW t \in Tabs, Strays(t) PROVE RollFits'
  <2>1. used'["roll"] = used["roll"]
    BY <1>7, UncountedCharges, ChargedSpares DEF Uncounted
  <2> QED BY <1>0, <1>7, <2>1, RollStaysFit DEF RollStays, Strays
<1>8. CASE UNCHANGED hostVars
  BY <1>0, <1>8, RollStaysFit DEF RollStays, hostVars
<1> QED BY <1>1, <1>2, <1>3, <1>4, <1>5, <1>6, <1>7, <1>8, HostSteps DEF Around

-----------------------------------------------------------------------------
(* The continuations.                                                        *)

\* Of the wakes, a route keeps its continuation or loses it.
WakesStay ==
    /\ used'["arm"] = used["arm"] /\ load' = load
    /\ budget'.cont <= used["arm"]
    /\ \A r \in Routes :
         \/ /\ wake'[r].id = wake[r].id
            /\ wake'[r].st = "idle" <=> wake[r].st = "idle"
            /\ bound'[r] = bound[r] \/ bound'[r]
         \/ wake'[r].id = 0 /\ wake'[r].st = "idle"
    /\ \A c \in Wakes : c > used["arm"] => spent'[c] = spent[c]

LEMMA WakesStayFit == HostBase /\ WakesStay /\ HostTypeOK' => HostWakesFit'
<1> SUFFICES ASSUME HostBase, WakesStay, HostTypeOK' PROVE HostWakesFit'
  OBVIOUS
<1>1. HostWakesFit
  BY DEF HostBase
<1>2. \A r \in Routes : /\ wake'[r].id <= used'["arm"]
                        /\ wake'[r].st = "idle" <=> wake'[r].id = 0
                        /\ wake'[r].id # 0 => bound'[r] /\ wake'[r].id = wake[r].id
  BY <1>1, BaseShape, HostAssumption DEF WakesStay, HostWakesFit, HostEvents
<1> QED BY <1>1, <1>2 DEF WakesStay, HostWakesFit

\* The continuation the loop works for is of the route of its chat.
LEMMA WakeOfAim ==
    ASSUME HostBase, WakeOf(aim).st # "idle"
    PROVE  /\ aim[1] \in Routes /\ WakeOf(aim) = wake[aim[1]]
           /\ WakeOf(aim).id \in Wakes /\ WakeOf(aim).id <= used["arm"]
<1>1. aim \in Chats /\ WakeOf(aim) = wake[aim[1]]
  BY DEF WakeOf
<1>2. aim[1] \in Routes
  BY <1>1, ChatShape
<1> QED BY <1>1, <1>2, BaseShape DEF HostBase, HostWakesFit

\* What a step of the loop, or a start, does to budget and continuations: it may
\* settle an attempt, begin one, or see it authorized.
Settles == budget' \in {budget, Settled, RestoredBudget}
           /\ UNCHANGED <<wake, spent>>
Authorizes ==
    /\ WakeOf(aim).st \in {"preflight", "ready"} /\ WakeOf(aim).id = budget.cont
    /\ wake' = [wake EXCEPT ![aim[1]].st = "ready"]
    /\ spent' = [spent EXCEPT ![budget.cont] = 0]
    /\ \/ budget' = [cont |-> 0, attempts |-> 0, cooling |-> FALSE, inflight |-> FALSE]
       \/ budget' = Settled

LEMMA BudgetMoves ==
    ASSUME HostBase, Boot \/ HostCrash \/ Parks \/ OwnerStarts \/ Loop \/ TurnFails
    PROVE  /\ UNCHANGED <<bound, load>>
           /\ \/ Settles
              \/ PreflightBegins /\ UNCHANGED wake
              \/ PollPasses /\ Authorizes
<1> USE DEF browser, registry, world, files, Turn, Goto, Settles
<1>1. CASE Boot
  BY <1>1 DEF Boot
<1>2. CASE HostCrash \/ Parks \/ OwnerStarts \/ TurnFails
  BY <1>2 DEF HostCrash, Parks, OwnerStarts, TurnFails
<1>3. CASE Rolling
  BY <1>3 DEF Rolling, NoRollover, RollCreates, RollReopens, RollWaits, Records, Commits, VetWaits,
              RollAborts
<1>4. CASE Top \/ SeekFinds \/ SeekLoads \/ LimitDetected \/ Bootstraps \/ Idles \/ GateOpens \/ WakeIsReady
  BY <1>4 DEF Top, SeekFinds, SeekLoads, LimitDetected, Bootstraps, Idles, GateOpens, WakeIsReady
<1>5. CASE PreflightBegins
  BY <1>5 DEF PreflightBegins
<1>6. CASE FreshOpens \/ CheckPasses \/ CheckFails \/ PollFails
  BY <1>6 DEF FreshOpens, CheckPasses, CheckFails, PollFails, Fails, Settled
<1>7. CASE PollPasses
  BY <1>7 DEF PollPasses, Fails, Settled, Authorizes
<1>8. CASE ListenFails \/ ListenPasses \/ Finishes
  BY <1>8 DEF ListenFails, ListenPasses, Finishes
<1> QED BY <1>1, <1>2, <1>3, <1>4, <1>5, <1>6, <1>7, <1>8 DEF Loop, Preflight

\* A settled or restored budget is that of the same continuation.
LEMMA SettledBudget ==
    ASSUME HostTypeOK
    PROVE  /\ \A b \in {budget, Settled, RestoredBudget} :
                 b.cont = budget.cont /\ b.attempts = budget.attempts
           /\ budget.cont \in Nat /\ budget.attempts \in Nat /\ budget.attempts <= MaxLiveAttempts
<1>1. budget \in BudgetTypes
  BY DEF HostTypeOK, BudgetTypes
<1>2. RestoredBudget.cont = budget.cont /\ RestoredBudget.attempts = budget.attempts
  BY <1>1 DEF RestoredBudget, BudgetTypes
<1> QED BY <1>1, <1>2, SettledTypes, HostAssumption DEF BudgetTypes, Wakes

\* The budget that a continuation meets: what is left of its own, or a new one.
LEMMA BudgetOf ==
    ASSUME HostBase, NEW c \in Wakes
    PROVE  /\ BudgetFor(c) \in BudgetTypes /\ BudgetFor(c).cont = c
           /\ BudgetFor(c).attempts = IF budget.cont = c THEN budget.attempts ELSE 0
<1>1. budget \in BudgetTypes
  BY DEF HostBase, HostTypeOK, BudgetTypes
<1> QED BY <1>1, HostAssumption DEF BudgetFor, BudgetTypes

\* A begun attempt is counted, in the budget and for its continuation.
LEMMA BeginMoves ==
    ASSUME HostBase, NEW c \in Wakes, Begins(c)
    PROVE  /\ budget'.cont = c
           /\ \A d \in Wakes \ {c} : spent'[d] = spent[d]
           /\ \E k \in 0..1 : /\ spent'[c] = spent[c] + k
                              /\ budget'.attempts = BudgetFor(c).attempts + k
<1>1. BudgetFor(c) \in BudgetTypes /\ BudgetFor(c).cont = c /\ spent \in [Wakes -> Nat]
  BY BudgetOf DEF HostBase, HostTypeOK
<1>2. CASE MayTry(c)
  <2>1. /\ budget' = [BudgetFor(c) EXCEPT !.attempts = @ + 1, !.inflight = TRUE]
        /\ spent' = [spent EXCEPT ![c] = @ + 1]
    BY <1>2 DEF Begins
  <2>2. 1 \in 0..1
    OBVIOUS
  <2> QED BY <1>1, <2>1, <2>2 DEF BudgetTypes
<1>3. CASE ~MayTry(c)
  <2>1. budget' = BudgetFor(c) /\ spent' = spent
    BY <1>3 DEF Begins
  <2>2. 0 \in 0..1 /\ BudgetFor(c).attempts + 0 = BudgetFor(c).attempts /\ spent[c] + 0 = spent[c]
    BY <1>1, HostAssumption DEF BudgetTypes
  <2> QED BY <1>1, <2>1, <2>2
<1> QED BY <1>2, <1>3

\* Continuations are told apart, and what is not armed yet has cost nothing.
LEMMA WakesKeep == HostBase /\ [HostNext]_hostVars => HostWakesFit'
<1> SUFFICES ASSUME HostBase, [HostNext]_hostVars PROVE HostWakesFit'
  OBVIOUS
<1>0. /\ HostTypeOK' /\ HostTypeOK /\ HostWakesFit /\ used \in [HostEvents -> Nat]
      /\ wake \in [Routes -> [id : {0} \cup Wakes, st : {"idle", "preflight", "ready", "out"}]]
      /\ bound \in [Routes -> BOOLEAN] /\ spent \in [Wakes -> Nat]
      /\ budget.cont \in Nat /\ budget.cont <= used["arm"] /\ used["arm"] \in Nat
  BY HostTypesKeep, SettledBudget, BaseShape DEF HostBase, HostTypeOK, HostWakesFit, HostEvents
<1> USE DEF registry, world, files
<1>1. CASE Boot \/ HostCrash \/ Parks \/ OwnerStarts \/ Loop \/ TurnFails
  <2>1. used'["arm"] = used["arm"]
    <3>1. CASE HostCrash
      BY <1>0, <3>1, UsePasses DEF HostCrash, Passed, HostEvents
    <3> QED BY <1>1, <3>1, UncountedCharges, ChargedSpares DEF Uncounted
  <2>2. UNCHANGED <<bound, load>>
    BY <1>1, BudgetMoves
  <2>3. CASE Settles
    BY <1>0, <2>1, <2>2, <2>3, SettledBudget, WakesStayFit DEF WakesStay, Settles
  <2>4. CASE PreflightBegins /\ UNCHANGED wake
    <3> DEFINE c == WakeOf(aim).id
    <3>1. c \in Wakes /\ c <= used["arm"] /\ Begins(c)
      BY <2>4, WakeOfAim DEF PreflightBegins
    <3> HIDE DEF c
    <3>2. budget'.cont <= used["arm"] /\ \A d \in Wakes : d > used["arm"] => spent'[d] = spent[d]
      BY <1>0, <3>1, BeginMoves, HostAssumption DEF Wakes
    <3> QED BY <1>0, <2>1, <2>2, <2>4, <3>2, WakesStayFit DEF WakesStay
  <2>5. CASE Authorizes
    <3>1. /\ aim[1] \in Routes /\ wake[aim[1]].st # "idle"
          /\ wake' = [wake EXCEPT ![aim[1]].st = "ready"]
          /\ spent' = [spent EXCEPT ![budget.cont] = 0] /\ budget.cont <= used["arm"]
      BY <1>0, <2>5, WakeOfAim DEF Authorizes
    <3>2. budget'.cont <= used["arm"]
      BY <1>0, <2>5, SettledBudget DEF Authorizes
    <3>3. \A r \in Routes : /\ wake'[r].id = wake[r].id
                            /\ wake'[r].st = "idle" <=> wake[r].st = "idle"
      BY <1>0, <3>1
    <3>4. \A c \in Wakes : c > used["arm"] => spent'[c] = spent[c]
      BY <1>0, <3>1, HostAssumption DEF Wakes
    <3> QED BY <1>0, <2>1, <2>2, <3>2, <3>3, <3>4, WakesStayFit DEF WakesStay
  <2> QED BY <1>1, <2>3, <2>4, <2>5, BudgetMoves
<1>2. CASE Ages \/ OwnerAborts \/ TurnEnds \/ Lifts \/ Time \/ \E t \in Tabs : Strays(t)
  <2>1. used'["arm"] = used["arm"]
    BY <1>2, UncountedCharges, ChargedSpares DEF Uncounted
  <2>2. UNCHANGED <<wake, load, bound, spent>> /\ budget'.cont = budget.cont
    <3>1. CASE CoolingEnds
      BY <1>0, <3>1 DEF CoolingEnds, HostTypeOK
    <3> QED BY <1>2, <3>1 DEF Ages, OwnerAborts, TurnEnds, Lifts, Time, QuietEnds, RetryPasses, Strays
  <2> QED BY <1>0, <2>1, <2>2, WakesStayFit DEF WakesStay
<1>3. CASE TurnBegins \/ Limits \/ \E r \in Routes : Switches(r) \/ Prepares(r) \/ Rebinds(r) \/ Unbinds(r)
  <2>1. PICK e \in HostEvents \ {"arm"} : Use(e)
    BY <1>3 DEF TurnBegins, Limits, Switches, Prepares, Rebinds, Unbinds, HostEvents
  <2>2. used'["arm"] = used["arm"]
    BY <1>0, <2>1, UsePasses DEF Passed, HostEvents
  <2>3. UNCHANGED <<load, spent, budget>>
    BY <1>3 DEF TurnBegins, Limits, Switches, Prepares, Rebinds, Unbinds
  <2>4. ASSUME NEW r \in Routes
        PROVE  \/ wake'[r] = wake[r] /\ (bound'[r] = bound[r] \/ bound'[r])
               \/ wake'[r].id = 0 /\ wake'[r].st = "idle"
    BY <1>0, <1>3 DEF TurnBegins, Limits, Switches, Prepares, Rebinds, Unbinds
  <2> QED BY <1>0, <2>2, <2>3, <2>4, WakesStayFit DEF WakesStay
<1>4. ASSUME NEW r \in Routes, Lapses(r) \/ Delivers(r) \/ Acks(r) PROVE HostWakesFit'
  <2>1. used'["arm"] = used["arm"]
    BY <1>4, UncountedCharges, ChargedSpares DEF Uncounted
  <2>2. UNCHANGED <<load, spent, budget, bound>>
    BY <1>4 DEF Lapses, Delivers, Acks
  <2>3. ASSUME NEW q \in Routes
        PROVE  \/ wake'[q].id = wake[q].id /\ (wake'[q].st = "idle" <=> wake[q].st = "idle")
               \/ wake'[q].id = 0 /\ wake'[q].st = "idle"
    BY <1>0, <1>4 DEF Lapses, Delivers, Acks
  <2> QED BY <1>0, <2>1, <2>2, <2>3, WakesStayFit DEF WakesStay
<1>5. ASSUME NEW r \in Routes, Arms(r) PROVE HostWakesFit'
  <2>1. used'["arm"] = used["arm"] + 1 /\ used'["arm"] <= load["arm"]
    BY <1>0, <1>5, UsePasses DEF Arms, Passed, HostEvents
  <2>2. UNCHANGED <<load, spent, budget, bound>> /\ bound[r]
    BY <1>5 DEF Arms
  <2>3. /\ wake'[r].id = used["arm"] + 1 /\ wake'[r].st = "preflight"
        /\ \A q \in Routes \ {r} : wake'[q] = wake[q]
    BY <1>0, <1>5 DEF Arms
  <2>4. \A q \in Routes : wake[q].id \in Nat
    BY <1>0, HostAssumption DEF Wakes
  <2>5. ASSUME NEW q \in Routes
        PROVE  /\ wake'[q].id <= used'["arm"]
               /\ wake'[q].st = "idle" <=> wake'[q].id = 0
               /\ wake'[q].id # 0 => bound'[q]
    BY <1>0, <2>1, <2>2, <2>3, <2>4 DEF HostWakesFit
  <2>6. ASSUME NEW p \in Routes, NEW q \in Routes, wake'[p].id = wake'[q].id, wake'[p].id # 0
        PROVE  p = q
    BY <1>0, <2>3, <2>4, <2>6 DEF HostWakesFit
  <2>7. budget'.cont <= used'["arm"] /\ \A c \in Wakes : c > used'["arm"] => spent'[c] = 0
    BY <1>0, <2>1, <2>2, HostAssumption DEF HostWakesFit, Wakes
  <2> QED BY <2>1, <2>2, <2>5, <2>6, <2>7 DEF HostWakesFit
<1>6. CASE UNCHANGED hostVars
  BY <1>0, <1>6, WakesStayFit DEF WakesStay, hostVars
<1> QED BY <1>1, <1>2, <1>3, <1>4, <1>5, <1>6, HostSteps DEF Around

\* So what holds of the loop, its rollover and its continuations holds after every step.
LEMMA HostBaseKeeps == HostBase /\ [HostNext]_hostVars => HostBase'
BY HostTypesKeep, LoopKeeps, RollKeeps, WakesKeep DEF HostBase

LEMMA HostStarts == HostInit => HostBase
<1> SUFFICES ASSUME HostInit PROVE HostBase
  OBVIOUS
<1>1. used \in [HostEvents -> Nat] /\ \A e \in HostEvents : used[e] = 0
  BY DEF HostInit
<1>2. HostTypeOK
  <2>1. budget \in [cont : {0} \cup Wakes, attempts : 0..MaxLiveAttempts,
                  cooling : BOOLEAN, inflight : BOOLEAN]
    BY HostAssumption DEF HostInit
  <2>2. tabs \in [Tabs -> Chats \cup {Shut, Blank, HomePage, Away}]
    BY DEF HostInit
  <2>3. wake \in [Routes -> [id : {0} \cup Wakes, st : {"idle", "preflight", "ready", "out"}]]
    BY DEF HostInit
  <2>4. gen \in [Routes -> 0..MaxGen] /\ bound \in [Routes -> BOOLEAN]
    BY HostAssumption DEF HostInit
  <2> QED BY <1>1, <2>1, <2>2, <2>3, <2>4 DEF HostInit, HostTypeOK, Steps
<1>3. LoopFits
  BY DEF HostInit, LoopFits, Open
<1>4. RollFits
  BY <1>1 DEF HostInit, RollFits, HostEvents
<1>5. load["arm"] \in Nat /\ used["arm"] = 0 /\ bound \in [Routes -> BOOLEAN]
  BY <1>1, <1>2, HostAssumption DEF HostTypeOK, HostEvents
<1>6. HostWakesFit
  BY <1>5 DEF HostInit, HostWakesFit
<1> QED BY <1>2, <1>3, <1>4, <1>6 DEF HostBase

-----------------------------------------------------------------------------
(* A quiet period.                                                           *)

BackoffStep == quiet' => \A t \in Tabs : tabs'[t] \in Chats => tabs[t] = tabs'[t]

\* A step that ends in a quiet period either leaves the tabs alone, closes them
\* all, takes one to another page, or starts Chrome on a blank one.
LEMMA BackoffKeeps == HostBase /\ [HostNext]_hostVars => BackoffStep
<1> SUFFICES ASSUME HostBase, [HostNext]_hostVars, quiet' PROVE BackoffStep
  BY DEF BackoffStep
<1>0. tabs \in [Tabs -> TabStates]
  BY BaseShape
<1> USE DEF browser, registry, world, files, Turn, Goto, BackoffStep
<1>1. CASE Boot
  <2>1. quiet /\ LoopFits /\ HostTypeOK
    BY <1>1 DEF Boot, HostBase
  <2>2. PICK t \in NewTabs : Lands(t, Blank, {})
    BY <1>1, <2>1 DEF Boot, FirstPage
  <2>3. t \in Tabs /\ Blank \in TabStates
    BY NewTabIsShut DEF TabStates
  <2>4. tabs'[t] = Blank /\ SparesOf(t, {})
    BY <2>1, <2>2, <2>3, LandsSomewhere
  <2> QED BY <2>3, <2>4, ChatShape DEF SparesOf
<1>2. CASE HostCrash \/ Parks
  <2>1. \A t \in Tabs : tabs'[t] = Shut
    BY <1>2 DEF HostCrash, Parks, Down
  <2> QED BY <2>1, ChatShape
<1>3. CASE OwnerStarts \/ UNCHANGED hostVars \/ TurnFails
  BY <1>3 DEF OwnerStarts, hostVars, TurnFails
<1>4. CASE Top
  BY <1>4 DEF Top
<1>5. CASE Loop /\ ~Top
  <2>1. ~quiet
    BY <1>5, LoopMoves
  <2>2. CASE LimitDetected
    BY <2>2 DEF LimitDetected
  <2>3. CASE ~LimitDetected
    <3>1. quiet' = quiet
      <4>1. CASE Rolling
        BY <4>1 DEF Rolling, NoRollover, RollCreates, RollReopens, RollWaits, Records, Commits,
                    VetWaits, RollAborts
      <4>2. CASE SeekFinds \/ SeekLoads \/ Bootstraps \/ Idles \/ GateOpens \/ WakeIsReady
        BY <4>2 DEF SeekFinds, SeekLoads, Bootstraps, Idles, GateOpens, WakeIsReady
      <4>3. CASE Preflight
        BY <4>3 DEF Preflight, PreflightBegins, FreshOpens, CheckPasses, CheckFails, PollPasses,
                    PollFails, Fails
      <4>4. CASE ListenFails \/ ListenPasses \/ Finishes
        BY <4>4 DEF ListenFails, ListenPasses, Finishes
      <4> QED BY <1>5, <2>3, <4>1, <4>2, <4>3, <4>4 DEF Loop
    <3> QED BY <2>1, <3>1
  <2> QED BY <2>2, <2>3
<1>6. CASE Around
  BY <1>6, AroundStays
<1>7. ASSUME NEW t \in Tabs, Strays(t) PROVE BackoffStep
  BY <1>0, <1>7, ChatShape DEF Strays
<1> QED BY <1>1, <1>2, <1>3, <1>4, <1>5, <1>6, <1>7, HostSteps

-----------------------------------------------------------------------------
(* What a continuation costs.                                                *)

Changes == used["switch"] + used["rebind"]

\* The budget of c, of route r, was granted anew K times: each time the budget went
\* to another continuation, for which the host had to be on another route.
Granted(c, r, K) ==
    IF budget.cont = c
    THEN /\ spent[c] <= MaxLiveAttempts * K + budget.attempts
         /\ 2 * K <= Changes
         /\ (wanted # r \/ aim[1] # r) => 2 * K + 1 <= Changes
         /\ (wanted = r /\ aim[1] # r) => 2 * K + 2 <= Changes
    ELSE /\ spent[c] <= MaxLiveAttempts * K
         /\ 2 * K <= Changes + 1
         /\ (wanted = r \/ aim[1] = r) => 2 * K <= Changes
         /\ (wanted # r /\ aim[1] = r) => 2 * K + 1 <= Changes

Cost(c, r) == \E K \in Nat : Granted(c, r, K)

\* The host follows the requested route, which only its changes take away from it.
Follows == aim \in Chats /\ wanted # aim[1] => Changes >= 1

CostsFit ==
    /\ Follows
    /\ \A c \in Wakes, r \in Routes : wake[r].id = c => Cost(c, r)

Afford(c) == \E K \in Nat : spent[c] <= MaxLiveAttempts * K /\ 2 * K <= Changes + 2

DeadFit == \A c \in Wakes : (\A r \in Routes : wake[r].id # c) => Afford(c)

\* What the solver is not told of products.
LEMMA MoreTimes == \A m, a, b \in Nat : /\ m * a \in Nat
                                        /\ m * (a + 1) = m * a + m
                                        /\ a <= b => m * a <= m * b
<1> SUFFICES ASSUME NEW m \in Nat, NEW a \in Nat, NEW b \in Nat
             PROVE  m * a \in Nat /\ m * (a + 1) = m * a + m /\ (a <= b => m * a <= m * b)
  OBVIOUS
<1>1. m * a \in Nat
  OBVIOUS
<1>2. m * (a + 1) = m * a + m
  OBVIOUS
<1>3. ASSUME a <= b PROVE m * a <= m * b
  <2>1. b - a \in Nat /\ b = a + (b - a)
    BY <1>3
  <2>2. m * b = m * a + m * (b - a)
    BY <2>1
  <2>3. m * (b - a) \in Nat
    BY <2>1
  <2> QED BY <1>1, <2>2, <2>3
<1> QED BY <1>1, <1>2, <1>3

\* Only a switch of the route and a takeover or bind count as a change of it.
LEMMA ChangesCount ==
    ASSUME HostBase, [HostNext]_hostVars
    PROVE  /\ Changes \in Nat /\ Changes' \in Nat
           /\ (\E r \in Routes : Switches(r) \/ Rebinds(r)) => Changes' = Changes + 1
           /\ ~(\E r \in Routes : Switches(r) \/ Rebinds(r)) => Changes' = Changes
<1>0. /\ used \in [HostEvents -> Nat] /\ used' \in [HostEvents -> Nat] /\ HostTypeOK
      /\ {"switch", "rebind"} \subseteq HostEvents
  BY BaseShape, HostTypesKeep DEF HostBase, HostTypeOK, HostEvents
<1> USE DEF Changes
<1>1. ASSUME NEW r \in Routes, Switches(r) PROVE Changes' = Changes + 1
  <2>1. Passed("switch")
    BY <1>0, <1>1, UsePasses DEF Switches
  <2> QED BY <1>0, <2>1 DEF Passed
<1>2. ASSUME NEW r \in Routes, Rebinds(r) PROVE Changes' = Changes + 1
  <2>1. Passed("rebind")
    BY <1>0, <1>2, UsePasses DEF Rebinds
  <2> QED BY <1>0, <2>1 DEF Passed
<1>3. ASSUME ~(\E r \in Routes : Switches(r) \/ Rebinds(r)) PROVE Changes' = Changes
  <2>1. CASE Uncounted
    BY <2>1, UncountedCharges, ChargedSpares
  <2>2. CASE HostCrash \/ TurnBegins \/ Limits
             \/ \E r \in Routes : Arms(r) \/ Prepares(r) \/ Unbinds(r)
    <3>1. PICK e \in HostEvents \ {"switch", "rebind"} : Use(e)
      BY <2>2 DEF HostCrash, TurnBegins, Limits, Arms, Prepares, Unbinds, HostEvents
    <3>2. Passed(e)
      BY <1>0, <3>1, UsePasses
    <3> QED BY <1>0, <3>1, <3>2 DEF Passed
  <2>3. CASE UNCHANGED hostVars
    BY <2>3 DEF hostVars, world
  <2> QED BY <1>3, <2>1, <2>2, <2>3, HostSteps DEF Uncounted, Around
<1> QED BY <1>0, <1>1, <1>2, <1>3

\* What a step does to the requested route and to the one that is followed.
RouteMoves(r) ==
    \/ /\ wanted' = wanted /\ (aim'[1] = r <=> aim[1] = r) /\ Changes' = Changes
    \/ /\ aim' = aim /\ Changes' = Changes + 1
    \/ /\ wanted' = wanted /\ (aim'[1] = r <=> wanted = r) /\ Changes' = Changes
    \/ /\ aim' = aim /\ (wanted' = r <=> aim[1] = r) /\ Changes' = Changes

\* But for the start, the head of the loop, a commit and the changes that are counted,
\* the route stays.
LEMMA WantedStays ==
    ASSUME HostBase, [HostNext]_hostVars, ~Boot, ~Top, ~Commits,
           ~\E r \in Routes : Switches(r) \/ Rebinds(r)
    PROVE  wanted' = wanted /\ aim' = aim
<1> USE DEF browser, registry, world, files, Turn, Goto
<1>1. CASE HostCrash \/ Parks \/ OwnerStarts \/ TurnFails \/ UNCHANGED hostVars
  BY <1>1 DEF HostCrash, Parks, OwnerStarts, TurnFails, hostVars
<1>2. CASE Rolling
  BY <1>2 DEF Rolling, NoRollover, RollCreates, RollReopens, RollWaits, Records, VetWaits, RollAborts
<1>3. CASE SeekFinds \/ SeekLoads \/ LimitDetected \/ Bootstraps \/ Idles \/ GateOpens \/ WakeIsReady
  BY <1>3 DEF SeekFinds, SeekLoads, LimitDetected, Bootstraps, Idles, GateOpens, WakeIsReady
<1>4. CASE Preflight
  BY <1>4 DEF Preflight, PreflightBegins, FreshOpens, CheckPasses, CheckFails, PollPasses, PollFails
<1>5. CASE ListenFails \/ ListenPasses \/ Finishes
  BY <1>5 DEF ListenFails, ListenPasses, Finishes
<1>6. CASE Time \/ Ages \/ OwnerAborts \/ TurnBegins \/ TurnEnds \/ Limits \/ Lifts
           \/ \E t \in Tabs : Strays(t)
  BY <1>6 DEF Time, QuietEnds, CoolingEnds, RetryPasses, Ages, OwnerAborts, TurnBegins, TurnEnds,
              Limits, Lifts, Strays
<1>7. CASE \E r \in Routes : Arms(r) \/ Lapses(r) \/ Delivers(r) \/ Acks(r) \/ Prepares(r) \/ Unbinds(r)
  BY <1>7 DEF Arms, Lapses, Delivers, Acks, Prepares, Unbinds
<1> QED BY <1>1, <1>2, <1>3, <1>4, <1>5, <1>6, <1>7, HostSteps DEF Loop, Around

\* The target is a chat of the requested route, or none when that is not bound.
LEMMA TargetOf ==
    ASSUME HostBase
    PROVE  /\ \A r \in Routes : bound[r] => (Target[1] = r <=> wanted = r)
           /\ Target \in Chats => Target[1] = wanted
<1>1. CASE bound[wanted]
  <2>1. Target[1] = wanted
    BY <1>1, ChatShape DEF Target, HostBase, HostTypeOK
  <2> QED BY <2>1
<1>2. CASE ~bound[wanted]
  <2>1. Target = Blank /\ Blank[1] = "blank" /\ "blank" \notin Routes /\ Blank \notin Chats
    BY <1>2, HostAssumption, ChatShape DEF Target, Blank
  <2> QED BY <1>2, <2>1
<1> QED BY <1>1, <1>2

\* Seen from a route whose wake is armed.
LEMMA RoutesMove ==
    ASSUME HostBase, [HostNext]_hostVars, NEW r \in Routes, wake[r].id # 0
    PROVE  RouteMoves(r)
<1> USE DEF browser, registry, world, files
<1>0. bound[r]
  BY DEF HostBase, HostWakesFit
<1>1. CASE Boot \/ Top
  <2>1. Changes' = Changes
    BY <1>1, UncountedCharges, ChargedSpares DEF Uncounted, Loop, Changes
  <2>2. wanted' = wanted /\ aim' = Target
    BY <1>1 DEF Boot, Top, Refreshed
  <2> QED BY <1>0, <2>1, <2>2, TargetOf DEF RouteMoves
<1>2. CASE Commits
  <2>1. Changes' = Changes
    BY <1>2, UncountedCharges, ChargedSpares DEF Uncounted, Loop, Rolling, Changes
  <2>2. wanted' = roll.route /\ aim' = aim /\ roll.route = aim[1]
    BY <1>2 DEF Commits, Turn, HostBase, RollFits
  <2> QED BY <2>1, <2>2 DEF RouteMoves
<1>3. ASSUME NEW q \in Routes, Switches(q) \/ Rebinds(q) PROVE RouteMoves(r)
  <2>1. Changes' = Changes + 1
    BY <1>3, ChangesCount
  <2>2. aim' = aim
    BY <1>3 DEF Switches, Rebinds
  <2> QED BY <2>1, <2>2 DEF RouteMoves
<1>4. CASE ~Boot /\ ~Top /\ ~Commits /\ ~\E q \in Routes : Switches(q) \/ Rebinds(q)
  BY <1>4, WantedStays, ChangesCount DEF RouteMoves
<1> QED BY <1>1, <1>2, <1>3, <1>4

\* The host works on another route than the requested one only after a change of it.
LEMMA FollowsKeeps == HostBase /\ Follows /\ [HostNext]_hostVars => Follows'
<1> SUFFICES ASSUME HostBase, Follows, [HostNext]_hostVars, (aim \in Chats)', (wanted # aim[1])'
             PROVE  Changes' >= 1
  BY DEF Follows
<1>1. CASE Boot \/ Top
  <2>1. wanted' = wanted /\ aim' = Target
    BY <1>1 DEF Boot, Top, Refreshed, registry
  <2> QED BY <2>1, TargetOf
<1>2. CASE Commits
  BY <1>2 DEF Commits, Turn, HostBase, RollFits
<1>3. CASE \E q \in Routes : Switches(q) \/ Rebinds(q)
  BY <1>3, ChangesCount
<1>4. CASE ~Boot /\ ~Top /\ ~Commits /\ ~\E q \in Routes : Switches(q) \/ Rebinds(q)
  BY <1>4, WantedStays, ChangesCount DEF Follows
<1> QED BY <1>1, <1>2, <1>3, <1>4

\* What a step that begins no attempt does to the budget of a continuation.
BudgetStays(c) ==
    /\ budget'.cont = c <=> budget.cont = c
    /\ budget'.attempts = budget.attempts
    /\ spent'[c] = spent[c]

\* A step that neither begins nor authorizes an attempt leaves the cost accounted for.
LEMMA CostStays ==
    ASSUME HostBase, NEW c \in Wakes, NEW r \in Routes, Cost(c, r), BudgetStays(c), RouteMoves(r),
           Changes \in Nat
    PROVE  Cost(c, r)'
<1>1. PICK K \in Nat : Granted(c, r, K)
  BY DEF Cost
<1> DEFINE L == MaxLiveAttempts * K
<1>2. L \in Nat /\ spent[c] \in Nat /\ budget.attempts \in Nat
  BY SettledBudget, MoreTimes, HostAssumption DEF HostBase, HostTypeOK
<1>3. (IF budget.cont = c THEN spent[c] <= L + budget.attempts ELSE spent[c] <= L)'
  BY <1>1 DEF Granted, BudgetStays
<1> HIDE DEF L
<1>4. (IF budget.cont = c
       THEN /\ 2 * K <= Changes
            /\ (wanted # r \/ aim[1] # r) => 2 * K + 1 <= Changes
            /\ (wanted = r /\ aim[1] # r) => 2 * K + 2 <= Changes
       ELSE /\ 2 * K <= Changes + 1
            /\ (wanted = r \/ aim[1] = r) => 2 * K <= Changes
            /\ (wanted # r /\ aim[1] = r) => 2 * K + 1 <= Changes)'
  BY <1>1 DEF Granted, BudgetStays, RouteMoves
<1>5. Granted(c, r, K)'
  BY <1>3, <1>4 DEF Granted, L
<1> QED BY <1>5 DEF Cost

\* An attempt of c, of the route that is followed, counts for c; if the budget was
\* that of another continuation it is granted anew, and that one's is given up.
LEMMA CostBegins ==
    ASSUME HostBase, CostsFit, PreflightBegins, NEW c \in Wakes, NEW r \in Routes, wake[r].id = c,
           Changes \in Nat
    PROVE  Cost(c, r)'
<1> DEFINE d == WakeOf(aim).id
<1>1. /\ d \in Wakes /\ Begins(d) /\ aim[1] \in Routes /\ wake[aim[1]].id = d
      /\ aim' = aim /\ wanted' = wanted /\ Changes' = Changes
  BY WakeOfAim DEF PreflightBegins, registry, world, Changes
<1>2. c = d <=> r = aim[1]
  BY <1>1, HostAssumption DEF HostBase, HostWakesFit, Wakes
<1> HIDE DEF d
<1>3. PICK k \in 0..1 : /\ spent'[d] = spent[d] + k
                        /\ budget'.attempts = BudgetFor(d).attempts + k
  BY <1>1, BeginMoves
<1>4. budget'.cont = d /\ \A e \in Wakes \ {d} : spent'[e] = spent[e]
  BY <1>1, BeginMoves
<1>5. BudgetFor(d).attempts = IF budget.cont = d THEN budget.attempts ELSE 0
  BY <1>1, BudgetOf
<1>6. PICK K \in Nat : Granted(c, r, K)
  BY DEF CostsFit, Cost
<1>7. /\ MaxLiveAttempts \in Nat /\ spent[c] \in Nat /\ spent[d] \in Nat
      /\ budget.attempts \in Nat /\ budget.attempts <= MaxLiveAttempts
      /\ MaxLiveAttempts * K \in Nat
      /\ MaxLiveAttempts * (K + 1) = MaxLiveAttempts * K + MaxLiveAttempts
  BY <1>1, SettledBudget, MoreTimes, HostAssumption DEF HostBase, HostTypeOK
<1> DEFINE L == MaxLiveAttempts * K
<1>8. CASE c = d
  <2>1. spent'[c] <= L + budget'.attempts
    <3>1. spent[d] <= L + BudgetFor(d).attempts
      BY <1>5, <1>6, <1>7, <1>8 DEF Granted
    <3>2. BudgetFor(d).attempts \in Nat /\ L \in Nat
      BY <1>5, <1>7
    <3> HIDE DEF L
    <3> QED BY <1>3, <1>7, <1>8, <3>1, <3>2
  <2>2. /\ 2 * K <= Changes
        /\ (wanted # r \/ aim[1] # r) => 2 * K + 1 <= Changes
        /\ (wanted = r /\ aim[1] # r) => 2 * K + 2 <= Changes
    BY <1>2, <1>6, <1>8 DEF Granted
  <2>3. Granted(c, r, K)'
    BY <1>1, <1>4, <1>8, <2>1, <2>2 DEF Granted
  <2> QED BY <2>3 DEF Cost
<1>9. CASE c # d /\ budget.cont = c
  <2>1. spent'[c] <= MaxLiveAttempts * (K + 1)
    <3>1. spent[c] <= L + budget.attempts /\ L \in Nat
      BY <1>6, <1>7, <1>9 DEF Granted
    <3>2. spent'[c] = spent[c]
      BY <1>4, <1>9
    <3>3. spent[c] <= L + MaxLiveAttempts
      <4> HIDE DEF L
      <4> QED BY <1>7, <3>1
    <3> QED BY <1>7, <3>2, <3>3
  <2>2. /\ 2 * (K + 1) <= Changes + 1
        /\ wanted = r => 2 * (K + 1) <= Changes
        /\ aim[1] # r
    BY <1>2, <1>6, <1>9 DEF Granted
  <2>3. Granted(c, r, K + 1)'
    BY <1>1, <1>4, <1>9, <2>1, <2>2 DEF Granted
  <2> QED BY <2>3 DEF Cost
<1>10. CASE c # d /\ budget.cont # c
  <2>1. spent'[c] = spent[c]
    BY <1>4, <1>10
  <2>2. Granted(c, r, K)'
    BY <1>1, <1>4, <1>6, <1>10, <2>1 DEF Granted
  <2> QED BY <2>2 DEF Cost
<1> QED BY <1>8, <1>9, <1>10

\* An authorization gives back what was spent.
LEMMA CostAuthorized ==
    ASSUME HostBase, CostsFit, PollPasses, Authorizes, NEW c \in Wakes, NEW r \in Routes,
           wake[r].id = c, Changes \in Nat
    PROVE  Cost(c, r)'
<1>0. spent \in [Wakes -> Nat] /\ HostTypeOK
  BY DEF HostBase, HostTypeOK
<1>1. CASE c = budget.cont
  <2>1. aim' = aim /\ wanted' = wanted /\ aim \in Chats /\ aim[1] \in Routes
    <3>1. WakeOf(aim).st # "idle" /\ aim \in Chats
      BY DEF Authorizes, WakeOf
    <3> QED BY <3>1, WakeOfAim DEF PollPasses, browser, registry
  <2>2. Changes' = Changes
    BY UncountedCharges, ChargedSpares DEF Uncounted, Loop, Preflight, Changes
  <2>3. spent'[c] = 0
    BY <1>0, <1>1 DEF Authorizes
  <2>4. CASE budget'.cont = c
    <3>1. PICK K \in Nat : Granted(c, r, K)
      BY DEF CostsFit, Cost
    <3>2. budget' = Settled
      BY <2>4, HostAssumption DEF Authorizes, Wakes
    <3>3. budget'.attempts = budget.attempts /\ budget.attempts \in Nat
      BY <1>0, <3>2, SettledTypes, SettledBudget
    <3>4. MaxLiveAttempts * K \in Nat
      BY MoreTimes, HostAssumption
    <3>5. spent'[c] <= MaxLiveAttempts * K + budget'.attempts
      BY <2>3, <3>3, <3>4
    <3>6. Granted(c, r, K)'
      BY <1>1, <2>1, <2>2, <2>4, <3>1, <3>5 DEF Granted
    <3> QED BY <3>6 DEF Cost
  <2>5. CASE budget'.cont # c
    <3>1. MaxLiveAttempts * 0 = 0
      BY HostAssumption
    <3>2. (wanted # r /\ aim[1] = r) => 1 <= Changes
      BY <2>1 DEF CostsFit, Follows
    <3>3. Granted(c, r, 0)'
      BY <2>1, <2>2, <2>3, <2>5, <3>1, <3>2 DEF Granted
    <3> QED BY <3>3 DEF Cost
  <2> QED BY <2>4, <2>5
<1>2. CASE c # budget.cont
  <2>1. budget'.cont # c
    BY <1>0, <1>2, SettledTypes, HostAssumption DEF Authorizes, Wakes
  <2>2. spent'[c] = spent[c]
    BY <1>0, <1>2 DEF Authorizes
  <2>3. PICK K \in Nat : Granted(c, r, K)
    BY DEF CostsFit, Cost
  <2>4. aim' = aim /\ wanted' = wanted
    BY DEF PollPasses, browser, registry
  <2>5. Changes' = Changes
    BY UncountedCharges, ChargedSpares DEF Uncounted, Loop, Preflight, Changes
  <2>6. Granted(c, r, K)'
    BY <1>2, <2>1, <2>2, <2>3, <2>4, <2>5 DEF Granted
  <2> QED BY <2>6 DEF Cost
<1> QED BY <1>1, <1>2

\* Every other step leaves the budget to its continuation.
LEMMA BudgetsStay ==
    ASSUME HostBase, [HostNext]_hostVars, ~PreflightBegins, ~(PollPasses /\ Authorizes),
           NEW c \in Wakes
    PROVE  BudgetStays(c)
<1> USE DEF browser, registry, world, files, BudgetStays
<1>0. HostTypeOK
  BY DEF HostBase
<1>1. CASE Boot \/ HostCrash \/ Parks \/ OwnerStarts \/ Loop \/ TurnFails
  <2>1. Settles
    BY <1>1, BudgetMoves
  <2> QED BY <1>0, <2>1, SettledBudget DEF Settles
<1>2. CASE CoolingEnds
  <2>1. budget \in BudgetTypes
    BY <1>0 DEF HostTypeOK, BudgetTypes
  <2> QED BY <1>2, <2>1 DEF CoolingEnds, BudgetTypes
<1>3. CASE QuietEnds \/ RetryPasses \/ Ages \/ OwnerAborts \/ TurnBegins \/ TurnEnds \/ Limits \/ Lifts
           \/ UNCHANGED hostVars \/ \E t \in Tabs : Strays(t)
  BY <1>3 DEF QuietEnds, RetryPasses, Ages, OwnerAborts, TurnBegins, TurnEnds, Limits, Lifts,
              hostVars, Strays
<1>4. CASE \E r \in Routes : Arms(r) \/ Lapses(r) \/ Delivers(r) \/ Acks(r)
                            \/ Switches(r) \/ Prepares(r) \/ Rebinds(r) \/ Unbinds(r)
  BY <1>4 DEF Arms, Lapses, Delivers, Acks, Switches, Prepares, Rebinds, Unbinds
<1> QED BY <1>1, <1>2, <1>3, <1>4, HostSteps DEF Around, Time

\* A route has the continuation it had, or none, or one that is new.
LEMMA WakesAreKept ==
    ASSUME HostBase, [HostNext]_hostVars, NEW r \in Routes, NEW c \in Wakes, wake'[r].id = c
    PROVE  \/ wake[r].id = c
           \/ Arms(r) /\ c = used["arm"] + 1
<1> USE DEF browser, registry, world, files
<1>0. wake \in [Routes -> [id : {0} \cup Wakes, st : {"idle", "preflight", "ready", "out"}]] /\ c # 0
  BY HostAssumption DEF HostBase, HostTypeOK, Wakes
<1>1. CASE Boot \/ HostCrash \/ Parks \/ OwnerStarts \/ Loop \/ TurnFails
  <2>1. CASE UNCHANGED wake
    BY <2>1
  <2>2. CASE Authorizes
    BY <1>0, <2>2 DEF Authorizes
  <2> QED BY <1>1, <2>1, <2>2, BudgetMoves DEF Settles
<1>2. CASE Time \/ Ages \/ OwnerAborts \/ TurnBegins \/ TurnEnds \/ Limits \/ Lifts
           \/ UNCHANGED hostVars \/ \E t \in Tabs : Strays(t)
  BY <1>2 DEF Time, QuietEnds, CoolingEnds, RetryPasses, Ages, OwnerAborts, TurnBegins, TurnEnds,
              Limits, Lifts, hostVars, Strays
<1>3. ASSUME NEW q \in Routes, Arms(q) PROVE wake[r].id = c \/ (Arms(r) /\ c = used["arm"] + 1)
  BY <1>0, <1>3 DEF Arms
<1>4. ASSUME NEW q \in Routes, \/ Lapses(q) \/ Delivers(q) \/ Acks(q)
                               \/ Switches(q) \/ Prepares(q) \/ Rebinds(q) \/ Unbinds(q)
      PROVE  wake[r].id = c
  BY <1>0, <1>4 DEF Lapses, Delivers, Acks, Switches, Prepares, Rebinds, Unbinds
<1> QED BY <1>1, <1>2, <1>3, <1>4, HostSteps DEF Around

\* The cost of a continuation that is pending stays accounted for.
LEMMA CostsKeep == HostBase /\ CostsFit /\ [HostNext]_hostVars => CostsFit'
<1> SUFFICES ASSUME HostBase, CostsFit, [HostNext]_hostVars PROVE CostsFit'
  OBVIOUS
<1>1. Follows'
  BY FollowsKeeps DEF CostsFit
<1>2. ASSUME NEW c \in Wakes, NEW r \in Routes, wake'[r].id = c PROVE Cost(c, r)'
  <2>0. Changes \in Nat /\ Changes' \in Nat
    BY ChangesCount
  <2>1. CASE wake[r].id = c
    <3>1. RouteMoves(r) /\ Cost(c, r)
      BY <2>1, RoutesMove, HostAssumption DEF Wakes, CostsFit
    <3>2. CASE PreflightBegins
      BY <2>0, <2>1, <3>2, CostBegins
    <3>3. CASE PollPasses /\ Authorizes
      BY <2>0, <2>1, <3>3, CostAuthorized
    <3>4. CASE ~PreflightBegins /\ ~(PollPasses /\ Authorizes)
      <4>1. BudgetStays(c)
        BY <3>4, BudgetsStay
      <4> QED BY <2>0, <3>1, <4>1, CostStays
    <3> QED BY <3>2, <3>3, <3>4
  <2>2. CASE Arms(r) /\ c = used["arm"] + 1
    <3>1. spent[c] = 0 /\ budget.cont # c
      BY <2>2, SettledBudget, BaseShape DEF HostBase, HostWakesFit, HostEvents
    <3>2. /\ UNCHANGED <<wanted, aim, budget, spent>>
          /\ Changes' = Changes
      <4>1. UNCHANGED <<wanted, aim, budget, spent>>
        BY <2>2 DEF Arms, registry, files
      <4>2. Passed("arm")
        BY <2>2, UsePasses DEF Arms, HostBase, HostEvents
      <4> QED BY <4>1, <4>2 DEF Passed, HostEvents, Changes
    <3>3. (wanted # r /\ aim[1] = r) => 1 <= Changes
      <4>1. aim[1] = r => aim \in Chats
        BY HostAssumption DEF HostBase, HostTypeOK, Blank
      <4> QED BY <4>1 DEF CostsFit, Follows
    <3>4. MaxLiveAttempts * 0 = 0
      BY HostAssumption
    <3>5. Granted(c, r, 0)'
      BY <2>0, <3>1, <3>2, <3>3, <3>4 DEF Granted
    <3> QED BY <3>5 DEF Cost
  <2> QED BY <1>2, <2>1, <2>2, WakesAreKept
<1> QED BY <1>1, <1>2 DEF CostsFit

\* An account of the cost is within the bound.
LEMMA CostAffords ==
    ASSUME HostBase, NEW c \in Wakes, NEW r \in Routes, Cost(c, r), Changes \in Nat
    PROVE  Afford(c)
<1>1. PICK K \in Nat : Granted(c, r, K)
  BY DEF Cost
<1>2. /\ MaxLiveAttempts \in Nat /\ spent[c] \in Nat
      /\ budget.attempts \in Nat /\ budget.attempts <= MaxLiveAttempts
      /\ MaxLiveAttempts * K \in Nat
      /\ MaxLiveAttempts * (K + 1) = MaxLiveAttempts * K + MaxLiveAttempts
  BY SettledBudget, MoreTimes, HostAssumption DEF HostBase, HostTypeOK
<1> DEFINE L == MaxLiveAttempts * K
<1>3. spent[c] <= L + MaxLiveAttempts
  <2>1. (spent[c] <= L + budget.attempts \/ spent[c] <= L) /\ L \in Nat
    BY <1>1, <1>2 DEF Granted
  <2> HIDE DEF L
  <2> QED BY <1>2, <2>1
<1>4. 2 * (K + 1) <= Changes + 2 \/ (spent[c] <= L /\ 2 * K <= Changes + 2)
  BY <1>1 DEF Granted
<1>5. CASE 2 * (K + 1) <= Changes + 2
  <2>1. spent[c] <= MaxLiveAttempts * (K + 1) /\ K + 1 \in Nat
    BY <1>2, <1>3
  <2> QED BY <1>5, <2>1 DEF Afford
<1>6. CASE spent[c] <= L /\ 2 * K <= Changes + 2
  BY <1>6 DEF Afford
<1> QED BY <1>4, <1>5, <1>6

\* The cost of one that is no longer pending stays within the bound.
LEMMA DeadKeeps == HostBase /\ CostsFit /\ DeadFit /\ [HostNext]_hostVars => DeadFit'
<1> SUFFICES ASSUME HostBase, CostsFit, DeadFit, [HostNext]_hostVars,
                    NEW c \in Wakes, \A r \in Routes : wake'[r].id # c
             PROVE  Afford(c)'
  BY DEF DeadFit
<1>0. Changes \in Nat /\ Changes' \in Nat /\ Changes <= Changes'
  BY ChangesCount
<1>1. Afford(c)
  BY <1>0, CostAffords DEF CostsFit, DeadFit
<1>2. spent'[c] = spent[c] \/ spent'[c] = 0
  <2>1. CASE PreflightBegins
    <3>1. c # WakeOf(aim).id /\ WakeOf(aim).id \in Wakes /\ Begins(WakeOf(aim).id)
      BY <2>1, WakeOfAim DEF PreflightBegins, world
    <3> QED BY <3>1, BeginMoves
  <2>2. CASE PollPasses /\ Authorizes
    BY <2>2 DEF Authorizes, HostBase, HostTypeOK
  <2>3. CASE ~PreflightBegins /\ ~(PollPasses /\ Authorizes)
    BY <2>3, BudgetsStay DEF BudgetStays
  <2> QED BY <2>1, <2>2, <2>3
<1>3. PICK K \in Nat : spent[c] <= MaxLiveAttempts * K /\ 2 * K <= Changes + 2
  BY <1>1 DEF Afford
<1>4. MaxLiveAttempts * K \in Nat
  BY MoreTimes, HostAssumption
<1>5. spent'[c] <= MaxLiveAttempts * K
  <2> DEFINE L == MaxLiveAttempts * K
  <2>1. L \in Nat /\ spent[c] <= L
    BY <1>3, <1>4
  <2> HIDE DEF L
  <2>2. spent'[c] <= L
    BY <1>2, <2>1
  <2> QED BY <2>2 DEF L
<1>6. 2 * K <= Changes' + 2
  <2>1. 2 * K <= Changes + 2
    BY <1>3
  <2>2. \A a, b \in Nat : a <= b /\ 2 * K <= a + 2 => 2 * K <= b + 2
    OBVIOUS
  <2> QED BY <1>0, <2>1, <2>2
<1> QED BY <1>5, <1>6 DEF Afford

LEMMA CostsBound == HostBase /\ CostsFit /\ DeadFit => PreflightBudget
<1> SUFFICES ASSUME HostBase, CostsFit, DeadFit, NEW c \in Wakes
             PROVE  spent[c] <= MaxLiveAttempts * (1 + Changes \div 2)
  BY DEF PreflightBudget, Changes
<1>0. Changes \in Nat
  BY BaseShape DEF Changes, HostEvents
<1>1. Afford(c)
  BY <1>0, CostAffords DEF CostsFit, DeadFit
<1>2. PICK K \in Nat : spent[c] <= MaxLiveAttempts * K /\ 2 * K <= Changes + 2
  BY <1>1 DEF Afford
<1>3. 1 + Changes \div 2 \in Nat /\ K <= 1 + Changes \div 2
  BY <1>0, <1>2
<1>4. MaxLiveAttempts * K <= MaxLiveAttempts * (1 + Changes \div 2)
  BY <1>3, MoreTimes, HostAssumption
<1>5. MaxLiveAttempts * (1 + Changes \div 2) \in Nat /\ MaxLiveAttempts * K \in Nat /\ spent[c] \in Nat
  BY <1>3, MoreTimes, HostAssumption DEF HostBase, HostTypeOK
<1> QED BY <1>2, <1>4, <1>5

LEMMA CostsStart == HostInit => CostsFit /\ DeadFit
<1> SUFFICES ASSUME HostInit PROVE CostsFit /\ DeadFit
  OBVIOUS
<1>0. used["switch"] = 0 /\ used["rebind"] = 0 /\ aim = Blank /\ \A c \in Wakes : spent[c] = 0
  BY DEF HostInit, HostEvents
<1>1. Follows
  BY <1>0, ChatShape DEF Follows
<1>2. \A c \in Wakes, r \in Routes : wake[r].id # c
  BY HostAssumption DEF HostInit, Wakes
<1>3. \A c \in Wakes : Afford(c)
  <2>1. MaxLiveAttempts * 0 = 0 /\ 0 \in Nat
    BY HostAssumption
  <2>2. Changes = 0
    BY <1>0 DEF Changes
  <2> QED BY <1>0, <2>1, <2>2 DEF Afford
<1> QED BY <1>1, <1>2, <1>3 DEF CostsFit, DeadFit

-----------------------------------------------------------------------------
(* The tabs.                                                                 *)

\* Tabs with none of the pages of ChatGPT: enforce_target leaves them alone, unless
\* it has no page and one of them is spare.
Strange == {t \in Tabs : tabs[t] \in {Blank, Away}}
Aways == {t \in Tabs : tabs[t] = Away}

\* The pending rollover is still to get its tab: not when the candidate is being
\* recorded, nor when the registry has refused it for another generation.
TabToCome ==
    /\ roll # None /\ ~roll.candidate /\ ~(pc = "record" /\ Mine)
    /\ Current(roll) \/ (pc = "roll" /\ Pending /\ roll.src = aim[2])

\* The rollovers for which a tab may have been opened.
Created == used["roll"] - (IF TabToCome THEN 1 ELSE 0)

StrangeFit ==
    /\ IsFiniteSet(Open)
    /\ Cardinality(Aways) <= used["mishap"]
    /\ Cardinality(Strange) <= used["mishap"] + (IF Pages = {} THEN 1 ELSE 0)

\* The open tabs that the loop does not work with: strange ones, and pages that
\* could not be closed.
Leftover == Open \ ({page} \cup (IF pc = "check" THEN {fresh} ELSE {}))

WorkFit ==
    pc \in AtWork => /\ Cardinality(Strange) <= used["mishap"]
                     /\ Cardinality(Leftover) <= used["mishap"]

RoundFit == pc \notin AtWork => Cardinality(Open) <= 1 + used["mishap"] + Created

TabsFit == StrangeFit /\ WorkFit /\ RoundFit

\* Cardinalities, as the steps below need them.
LEMMA PartCounts ==
    ASSUME NEW S, NEW T, IsFiniteSet(S), T \subseteq S
    PROVE  /\ IsFiniteSet(T) /\ Cardinality(T) \in Nat /\ Cardinality(S) \in Nat
           /\ Cardinality(T) <= Cardinality(S)
BY FS_Subset, FS_CardinalityType

LEMMA OneMoreCounts ==
    ASSUME NEW S, NEW T, NEW x, IsFiniteSet(S), T \subseteq S \cup {x}
    PROVE  /\ IsFiniteSet(T) /\ Cardinality(T) \in Nat /\ Cardinality(S) \in Nat
           /\ Cardinality(T) <= Cardinality(S) + 1
<1>1. /\ IsFiniteSet(S \cup {x})
      /\ Cardinality(S \cup {x}) = Cardinality(S) \/ Cardinality(S \cup {x}) = Cardinality(S) + 1
  BY FS_AddElement
<1> QED BY <1>1, PartCounts, FS_CardinalityType

LEMMA OneLessCounts ==
    ASSUME NEW S, NEW T, NEW x \in S, IsFiniteSet(S), T \subseteq S \ {x}
    PROVE  /\ IsFiniteSet(T) /\ Cardinality(T) \in Nat /\ Cardinality(S) \in Nat
           /\ Cardinality(T) + 1 <= Cardinality(S)
<1>1. IsFiniteSet(S \ {x}) /\ Cardinality(S \ {x}) = Cardinality(S) - 1
  BY FS_RemoveElement
<1> QED BY <1>1, PartCounts, FS_CardinalityType

\* An open tab is a page or a strange one.
LEMMA OpenParts ==
    ASSUME HostBase
    PROVE  /\ Open = Pages \cup Strange /\ Aways \subseteq Strange
           /\ Pages \subseteq Tabs /\ Pages \subseteq Open /\ Strange \subseteq Open
           /\ Pages \cap Strange = {}
BY BaseShape, ChatShape DEF Open, Pages, Strange, Aways, TabStates

LEMMA OpenPartsNext ==
    ASSUME HostBase'
    PROVE  Open' = Pages' \cup Strange'
<1>1. tabs' \in [Tabs -> TabStates]
  BY DEF HostBase, HostTypeOK, TabStates
<1> QED BY <1>1, ChatShape DEF Open, Pages, Strange, TabStates

\* Most steps open no tab: they close some, leave them, or take a page elsewhere,
\* which is a mishap.
Settling ==
    /\ Pages' \subseteq Pages /\ Open' \subseteq Open
    /\ \/ /\ Strange' \subseteq Strange /\ Aways' \subseteq Aways
          /\ used["mishap"] <= used'["mishap"]
       \/ /\ used'["mishap"] = used["mishap"] + 1
          /\ \E t \in Pages : Strange' \subseteq Strange \cup {t} /\ Aways' \subseteq Aways \cup {t}

\* Then no more tabs are open, and no more of them strange than there were mishaps.
LEMMA SettlingFits ==
    ASSUME HostBase, HostTypeOK', StrangeFit, Settling
    PROVE  /\ StrangeFit'
           /\ Cardinality(Open)' \in Nat /\ Cardinality(Open) \in Nat
           /\ Cardinality(Open)' <= Cardinality(Open)
           /\ Cardinality(Strange)' \in Nat
           /\ Cardinality(Strange) <= used["mishap"] => Cardinality(Strange)' <= used'["mishap"]
<1>0. used["mishap"] \in Nat /\ used'["mishap"] \in Nat
  BY DEF HostBase, HostTypeOK, HostEvents
<1>1. IsFiniteSet(Open) /\ IsFiniteSet(Strange) /\ IsFiniteSet(Aways)
  BY OpenParts, PartCounts DEF StrangeFit
<1>2. /\ IsFiniteSet(Open') /\ Cardinality(Open') \in Nat /\ Cardinality(Open) \in Nat
      /\ Cardinality(Open') <= Cardinality(Open)
  BY <1>1, PartCounts DEF Settling
<1>3. CASE Strange' \subseteq Strange /\ Aways' \subseteq Aways /\ used["mishap"] <= used'["mishap"]
  <2>1. /\ Cardinality(Strange') \in Nat /\ Cardinality(Strange) \in Nat
        /\ Cardinality(Strange') <= Cardinality(Strange)
        /\ Cardinality(Aways') \in Nat /\ Cardinality(Aways) \in Nat
        /\ Cardinality(Aways') <= Cardinality(Aways)
    BY <1>1, <1>3, PartCounts
  <2>2. Pages # {} \/ Pages' = {}
    BY DEF Settling
  <2> QED BY <1>0, <1>2, <1>3, <2>1, <2>2 DEF StrangeFit
<1>4. ASSUME used'["mishap"] = used["mishap"] + 1, NEW t \in Pages,
             Strange' \subseteq Strange \cup {t}, Aways' \subseteq Aways \cup {t}
      PROVE  /\ Cardinality(Strange') \in Nat
             /\ Cardinality(Aways') <= used'["mishap"]
             /\ Cardinality(Strange') <= used'["mishap"]
  <2>1. /\ Cardinality(Strange') \in Nat /\ Cardinality(Strange) \in Nat
        /\ Cardinality(Strange') <= Cardinality(Strange) + 1
        /\ Cardinality(Aways') \in Nat /\ Cardinality(Aways) \in Nat
        /\ Cardinality(Aways') <= Cardinality(Aways) + 1
    BY <1>1, <1>4, OneMoreCounts
  <2>2. Pages # {}
    BY <1>4
  <2> QED BY <1>0, <1>4, <2>1, <2>2 DEF StrangeFit
<1> QED BY <1>0, <1>2, <1>3, <1>4 DEF Settling, StrangeFit

\* Closing tabs, or leaving them alone.
LEMMA ClosingSettles ==
    ASSUME HostBase, \A t \in Tabs : tabs'[t] = tabs[t] \/ tabs'[t] = Shut,
           used["mishap"] <= used'["mishap"]
    PROVE  Settling
BY ChatShape DEF Settling, Pages, Open, Strange, Aways

\* A page that is navigated to a chat.
LEMMA LandsOnPage ==
    ASSUME HostBase, NEW t \in Pages, NEW c \in Chats, NEW others, t \notin others, Lands(t, c, others)
    PROVE  Settling
<1>0. t \in Tabs /\ c \in TabStates /\ c # Blank /\ HostTypeOK /\ used["mishap"] \in Nat
  BY ChatShape DEF Pages, TabStates, HostBase, HostTypeOK, HostEvents
<1>1. ASSUME NEW ts, t \notin ts, tabs'[t] = c, SparesOf(t, ts), used["mishap"] <= used'["mishap"]
      PROVE  Settling
  BY <1>0, <1>1, ChatShape DEF SparesOf, Settling, Pages, Open, Strange, Aways
<1>2. CASE tabs'[t] \in {HomePage, Away} /\ SparesOf(t, {}) /\ Passed("mishap")
  <2>1. used'["mishap"] = used["mishap"] + 1
    BY <1>2 DEF Passed
  <2>2. \A u \in Tabs \ {t} : tabs'[u] = tabs[u]
    BY <1>2 DEF SparesOf
  <2>3. Pages' \subseteq Pages /\ Open' \subseteq Open
    BY <1>0, <1>2, <2>2, ChatShape DEF Pages, Open
  <2>4. Strange' \subseteq Strange \cup {t} /\ Aways' \subseteq Aways \cup {t}
    BY <1>0, <2>2 DEF Strange, Aways
  <2> QED BY <2>1, <2>3, <2>4 DEF Settling
<1>3. CASE tabs'[t] = c /\ SparesOf(t, others) /\ used' = used
  BY <1>0, <1>1, <1>3
<1>4. ASSUME NEW s \in others, tabs'[t] = c, SparesOf(t, others \ {s}), Passed("mishap")
      PROVE  Settling
  <2>1. used["mishap"] <= used'["mishap"] /\ t \notin others \ {s}
    BY <1>0, <1>4 DEF Passed
  <2> QED BY <1>1, <1>4, <2>1
<1> QED BY <1>0, <1>2, <1>3, <1>4, LandsSomewhere

LEMMA MishapsGrow ==
    ASSUME HostBase, [HostNext]_hostVars
    PROVE  /\ used["mishap"] \in Nat /\ used'["mishap"] \in Nat /\ used["mishap"] <= used'["mishap"]
<1>0. HostTypeOK /\ used["mishap"] \in Nat /\ used'["mishap"] \in Nat /\ "mishap" \in HostEvents
  BY HostTypesKeep DEF HostBase, HostTypeOK, HostEvents
<1>1. CASE Uncounted
  BY <1>0, <1>1, UncountedCharges DEF Charged, Passed
<1>2. CASE HostCrash \/ TurnBegins \/ Limits
           \/ \E r \in Routes : Arms(r) \/ Switches(r) \/ Prepares(r) \/ Rebinds(r) \/ Unbinds(r)
  <2>1. PICK e \in HostEvents : Use(e)
    BY <1>2 DEF HostCrash, TurnBegins, Limits, Arms, Switches, Prepares, Rebinds, Unbinds, HostEvents
  <2>2. Passed(e)
    BY <1>0, <2>1, UsePasses
  <2> QED BY <1>0, <2>2 DEF Passed
<1>3. CASE UNCHANGED hostVars
  BY <1>0, <1>3 DEF hostVars, world
<1> QED BY <1>0, <1>1, <1>2, <1>3, HostSteps DEF Uncounted, Around

\* All but four steps are such.
LEMMA SettlingSteps ==
    ASSUME HostBase, [HostNext]_hostVars, ~Boot, ~RollCreates, ~SeekLoads, ~FreshOpens
    PROVE  Settling
<1> USE DEF browser, registry, world, files, Turn, Goto
<1>0. tabs \in [Tabs -> TabStates] /\ used["mishap"] <= used'["mishap"]
  BY BaseShape, MishapsGrow
<1>1. CASE UNCHANGED tabs
  BY <1>0, <1>1, ClosingSettles
<1>2. CASE HostCrash \/ Parks
  <2>1. \A t \in Tabs : tabs'[t] = Shut
    BY <1>2 DEF HostCrash, Parks, Down
  <2> QED BY <1>0, <2>1, ClosingSettles
<1>3. CASE Top
  <2>1. ASSUME Refreshed # Blank, NEW t \in Pages, Lands(t, Refreshed, {}) PROVE Settling
    <3>1. Refreshed \in Chats
      BY <2>1, BaseShape DEF Refreshed
    <3> QED BY <2>1, <3>1, LandsOnPage
  <2> QED BY <1>1, <1>3, <2>1 DEF Top
<1>4. CASE RollReopens
  <2>1. Successor \in Chats
    BY <1>4, BaseShape DEF RollReopens, Pending
  <2>2. ASSUME NEW t \in Pages, Lands(t, Successor, {}) PROVE Settling
    BY <2>1, <2>2, LandsOnPage
  <2> QED BY <1>1, <1>4, <2>2 DEF RollReopens
<1>5. CASE RollAborts
  <2> DEFINE c == Chat(roll.route, roll.src)
  <2>1. c \in Chats
    BY <1>5, BaseShape DEF RollAborts, Pending, Mine
  <2>2. ASSUME NEW t \in Showing(c) \cup Pages, Lands(t, c, Others(t)) PROVE Settling
    <3>1. t \in Pages /\ t \notin Others(t)
      BY <2>1, <2>2 DEF Showing, Pages, Others
    <3> QED BY <2>1, <2>2, <3>1, LandsOnPage
  <2>3. Restores(c)
    BY <1>5 DEF RollAborts
  <2> HIDE DEF c
  <2> QED BY <1>1, <2>2, <2>3 DEF Restores
<1>6. CASE SeekFinds
  <2>1. PICK t \in Showing(aim) : Close(Others(t))
    BY <1>6 DEF SeekFinds
  <2> QED BY <1>0, <2>1, CloseShuts, ClosingSettles DEF HostBase
<1>7. CASE CheckPasses \/ CheckFails
  <2>1. Close({page} \ {fresh}) \/ Close({fresh})
    BY <1>7 DEF CheckPasses, CheckFails
  <2> QED BY <1>0, <2>1, CloseShuts, ClosingSettles DEF HostBase
<1>8. CASE ListenFails \/ Finishes
  <2>1. aim \in Chats
    BY <1>8, BaseShape DEF ListenFails, Finishes
  <2>2. ASSUME NEW t \in Showing(aim) \cup Pages, Lands(t, aim, {}) PROVE Settling
    <3>1. t \in Pages
      BY <2>1, <2>2 DEF Showing, Pages
    <3> QED BY <2>1, <2>2, <3>1, LandsOnPage
  <2>3. UNCHANGED tabs \/ Reloads
    BY <1>8 DEF ListenFails, Finishes
  <2> QED BY <1>1, <2>2, <2>3 DEF Reloads
<1>9. ASSUME NEW t \in Tabs, Strays(t) PROVE Settling
  <2>1. t \in Pages /\ tabs'[t] \in {HomePage, Away} /\ \A u \in Tabs \ {t} : tabs'[u] = tabs[u]
    BY <1>0, <1>9 DEF Strays
  <2>2. used'["mishap"] = used["mishap"] + 1
    <3>1. Passed("mishap")
      BY <1>9, UsePasses DEF Strays, HostBase, HostEvents
    <3> QED BY <3>1 DEF Passed
  <2>3. Pages' \subseteq Pages /\ Open' \subseteq Open
    BY <2>1, ChatShape DEF Pages, Open
  <2>4. Strange' \subseteq Strange \cup {t} /\ Aways' \subseteq Aways \cup {t}
    BY <2>1 DEF Strange, Aways
  <2> QED BY <2>1, <2>2, <2>3, <2>4 DEF Settling
<1>10. CASE NoRollover \/ RollWaits \/ Records \/ Commits \/ VetWaits \/ LimitDetected \/ GateOpens
            \/ Bootstraps \/ Idles \/ PreflightBegins \/ WakeIsReady \/ PollPasses \/ PollFails
            \/ ListenPasses \/ TurnFails \/ OwnerStarts \/ Around \/ UNCHANGED hostVars
  <2>1. UNCHANGED tabs
    BY <1>10, AroundStays
       DEF NoRollover, RollWaits, Records, Commits, VetWaits, LimitDetected, GateOpens,
           Bootstraps, Idles, PreflightBegins, WakeIsReady, PollPasses, PollFails,
           ListenPasses, TurnFails, OwnerStarts, hostVars
  <2> QED BY <1>1, <2>1
<1> QED BY <1>2, <1>3, <1>4, <1>5, <1>6, <1>7, <1>8, <1>9, <1>10, HostSteps
        DEF Loop, Rolling, Preflight

\* The rollovers for which a tab may have been opened, with the mishaps, grow.
LEMMA CreatedIsNat == HostBase => Created \in Nat
BY HostAssumption DEF HostBase, HostTypeOK, RollFits, Created, TabToCome, HostEvents

\* A rollover that has had its tab, or was refused it, is not to get one again.
LEMMA TabStillToCome ==
    ASSUME HostBase, [HostNext]_hostVars,
           \/ roll' = None
           \/ /\ roll # None /\ roll' # None /\ roll'.token = roll.token /\ roll'.src = roll.src
              /\ roll'.route = roll.route /\ (roll.candidate => roll'.candidate)
              /\ (pc = "record" /\ Mine) => (pc' = "record" /\ held' = held),
           pc' = "roll" => \/ pc = "roll" /\ aim' = aim
                           \/ aim' = Target /\ aim' \in Chats /\ gen' = gen
    PROVE  TabToCome' => TabToCome
<1> SUFFICES ASSUME TabToCome' PROVE TabToCome
  OBVIOUS
<1>1. /\ roll # None /\ roll' # None /\ roll'.token = roll.token /\ roll'.src = roll.src
      /\ roll'.route = roll.route /\ ~roll.candidate /\ ~(pc = "record" /\ Mine)
  BY DEF TabToCome, Mine
<1>2. roll.route \in Routes /\ roll.src \in Nat /\ roll.src <= gen[roll.route]
  BY <1>1 DEF HostBase, HostTypeOK, Rollovers, RollFits
<1>3. CASE Current(roll)'
  <2>1. roll.src = gen'[roll.route]
    BY <1>1, <1>3 DEF Current
  <2> QED BY <1>1, <1>2, <2>1, GensGrow DEF TabToCome, Current
<1>4. CASE pc' = "roll" /\ Pending' /\ roll'.src = aim'[2]
  <2>1. CASE pc = "roll" /\ aim' = aim
    BY <1>1, <1>4, <2>1 DEF TabToCome, Pending
  <2>2. CASE aim' = Target /\ aim' \in Chats /\ gen' = gen
    <3>1. aim' = Chat(wanted, gen[wanted]) /\ wanted \in Routes
      BY <2>2, ChatShape DEF Target, HostBase, HostTypeOK
    <3>2. aim'[1] = wanted /\ aim'[2] = gen[wanted]
      BY <3>1, ChatShape DEF HostBase, HostTypeOK
    <3>3. Current(roll)
      BY <1>1, <1>4, <3>2 DEF Pending, Current
    <3> QED BY <1>1, <3>3 DEF TabToCome
  <2> QED BY <1>4, <2>1, <2>2
<1> QED BY <1>3, <1>4 DEF TabToCome

\* A rollover that is given up, lost or committed leaves room for its tab.
LEMMA CreatedGrows ==
    ASSUME HostBase, [HostNext]_hostVars, ~HostCrash
    PROVE  used["mishap"] + Created <= used'["mishap"] + Created'
<1> USE DEF browser, registry, world, files, Turn, Goto
<1>0. /\ used["mishap"] \in Nat /\ used'["mishap"] \in Nat /\ used["mishap"] <= used'["mishap"]
      /\ used["roll"] \in Nat /\ used'["roll"] \in Nat /\ HostTypeOK
      /\ used \in [HostEvents -> Nat] /\ {"roll", "mishap"} \subseteq HostEvents
  BY MishapsGrow, HostTypesKeep DEF HostBase, HostTypeOK, HostEvents
<1>1. ASSUME used'["roll"] = used["roll"], TabToCome' => TabToCome
      PROVE  used["mishap"] + Created <= used'["mishap"] + Created'
  BY <1>0, <1>1 DEF Created
<1>2. CASE Boot \/ Parks \/ OwnerStarts \/ TurnFails
  <2>1. used'["roll"] = used["roll"]
    BY <1>2, UncountedCharges, ChargedSpares DEF Uncounted
  <2>2. roll' = roll /\ pc # "record" /\ pc' # "roll"
    BY <1>2 DEF Boot, Parks, OwnerStarts, TurnFails
  <2>3. TabToCome' => TabToCome
    BY <2>2, TabStillToCome
  <2> QED BY <1>1, <2>1, <2>3
<1>3. CASE Loop
  <2>1. used'["roll"] = used["roll"]
    BY <1>3, UncountedCharges, ChargedSpares DEF Uncounted
  <2>2. CASE Records
    <3>1. CASE Mine /\ roll' = [roll EXCEPT !.candidate = TRUE]
      <4>1. roll \in Rollovers /\ roll'.candidate
        BY <1>0, <3>1 DEF Mine, HostTypeOK, Rollovers
      <4> QED BY <1>0, <2>1, <4>1 DEF Created, TabToCome
    <3>2. CASE Use("mishap")
      <4>1. used'["mishap"] = used["mishap"] + 1
        BY <1>0, <3>2, UsePasses DEF Passed
      <4> QED BY <1>0, <2>1, <4>1 DEF Created
    <3>3. CASE ~Mine /\ UNCHANGED roll
      <4>1. pc' # "roll"
        BY <2>2 DEF Records
      <4>2. TabToCome' => TabToCome
        BY <3>3, <4>1, TabStillToCome
      <4> QED BY <1>1, <2>1, <4>2
    <3>4. CASE Mine /\ ~Current(roll) /\ UNCHANGED roll
      <4>1. pc' # "roll" /\ gen' = gen
        BY <2>2 DEF Records
      <4>2. ~TabToCome'
        BY <3>4, <4>1 DEF TabToCome, Current
      <4> QED BY <1>0, <2>1, <4>2 DEF Created
    <3> QED BY <2>2, <3>1, <3>2, <3>3, <3>4 DEF Records
  <2>3. CASE NoRollover \/ RollCreates \/ RollReopens \/ RollWaits \/ Commits \/ VetWaits
             \/ RollAborts
    <3>1. (roll' = roll /\ pc # "record") \/ roll' = None
      BY <2>3 DEF NoRollover, RollCreates, RollReopens, RollWaits, Commits, VetWaits, RollAborts
    <3>2. pc' # "roll"
      BY <2>3 DEF NoRollover, RollCreates, RollReopens, RollWaits, Commits, VetWaits, RollAborts
    <3>3. TabToCome' => TabToCome
      BY <3>1, <3>2, TabStillToCome
    <3> QED BY <1>1, <2>1, <3>3
  <2>4. CASE Top
    <3>1. roll' = roll /\ pc # "record" /\ gen' = gen
          /\ (pc' = "roll" => aim' = Target /\ aim' # Blank)
      BY <2>4 DEF Top, Refreshed
    <3>2. TabToCome' => TabToCome
      BY <3>1, BaseShape, TabStillToCome
    <3> QED BY <1>1, <2>1, <3>2
  <2>5. CASE SeekFinds \/ SeekLoads \/ LimitDetected \/ Bootstraps \/ Idles \/ GateOpens
             \/ WakeIsReady \/ Preflight \/ ListenFails \/ ListenPasses \/ Finishes
    <3>1. roll' = roll /\ pc # "record"
      <4>1. CASE SeekFinds \/ SeekLoads \/ LimitDetected \/ Bootstraps \/ Idles \/ GateOpens
                 \/ WakeIsReady
        BY <4>1 DEF SeekFinds, SeekLoads, LimitDetected, Bootstraps, Idles, GateOpens, WakeIsReady
      <4>2. CASE Preflight \/ ListenFails \/ ListenPasses \/ Finishes
        BY <4>2 DEF Preflight, PreflightBegins, FreshOpens, CheckPasses, CheckFails, PollPasses,
                    PollFails, ListenFails, ListenPasses, Finishes
      <4> QED BY <2>5, <4>1, <4>2
    <3>2. pc' # "roll"
      <4>1. CASE SeekFinds \/ SeekLoads \/ LimitDetected \/ Bootstraps \/ Idles \/ GateOpens
                 \/ WakeIsReady
        BY <4>1 DEF SeekFinds, SeekLoads, Works, LimitDetected, Bootstraps, Idles, GateOpens,
                    WakeIsReady
      <4>2. CASE Preflight \/ ListenFails \/ ListenPasses \/ Finishes
        BY <4>2 DEF Preflight, PreflightBegins, Begins, FreshOpens, CheckPasses, CheckFails,
                    PollPasses, PollFails, Fails, ListenFails, ListenPasses, Finishes
      <4> QED BY <2>5, <4>1, <4>2
    <3>3. TabToCome' => TabToCome
      BY <3>1, <3>2, TabStillToCome
    <3> QED BY <1>1, <2>1, <3>3
  <2> QED BY <1>3, <2>2, <2>3, <2>4, <2>5 DEF Loop, Rolling
<1>4. CASE Around \/ \E t \in Tabs : Strays(t)
  <2>1. UNCHANGED <<pc, aim, held>>
    BY <1>4, AroundStays DEF Strays
  <2>2. CASE Ages
    <3>1. roll \in Rollovers /\ roll' = [roll EXCEPT !.old = TRUE]
      BY <1>0, <2>2 DEF Ages, HostTypeOK
    <3>2. /\ roll'.token = roll.token /\ roll'.candidate = roll.candidate
          /\ roll'.src = roll.src /\ roll'.route = roll.route /\ roll # None
      BY <2>2, <3>1 DEF Rollovers, Ages
    <3>3. used' = used
      BY <2>2 DEF Ages
    <3>4. TabToCome' => TabToCome
      BY <2>1, <3>2, TabStillToCome
    <3> QED BY <1>1, <3>3, <3>4
  <2>3. CASE \E r \in Routes : Prepares(r)
    <3>1. roll = None
      BY <2>3 DEF Prepares
    <3>2. used'["roll"] = used["roll"] + 1
      BY <1>0, <2>3, UsePasses DEF Prepares, Passed
    <3> QED BY <1>0, <3>1, <3>2 DEF Created, TabToCome
  <2>4. CASE \/ Time \/ OwnerAborts \/ TurnBegins \/ TurnEnds \/ Limits \/ Lifts
             \/ \E r \in Routes : Arms(r) \/ Lapses(r) \/ Delivers(r) \/ Acks(r)
                                  \/ Switches(r) \/ Rebinds(r) \/ Unbinds(r)
             \/ \E t \in Tabs : Strays(t)
    <3>1. roll' = roll \/ roll' = None
      BY <2>4 DEF Time, QuietEnds, CoolingEnds, RetryPasses, OwnerAborts, TurnBegins, TurnEnds, Limits,
                  Lifts, Arms, Lapses, Delivers, Acks, Switches, Rebinds, Unbinds, Strays
    <3>2. used'["roll"] = used["roll"]
      <4>1. CASE Uncounted
        BY <4>1, UncountedCharges, ChargedSpares
      <4>2. CASE TurnBegins \/ Limits \/ \E r \in Routes : Arms(r) \/ Switches(r) \/ Rebinds(r) \/ Unbinds(r)
        <5>1. PICK e \in HostEvents \ {"roll"} : Use(e)
          BY <4>2 DEF TurnBegins, Limits, Arms, Switches, Rebinds, Unbinds, HostEvents
        <5> QED BY <1>0, <5>1, UsePasses DEF Passed
      <4> QED BY <2>4, <4>1, <4>2 DEF Uncounted
    <3>3. TabToCome' => TabToCome
      BY <2>1, <3>1, TabStillToCome
    <3> QED BY <1>1, <3>2, <3>3
  <2> QED BY <1>4, <2>2, <2>3, <2>4 DEF Around
<1>5. CASE UNCHANGED hostVars
  BY <1>0, <1>1, <1>5 DEF hostVars, TabToCome, Mine, Current, Pending
<1> QED BY <1>2, <1>3, <1>4, <1>5, HostSteps

\* The loop comes to its work by seeking the page, and keeps it until it is checked.
LEMMA WorkGoesOn ==
    ASSUME HostBase, [HostNext]_hostVars, pc' \in AtWork,
           ~SeekFinds, ~SeekLoads, ~FreshOpens, ~CheckPasses
    PROVE  pc \in AtWork /\ page' = page /\ fresh' = fresh /\ (pc = "check" <=> pc' = "check")
<1> USE DEF browser, registry, world, files, Turn, Goto, AtWork
<1>1. CASE \/ Boot \/ HostCrash \/ Parks \/ OwnerStarts \/ TurnFails \/ Top \/ Rolling
           \/ LimitDetected \/ Bootstraps \/ Idles \/ CheckFails \/ PollFails \/ PollPasses
           \/ ListenFails \/ Finishes
  BY <1>1 DEF Boot, HostCrash, Parks, OwnerStarts, TurnFails, Top, Rolling, NoRollover, RollCreates,
              RollReopens, RollWaits, Records, Commits, VetWaits, RollAborts, LimitDetected,
              Bootstraps, Idles, CheckFails, PollFails, PollPasses, Fails, ListenFails, Finishes
<1>2. CASE GateOpens \/ PreflightBegins \/ WakeIsReady \/ ListenPasses
  BY <1>2 DEF GateOpens, PreflightBegins, Begins, WakeIsReady, ListenPasses
<1>3. CASE Around
  BY <1>3, AroundStays
<1>4. CASE UNCHANGED hostVars \/ \E t \in Tabs : Strays(t)
  BY <1>4 DEF hostVars, Strays
<1> QED BY <1>1, <1>2, <1>3, <1>4, HostSteps DEF Loop, Preflight

\* Tabs that go on being open, but for the page and one that is closed in time, are
\* left over.
LEMMA LeftoverCounts ==
    ASSUME HostBase, HostBase', [HostNext]_hostVars, StrangeFit, Open' \subseteq Open,
           NEW L, L \subseteq Open, Cardinality(L) <= used["mishap"],
           NEW p, NEW T, T \subseteq Open',
           \/ T \subseteq L \cup {p}
           \/ /\ used'["mishap"] = used["mishap"] + 1
              /\ \E s : T \subseteq L \cup {p, s}
    PROVE  Cardinality(T) \in Nat /\ Cardinality(T) <= 1 + used'["mishap"]
<1>0. used["mishap"] \in Nat /\ used'["mishap"] \in Nat /\ used["mishap"] <= used'["mishap"]
  BY MishapsGrow
<1>1. IsFiniteSet(L) /\ Cardinality(L) \in Nat
  BY PartCounts DEF StrangeFit
<1>2. CASE T \subseteq L \cup {p}
  <2>1. Cardinality(T) \in Nat /\ Cardinality(T) <= Cardinality(L) + 1
    BY <1>1, <1>2, OneMoreCounts
  <2> QED BY <1>0, <1>1, <2>1
<1>3. ASSUME used'["mishap"] = used["mishap"] + 1, NEW s, T \subseteq L \cup {p, s}
      PROVE  Cardinality(T) \in Nat /\ Cardinality(T) <= 1 + used'["mishap"]
  <2> DEFINE M == L \cup {p}
  <2>1. IsFiniteSet(M) /\ Cardinality(M) \in Nat /\ Cardinality(M) <= Cardinality(L) + 1
    BY <1>1, OneMoreCounts
  <2>2. T \subseteq M \cup {s}
    BY <1>3
  <2> HIDE DEF M
  <2>3. Cardinality(T) \in Nat /\ Cardinality(T) <= Cardinality(M) + 1
    BY <2>1, <2>2, OneMoreCounts
  <2> QED BY <1>0, <1>1, <1>3, <2>1, <2>3
<1> QED BY <1>2, <1>3

\* Away from its work, the loop leaves its page behind and what mishaps left.
LEMMA WorkEnds ==
    ASSUME HostBase, HostBase', [HostNext]_hostVars, pc \in AtWork, pc' \notin AtWork,
           ~HostCrash, ~Parks, StrangeFit, WorkFit, Settling
    PROVE  Cardinality(Open') <= 1 + used'["mishap"]
<1> USE DEF browser, registry, world, files, Turn, Goto, AtWork
<1>0. /\ Cardinality(Leftover) <= used["mishap"] /\ Leftover \subseteq Open
      /\ Open' \subseteq Open
  BY DEF WorkFit, Leftover, Settling
<1>1. CASE pc # "check"
  <2>1. Open' \subseteq Leftover \cup {page}
    BY <1>0, <1>1 DEF Leftover
  <2> QED BY <1>0, <2>1, LeftoverCounts
<1>2. CASE pc = "check"
  <2>1. CheckFails
    <3>1. CASE \/ Boot \/ OwnerStarts \/ TurnFails \/ Top \/ Rolling
               \/ SeekFinds \/ SeekLoads \/ LimitDetected \/ Bootstraps \/ Idles \/ GateOpens
               \/ WakeIsReady \/ ListenFails \/ ListenPasses \/ Finishes
      BY <1>2, <3>1 DEF Boot, OwnerStarts, TurnFails, Top, Rolling, NoRollover, RollCreates,
                  RollReopens, RollWaits, Records, Commits, VetWaits, RollAborts, LimitDetected,
                  SeekFinds, SeekLoads, Bootstraps, Idles, GateOpens, WakeIsReady, ListenFails,
                  ListenPasses, Finishes
    <3>2. CASE PreflightBegins \/ FreshOpens \/ CheckPasses \/ PollPasses \/ PollFails
      BY <1>2, <3>2 DEF PreflightBegins, FreshOpens, CheckPasses, PollPasses, PollFails
    <3>3. CASE Around
      BY <1>2, <3>3, AroundStays
    <3>4. CASE UNCHANGED hostVars \/ \E t \in Tabs : Strays(t)
      BY <1>2, <3>4 DEF hostVars, Strays
    <3> QED BY <3>1, <3>2, <3>3, <3>4, HostSteps DEF Loop, Preflight
  <2>2. Close({fresh})
    BY <2>1 DEF CheckFails
  <2>3. Open \subseteq Leftover \cup {page, fresh}
    BY <1>2 DEF Leftover
  <2>4. CASE \A u \in Tabs \cap {fresh} : tabs'[u] = Shut
    <3>1. Open' \subseteq Leftover \cup {page}
      BY <1>0, <2>3, <2>4 DEF Open
    <3> QED BY <1>0, <3>1, LeftoverCounts
  <2>5. CASE Passed("mishap")
    <3>1. Open' \subseteq Leftover \cup {page, fresh} /\ used'["mishap"] = used["mishap"] + 1
      BY <1>0, <2>3, <2>5 DEF Passed
    <3> QED BY <1>0, <3>1, LeftoverCounts
  <2> QED BY <2>2, <2>4, <2>5, CloseShuts DEF HostBase
<1> QED BY <1>1, <1>2

\* A step that opens no tab keeps the bounds.
LEMMA SettledTabs ==
    ASSUME HostBase, HostBase', Created' \in Nat, TabsFit, [HostNext]_hostVars,
           ~Boot, ~RollCreates, ~SeekLoads, ~FreshOpens
    PROVE  TabsFit'
<1>0. /\ Settling /\ HostTypeOK' /\ StrangeFit
      /\ used["mishap"] \in Nat /\ used'["mishap"] \in Nat /\ Created \in Nat
  BY SettlingSteps, MishapsGrow, CreatedIsNat DEF HostBase, TabsFit
<1>1. /\ StrangeFit'
      /\ Cardinality(Open') \in Nat /\ Cardinality(Open) \in Nat
      /\ Cardinality(Open') <= Cardinality(Open)
      /\ Cardinality(Strange) <= used["mishap"] => Cardinality(Strange') <= used'["mishap"]
  BY <1>0, SettlingFits
<1>2. WorkFit'
  <2> SUFFICES ASSUME pc' \in AtWork
               PROVE  /\ Cardinality(Strange') <= used'["mishap"]
                      /\ Cardinality(Leftover') <= used'["mishap"]
    BY DEF WorkFit
  <2>0. Open' \subseteq Open /\ IsFiniteSet(Open) /\ IsFiniteSet(Strange)
    BY <1>0, OpenParts, PartCounts DEF Settling, StrangeFit
  <2>1. CASE SeekFinds
    <3>1. PICK t \in Showing(aim) : Works(t) /\ Close(Others(t))
      BY <2>1 DEF SeekFinds
    <3>2. aim \in Chats
      BY <2>1, BaseShape DEF SeekFinds, Turn
    <3>3. t \in Pages /\ page' = t /\ pc' = "gate"
      BY <3>1, <3>2 DEF Showing, Pages, Works, Goto
    <3>4. Cardinality(Strange) <= used["mishap"]
      BY <1>0, <3>3 DEF StrangeFit
    <3>5. CASE \A u \in Tabs \cap Others(t) : tabs'[u] = Shut
      <4>1. Leftover' \subseteq Strange
        BY <2>0, <3>3, <3>5, OpenParts DEF Leftover, Others, Open
      <4>2. Cardinality(Leftover') <= Cardinality(Strange) /\ Cardinality(Leftover') \in Nat
            /\ Cardinality(Strange) \in Nat
        BY <2>0, <4>1, PartCounts
      <4> QED BY <1>0, <1>1, <3>4, <4>2, MishapsGrow
    <3>6. ASSUME NEW s, Passed("mishap"), \A u \in (Tabs \cap Others(t)) \ {s} : tabs'[u] = Shut
          PROVE  Cardinality(Leftover') <= used'["mishap"]
      <4>1. Leftover' \subseteq Strange \cup {s}
        BY <2>0, <3>3, <3>6, OpenParts DEF Leftover, Others, Open
      <4>2. Cardinality(Leftover') <= Cardinality(Strange) + 1 /\ Cardinality(Leftover') \in Nat
            /\ Cardinality(Strange) \in Nat
        BY <2>0, <4>1, OneMoreCounts
      <4>3. used'["mishap"] = used["mishap"] + 1
        BY <3>6 DEF Passed
      <4> QED BY <1>0, <3>4, <4>2, <4>3
    <3> QED BY <1>1, <3>1, <3>4, <3>5, <3>6, CloseShuts DEF HostBase
  <2>2. CASE CheckPasses
    <3>1. pc = "check" /\ page' = fresh /\ pc' = "poll" /\ Close({page} \ {fresh})
      BY <2>2 DEF CheckPasses, Turn, Goto
    <3>2. /\ Cardinality(Leftover) <= used["mishap"] /\ Cardinality(Strange) <= used["mishap"]
          /\ IsFiniteSet(Leftover)
      BY <2>0, <3>1, PartCounts DEF TabsFit, WorkFit, AtWork, Leftover
    <3>3. CASE \A u \in Tabs \cap ({page} \ {fresh}) : tabs'[u] = Shut
      <4>1. Leftover' \subseteq Leftover
        BY <2>0, <3>1, <3>3 DEF Leftover, Open
      <4>2. Cardinality(Leftover') <= Cardinality(Leftover) /\ Cardinality(Leftover') \in Nat
            /\ Cardinality(Leftover) \in Nat
        BY <3>2, <4>1, PartCounts
      <4> QED BY <1>0, <1>1, <3>2, <4>2, MishapsGrow
    <3>4. CASE Passed("mishap")
      <4>1. Leftover' \subseteq Leftover \cup {page}
        BY <2>0, <3>1 DEF Leftover
      <4>2. Cardinality(Leftover') <= Cardinality(Leftover) + 1 /\ Cardinality(Leftover') \in Nat
            /\ Cardinality(Leftover) \in Nat
        BY <3>2, <4>1, OneMoreCounts
      <4>3. used'["mishap"] = used["mishap"] + 1
        BY <3>4 DEF Passed
      <4> QED BY <1>0, <1>1, <3>2, <4>2, <4>3
    <3> QED BY <1>1, <3>1, <3>2, <3>3, <3>4, CloseShuts DEF HostBase
  <2>3. CASE ~SeekFinds /\ ~CheckPasses
    <3>1. pc \in AtWork /\ page' = page /\ fresh' = fresh /\ (pc = "check" <=> pc' = "check")
      BY <2>3, WorkGoesOn
    <3>2. /\ Cardinality(Leftover) <= used["mishap"] /\ Cardinality(Strange) <= used["mishap"]
          /\ IsFiniteSet(Leftover)
      BY <2>0, <3>1, PartCounts DEF TabsFit, WorkFit, Leftover
    <3>3. Leftover' \subseteq Leftover
      BY <2>0, <3>1 DEF Leftover
    <3>4. Cardinality(Leftover') <= Cardinality(Leftover) /\ Cardinality(Leftover') \in Nat
          /\ Cardinality(Leftover) \in Nat
      BY <3>2, <3>3, PartCounts
    <3> QED BY <1>0, <1>1, <3>2, <3>4, MishapsGrow
  <2> QED BY <2>1, <2>2, <2>3
<1>3. RoundFit'
  <2> SUFFICES ASSUME pc' \notin AtWork PROVE Cardinality(Open') <= 1 + used'["mishap"] + Created'
    BY DEF RoundFit
  <2>1. CASE HostCrash \/ Parks
    <3>1. \A t \in Tabs : tabs'[t] = Shut
      BY <2>1 DEF HostCrash, Parks, Down
    <3>2. Open' = {}
      BY <3>1 DEF Open
    <3>3. Cardinality(Open') = 0
      BY <3>2, FS_EmptySet
    <3> QED BY <1>0, <3>3
  <2>2. CASE pc \notin AtWork /\ ~HostCrash
    <3>1. Cardinality(Open) <= 1 + used["mishap"] + Created
      BY <2>2 DEF TabsFit, RoundFit
    <3>2. used["mishap"] + Created <= used'["mishap"] + Created'
      BY <2>2, CreatedGrows
    <3> QED BY <1>0, <1>1, <3>1, <3>2
  <2>3. CASE pc \in AtWork /\ ~HostCrash /\ ~Parks
    <3>1. Cardinality(Open') <= 1 + used'["mishap"]
      BY <1>0, <2>3, WorkEnds DEF TabsFit
    <3> QED BY <1>0, <1>1, <3>1
  <2> QED BY <2>1, <2>2, <2>3
<1> QED BY <1>1, <1>2, <1>3 DEF TabsFit

\* A chat is loaded into a tab that shows no page.
LoadedAside(t, c) ==
    /\ Open' \subseteq Open \cup {t}
    /\ \/ /\ tabs'[t] = c /\ used' = used
          /\ Pages' = Pages \cup {t} /\ Strange' = Strange \ {t} /\ Aways' \subseteq Aways
       \/ /\ tabs'[t] # c /\ used'["mishap"] = used["mishap"] + 1
          /\ Pages' \subseteq Pages \cup {t} /\ Strange' \subseteq Strange \cup {t}
          /\ Aways' \subseteq Aways \cup {t}

LEMMA LandsAside ==
    ASSUME HostBase, NEW t \in Tabs, t \notin Pages, NEW c \in Chats, NEW others, others = {},
           Lands(t, c, others)
    PROVE  LoadedAside(t, c)
<1>0. c \in TabStates /\ HostTypeOK /\ tabs \in [Tabs -> TabStates]
  BY BaseShape DEF TabStates, HostBase
<1> USE DEF LoadedAside
<1>1. /\ \A u \in Tabs \ {t} : tabs'[u] = tabs[u]
      /\ \/ tabs'[t] = c /\ used' = used
         \/ tabs'[t] \in {HomePage, Away} /\ Passed("mishap")
  <2>1. \/ tabs'[t] = c /\ SparesOf(t, others) /\ used' = used
        \/ tabs'[t] \in {HomePage, Away} /\ SparesOf(t, {}) /\ Passed("mishap") /\ c # Blank
    BY <1>0, LandsSomewhere
  <2> QED BY <2>1 DEF SparesOf
<1>2. Open' \subseteq Open \cup {t}
  BY <1>1 DEF Open
<1>3. CASE tabs'[t] = c /\ used' = used
  BY <1>1, <1>2, <1>3, ChatShape DEF Pages, Strange, Aways
<1>4. CASE tabs'[t] \in {HomePage, Away} /\ Passed("mishap")
  <2>1. used'["mishap"] = used["mishap"] + 1 /\ tabs'[t] # c
    BY <1>4, ChatShape DEF Passed
  <2>2. Pages' \subseteq Pages \cup {t} /\ Strange' \subseteq Strange \cup {t} /\ Aways' \subseteq Aways \cup {t}
    BY <1>1 DEF Pages, Strange, Aways
  <2> QED BY <1>2, <2>1, <2>2
<1> QED BY <1>1, <1>3, <1>4

\* Chrome starts with one tab.
LEMMA BootTabs ==
    ASSUME HostBase, HostBase', Created' \in Nat, Boot, [HostNext]_hostVars
    PROVE  TabsFit'
<1>0. used["mishap"] \in Nat /\ used'["mishap"] \in Nat /\ HostTypeOK /\ tabs' \in [Tabs -> TabStates]
  BY MishapsGrow, HostTypesKeep DEF HostBase, HostTypeOK, TabStates
<1>1. PICK t \in NewTabs : Lands(t, FirstPage(Target), {})
  BY DEF Boot
<1>2. t \in Tabs /\ FirstPage(Target) \in Chats \cup {Blank} /\ FirstPage(Target) \in TabStates
  BY <1>1, NewTabIsShut, BaseShape DEF FirstPage, TabStates
<1>3. \/ tabs'[t] = FirstPage(Target) /\ SparesOf(t, {}) /\ used' = used
      \/ tabs'[t] \in {HomePage, Away} /\ SparesOf(t, {}) /\ Passed("mishap")
  BY <1>0, <1>1, <1>2, LandsSomewhere
<1>4. \A u \in Tabs \ {t} : tabs'[u] = Shut
  <2>1. \A u \in Tabs : tabs[u] = Shut
    BY DEF Boot, Turn, HostBase, LoopFits, Open
  <2> QED BY <1>3, <2>1 DEF SparesOf
<1>5. Open' \subseteq {t} /\ Strange' \subseteq {t} /\ Aways' \subseteq {t}
  BY <1>4, ChatShape DEF Open, Strange, Aways
<1>6. /\ IsFiniteSet(Open') /\ Cardinality(Open') \in Nat /\ Cardinality(Open') <= 1
      /\ Cardinality(Strange') \in Nat /\ Cardinality(Strange') <= 1
      /\ Cardinality(Aways') \in Nat /\ Cardinality(Aways') <= 1
  <2>1. IsFiniteSet({t}) /\ Cardinality({t}) = 1
    BY FS_Singleton
  <2> QED BY <1>5, <2>1, PartCounts
<1>7. CASE tabs'[t] = FirstPage(Target) /\ used' = used
  <2>1. Aways' = {}
    BY <1>2, <1>4, <1>7, ChatShape DEF Aways
  <2>2. Cardinality(Aways') = 0
    BY <2>1, FS_EmptySet
  <2>3. CASE FirstPage(Target) = Blank
    <3>1. Pages' = {}
      BY <1>4, <1>7, <2>3, ChatShape DEF Pages
    <3> QED BY <1>0, <1>6, <1>7, <2>2, <3>1 DEF StrangeFit, TabsFit, WorkFit, RoundFit, Boot, Goto, AtWork
  <2>4. CASE FirstPage(Target) # Blank
    <3>1. Strange' = {}
      BY <1>2, <1>4, <1>7, <2>4, ChatShape DEF Strange
    <3>2. Cardinality(Strange') = 0
      BY <3>1, FS_EmptySet
    <3> QED BY <1>0, <1>6, <1>7, <2>2, <3>2 DEF StrangeFit, TabsFit, WorkFit, RoundFit, Boot, Goto, AtWork
  <2> QED BY <2>3, <2>4
<1>8. CASE Passed("mishap")
  <2>1. used'["mishap"] = used["mishap"] + 1
    BY <1>8 DEF Passed
  <2> QED BY <1>0, <1>6, <2>1 DEF StrangeFit, TabsFit, WorkFit, RoundFit, Boot, Goto, AtWork
<1> QED BY <1>3, <1>7, <1>8

\* A successor has a tab of its own, which its rollover accounts for.
LEMMA SuccessorTabs ==
    ASSUME HostBase, HostBase', TabsFit, RollCreates
    PROVE  TabsFit'
<1>0. /\ used["mishap"] \in Nat /\ used["roll"] \in Nat /\ used' = used /\ roll' = roll
      /\ tabs \in [Tabs -> TabStates] /\ roll # None /\ ~roll.candidate /\ pc = "roll"
      /\ held' = roll.token /\ pc' = "record"
  BY BaseShape DEF RollCreates, HostBase, HostTypeOK, HostEvents, Turn, Goto, Pending, world, registry
<1>1. PICK t \in NewTabs, s \in Pages : tabs' = [tabs EXCEPT ![s] = aim, ![t] = Successor]
  BY DEF RollCreates
<1>2. aim \in Chats /\ Successor \in Chats /\ t \in Tabs /\ s \in Tabs /\ t # s /\ t \notin Open
  BY <1>0, <1>1, BaseShape, NewTabIsShut, OpenParts
<1>3. /\ tabs'[s] = aim /\ tabs'[t] = Successor /\ \A u \in Tabs \ {s, t} : tabs'[u] = tabs[u]
  BY <1>0, <1>1, <1>2
<1>4. Open' \subseteq Open \cup {t} /\ Strange' \subseteq Strange /\ Aways' \subseteq Aways
  <2>1. tabs'[s] \notin {Blank, Away} /\ tabs'[t] \notin {Blank, Away} /\ tabs[s] # Shut
    BY <1>1, <1>2, <1>3, ChatShape DEF Pages
  <2>2. Open' \subseteq Open \cup {t}
    BY <1>2, <1>3, <2>1 DEF Open
  <2>3. Strange' \subseteq Strange /\ Aways' \subseteq Aways
    BY <1>3, <2>1 DEF Strange, Aways
  <2> QED BY <2>2, <2>3
<1>5. IsFiniteSet(Open) /\ IsFiniteSet(Strange) /\ IsFiniteSet(Aways)
  BY OpenParts, PartCounts DEF TabsFit, StrangeFit
<1>6. /\ IsFiniteSet(Open') /\ Cardinality(Open') \in Nat /\ Cardinality(Open) \in Nat
      /\ Cardinality(Open') <= Cardinality(Open) + 1
  BY <1>4, <1>5, OneMoreCounts
<1>7. /\ Cardinality(Strange') \in Nat /\ Cardinality(Strange) \in Nat
      /\ Cardinality(Strange') <= Cardinality(Strange)
      /\ Cardinality(Aways') \in Nat /\ Cardinality(Aways) \in Nat
      /\ Cardinality(Aways') <= Cardinality(Aways)
  BY <1>4, <1>5, PartCounts
<1>8. StrangeFit'
  <2>1. Cardinality(Aways) <= used["mishap"] /\ Cardinality(Strange) <= used["mishap"]
    BY <1>0, <1>1 DEF TabsFit, StrangeFit
  <2> QED BY <1>0, <1>6, <1>7, <2>1 DEF StrangeFit
<1>9. Created = used["roll"] - 1 /\ Created' = used["roll"]
  <2>1. TabToCome /\ ~TabToCome'
    BY <1>0 DEF RollCreates, Pending, TabToCome, Mine
  <2> QED BY <1>0, <2>1 DEF Created
<1>10. Cardinality(Open) <= 1 + used["mishap"] + Created
  BY <1>0 DEF TabsFit, RoundFit, AtWork
<1>11. RoundFit'
  BY <1>0, <1>6, <1>9, <1>10 DEF RoundFit
<1>12. WorkFit'
  BY <1>0 DEF WorkFit, AtWork
<1> QED BY <1>8, <1>11, <1>12 DEF TabsFit

\* The fresh tab of a preflight is beside the page.
LEMMA FreshTabs ==
    ASSUME HostBase, HostBase', TabsFit, FreshOpens, [HostNext]_hostVars
    PROVE  TabsFit'
<1>0. /\ used["mishap"] \in Nat /\ used'["mishap"] \in Nat /\ aim \in Chats
      /\ pc' = "check" /\ page' = page /\ pc = "fresh"
  BY BaseShape, MishapsGrow DEF FreshOpens, Turn, Goto
<1>1. PICK t \in NewTabs : fresh' = t /\ Lands(t, aim, {})
  BY DEF FreshOpens
<1>2. t \in Tabs /\ t \notin Pages /\ t \notin Open
  BY <1>1, NewTabIsShut, OpenParts
<1>3. IsFiniteSet(Open) /\ IsFiniteSet(Strange) /\ IsFiniteSet(Aways)
  BY OpenParts, PartCounts DEF TabsFit, StrangeFit
<1>4. /\ Cardinality(Strange) <= used["mishap"] /\ Cardinality(Leftover) <= used["mishap"]
      /\ Cardinality(Aways) <= used["mishap"] /\ IsFiniteSet(Leftover)
  BY <1>0, <1>3, PartCounts DEF TabsFit, StrangeFit, WorkFit, AtWork, Leftover
<1>5. /\ Open' \subseteq Open \cup {t} /\ Pages' \subseteq Pages \cup {t}
      /\ \/ Strange' \subseteq Strange /\ Aways' \subseteq Aways /\ used' = used
         \/ /\ used'["mishap"] = used["mishap"] + 1
            /\ Strange' \subseteq Strange \cup {t} /\ Aways' \subseteq Aways \cup {t}
  <2> DEFINE others == {}
  <2>1. Lands(t, aim, others)
    BY <1>1
  <2>2. others = {}
    OBVIOUS
  <2> HIDE DEF others
  <2>3. LoadedAside(t, aim)
    BY <1>0, <1>2, <2>1, <2>2, LandsAside
  <2> QED BY <2>3 DEF LoadedAside
<1>6. IsFiniteSet(Open')
  BY <1>3, <1>5, OneMoreCounts
<1>7. /\ Cardinality(Strange') \in Nat /\ Cardinality(Aways') \in Nat
      /\ Cardinality(Strange') <= used'["mishap"] /\ Cardinality(Aways') <= used'["mishap"]
  <2>1. CASE Strange' \subseteq Strange /\ Aways' \subseteq Aways /\ used' = used
    <3>1. /\ Cardinality(Strange') \in Nat /\ Cardinality(Aways') \in Nat
          /\ Cardinality(Strange) \in Nat /\ Cardinality(Aways) \in Nat
          /\ Cardinality(Strange') <= Cardinality(Strange) /\ Cardinality(Aways') <= Cardinality(Aways)
      BY <1>3, <2>1, PartCounts
    <3> QED BY <1>0, <1>4, <2>1, <3>1
  <2>2. CASE /\ used'["mishap"] = used["mishap"] + 1
             /\ Strange' \subseteq Strange \cup {t} /\ Aways' \subseteq Aways \cup {t}
    <3>1. /\ Cardinality(Strange') \in Nat /\ Cardinality(Aways') \in Nat
          /\ Cardinality(Strange) \in Nat /\ Cardinality(Aways) \in Nat
          /\ Cardinality(Strange') <= Cardinality(Strange) + 1
          /\ Cardinality(Aways') <= Cardinality(Aways) + 1
      BY <1>3, <2>2, OneMoreCounts
    <3> QED BY <1>0, <1>4, <2>2, <3>1
  <2> QED BY <1>5, <2>1, <2>2
<1>8. StrangeFit'
  BY <1>0, <1>6, <1>7 DEF StrangeFit
<1>9. Cardinality(Leftover') <= used'["mishap"]
  <2>1. Leftover' \subseteq Leftover
    BY <1>0, <1>1, <1>5 DEF Leftover
  <2>2. Cardinality(Leftover') <= Cardinality(Leftover) /\ Cardinality(Leftover') \in Nat
        /\ Cardinality(Leftover) \in Nat
    BY <1>4, <2>1, PartCounts
  <2> QED BY <1>0, <1>4, <2>2, MishapsGrow
<1>10. WorkFit' /\ RoundFit'
  BY <1>0, <1>7, <1>9 DEF WorkFit, RoundFit, AtWork
<1> QED BY <1>8, <1>10 DEF TabsFit

\* enforce_target loads the chat into a tab: it waits for its turn, or it has the
\* page it works on, or it was sent elsewhere.
LEMMA SeekTabs ==
    ASSUME HostBase, HostBase', Created' \in Nat, TabsFit, SeekLoads, [HostNext]_hostVars
    PROVE  TabsFit'
<1>0. /\ used["mishap"] \in Nat /\ used'["mishap"] \in Nat /\ aim \in Chats /\ aim \in TabStates
      /\ HostTypeOK /\ HostTypeOK' /\ tabs \in [Tabs -> TabStates] /\ pc = "seek" /\ StrangeFit
      /\ Created \in Nat
  BY BaseShape, MishapsGrow, CreatedIsNat DEF SeekLoads, Turn, HostBase, TabStates, TabsFit
<1> DEFINE Waiting(t) == /\ tabs' = [tabs EXCEPT ![t] = IF @ = Shut THEN Blank ELSE @]
                         /\ used' = used /\ pc' = "top"
           Finding(t) == Lands(t, aim, Others(t)) /\ tabs'[t] = aim /\ page' = t /\ pc' = "gate"
           Missing(t) == Lands(t, aim, {}) /\ tabs'[t] # aim /\ pc' = "top"
<1>1. PICK t \in IF Pages # {} THEN Pages ELSE IF SpareTab # {} THEN SpareTab ELSE NewTabs :
             Waiting(t) \/ Finding(t) \/ Missing(t)
  BY DEF SeekLoads, Works, Goto
<1>2. t \in Tabs
  BY <1>0, <1>1, NewTabIsShut, OpenParts DEF SpareTab, HostTypeOK
<1>3. /\ Cardinality(Open) <= 1 + used["mishap"] + Created
      /\ used["mishap"] + Created <= used'["mishap"] + Created'
  <2>1. pc' \in {"top", "gate"}
    BY <1>1
  <2>2. ~HostCrash
    BY <2>1 DEF HostCrash, Goto
  <2> QED BY <1>0, <2>2, CreatedGrows DEF TabsFit, RoundFit, AtWork
<1>4. ASSUME Finding(t)
      PROVE  /\ t \in Pages'
             /\ \/ /\ used' = used
                   /\ \A u \in Tabs \ {t} : tabs'[u] = IF u \in Pages THEN Shut ELSE tabs[u]
                \/ \E s \in Others(t) :
                     /\ used'["mishap"] = used["mishap"] + 1
                     /\ \A u \in Tabs \ {t, s} : tabs'[u] = IF u \in Pages THEN Shut ELSE tabs[u]
  <2>1. /\ tabs'[t] = aim
        /\ \/ SparesOf(t, Others(t)) /\ used' = used
           \/ \E s \in Others(t) : SparesOf(t, Others(t) \ {s}) /\ Passed("mishap")
    BY <1>0, <1>2, <1>4, LandsSomewhere, ChatShape
  <2>2. CASE SparesOf(t, Others(t)) /\ used' = used
    BY <1>0, <1>2, <2>1, <2>2, ChatShape DEF SparesOf, Others, Pages
  <2>3. ASSUME NEW s \in Others(t), SparesOf(t, Others(t) \ {s}), Passed("mishap")
        PROVE  /\ t \in Pages' /\ used'["mishap"] = used["mishap"] + 1
               /\ \A u \in Tabs \ {t, s} : tabs'[u] = IF u \in Pages THEN Shut ELSE tabs[u]
    BY <1>0, <1>2, <2>1, <2>3, ChatShape DEF SparesOf, Others, Pages, Passed
  <2> QED BY <2>1, <2>2, <2>3
<1>5. CASE Pages # {}
  <2>1. t \in Pages /\ t \notin Others(t) /\ Cardinality(Strange) <= used["mishap"]
    BY <1>0, <1>1, <1>5 DEF Others, StrangeFit
  <2>2. Settling
    <3>1. CASE Waiting(t)
      <4>1. \A u \in Tabs : tabs'[u] = tabs[u]
        BY <1>0, <2>1, <3>1, ChatShape DEF Pages
      <4> QED BY <1>0, <3>1, <4>1, ClosingSettles
    <3>2. CASE Lands(t, aim, Others(t))
      BY <1>0, <2>1, <3>2, LandsOnPage
    <3>3. CASE Lands(t, aim, {})
      BY <1>0, <2>1, <3>3, LandsOnPage
    <3> QED BY <1>1, <3>1, <3>2, <3>3
  <2>3. /\ StrangeFit'
        /\ Cardinality(Open') \in Nat /\ Cardinality(Open) \in Nat
        /\ Cardinality(Open') <= Cardinality(Open)
        /\ Cardinality(Strange') <= used'["mishap"]
    BY <1>0, <2>1, <2>2, SettlingFits
  <2>4. WorkFit'
    <3>1. CASE pc' = "top"
      BY <3>1 DEF WorkFit, AtWork
    <3>2. CASE Finding(t)
      <4>0. IsFiniteSet(Strange) /\ Cardinality(Strange) \in Nat
        BY <1>0, OpenParts, PartCounts DEF StrangeFit
      <4>1. CASE /\ used' = used
                 /\ \A u \in Tabs \ {t} : tabs'[u] = IF u \in Pages THEN Shut ELSE tabs[u]
        <5>1. Leftover' \subseteq Strange
          BY <3>2, <4>1, OpenParts DEF Leftover, Open
        <5>2. Cardinality(Leftover') <= Cardinality(Strange) /\ Cardinality(Leftover') \in Nat
          BY <4>0, <5>1, PartCounts
        <5> QED BY <1>0, <2>1, <2>3, <3>2, <4>0, <4>1, <5>2 DEF WorkFit
      <4>2. ASSUME NEW s \in Others(t), used'["mishap"] = used["mishap"] + 1,
                   \A u \in Tabs \ {t, s} : tabs'[u] = IF u \in Pages THEN Shut ELSE tabs[u]
            PROVE  WorkFit'
        <5>1. Leftover' \subseteq Strange \cup {s}
          BY <3>2, <4>2, OpenParts DEF Leftover, Open
        <5>2. Cardinality(Leftover') <= Cardinality(Strange) + 1 /\ Cardinality(Leftover') \in Nat
          BY <4>0, <5>1, OneMoreCounts
        <5> QED BY <1>0, <2>1, <2>3, <3>2, <4>0, <4>2, <5>2 DEF WorkFit
      <4> QED BY <1>4, <3>2, <4>1, <4>2
    <3> QED BY <1>1, <3>1, <3>2
  <2>5. RoundFit'
    BY <1>0, <1>3, <2>3 DEF RoundFit
  <2> QED BY <2>3, <2>4, <2>5 DEF TabsFit
<1>6. CASE Pages = {}
  <2> DEFINE S == Strange \ {t}
  <2>1. IsFiniteSet(Strange) /\ IsFiniteSet(Aways) /\ Open = Strange /\ t \notin Pages
    BY <1>0, <1>6, OpenParts, PartCounts DEF StrangeFit
  <2>2. IsFiniteSet(S) /\ Cardinality(S) \in Nat /\ Cardinality(S) <= used["mishap"]
    <3>1. CASE t \in Strange
      <4>1. Cardinality(Strange) <= used["mishap"] + 1
        BY <1>0, <1>6 DEF StrangeFit
      <4>2. S \subseteq Strange \ {t}
        OBVIOUS
      <4> HIDE DEF S
      <4>3. /\ IsFiniteSet(S) /\ Cardinality(S) \in Nat /\ Cardinality(Strange) \in Nat
            /\ Cardinality(S) + 1 <= Cardinality(Strange)
        BY <2>1, <3>1, <4>2, OneLessCounts
      <4> QED BY <1>0, <4>1, <4>3
    <3>2. CASE t \notin Strange
      <4>1. SpareTab = {}
        BY <1>0, <1>1, <1>6, <2>1, <3>2, ChatShape DEF SpareTab, Strange, Open, HostTypeOK
      <4>2. Strange \subseteq Aways
        BY <1>0, <4>1, ChatShape DEF SpareTab, Strange, Aways, HostTypeOK, Open
      <4>3. S \subseteq Aways
        BY <4>2
      <4>4. IsFiniteSet(S) /\ Cardinality(S) \in Nat /\ Cardinality(S) <= Cardinality(Aways)
            /\ Cardinality(Aways) \in Nat
        BY <2>1, <4>3, PartCounts
      <4> QED BY <1>0, <4>4 DEF StrangeFit
    <3> QED BY <3>1, <3>2
  <2>3. Open \subseteq S \cup {t} /\ Strange \subseteq S \cup {t}
    BY <2>1
  <2>4. Cardinality(Aways) <= used["mishap"]
    BY <1>0 DEF StrangeFit
  <2>5. CASE Waiting(t)
    <3>1. Aways' \subseteq Aways /\ Pages' = {} /\ Open' \subseteq Open \cup {t} /\ Strange' \subseteq Strange \cup {t}
      BY <1>0, <1>2, <1>6, <2>5, ChatShape DEF Aways, Pages, Open, Strange
    <3>2. Open' \subseteq S \cup {t} /\ Strange' \subseteq S \cup {t}
      BY <2>3, <3>1
    <3> HIDE DEF S
    <3>3. /\ IsFiniteSet(Open') /\ Cardinality(Open') \in Nat /\ Cardinality(Open') <= Cardinality(S) + 1
          /\ Cardinality(Strange') \in Nat /\ Cardinality(Strange') <= Cardinality(S) + 1
          /\ Cardinality(Aways') \in Nat /\ Cardinality(Aways) \in Nat
          /\ Cardinality(Aways') <= Cardinality(Aways)
      BY <2>1, <2>2, <3>1, <3>2, OneMoreCounts, PartCounts
    <3>4. StrangeFit'
      BY <1>0, <2>2, <2>4, <2>5, <3>1, <3>3 DEF StrangeFit
    <3>5. RoundFit' /\ WorkFit'
      BY <1>0, <2>2, <2>5, <3>3 DEF RoundFit, WorkFit, AtWork
    <3> QED BY <3>4, <3>5 DEF TabsFit
  <2>6. CASE Finding(t)
    <3>1. (\A u \in Tabs \ {t} : tabs'[u] = tabs[u]) /\ used' = used /\ t \in Pages'
      BY <1>4, <1>6, <2>6 DEF Others
    <3>2. Strange' \subseteq S /\ Aways' \subseteq Aways /\ Open' \subseteq Open \cup {t}
      BY <1>0, <2>6, <3>1, ChatShape DEF Strange, Aways, Open
    <3>3. Open' \subseteq S \cup {t}
      BY <2>3, <3>2
    <3> HIDE DEF S
    <3>4. /\ IsFiniteSet(Open') /\ Cardinality(Open') \in Nat
          /\ Cardinality(Strange') \in Nat /\ Cardinality(Strange') <= Cardinality(S)
          /\ Cardinality(Aways') \in Nat /\ Cardinality(Aways) \in Nat
          /\ Cardinality(Aways') <= Cardinality(Aways)
      BY <2>1, <2>2, <3>2, <3>3, OneMoreCounts, PartCounts
    <3>5. used' = used /\ Pages' # {} /\ page' = t /\ pc' = "gate"
      BY <2>6, <3>1
    <3>6. StrangeFit'
      BY <1>0, <2>2, <2>4, <3>4, <3>5 DEF StrangeFit
    <3>7. Cardinality(Leftover') <= Cardinality(S) /\ Cardinality(Leftover') \in Nat
      <4>1. Leftover' \subseteq S
        BY <3>3, <3>5 DEF Leftover
      <4> QED BY <2>2, <4>1, PartCounts
    <3>8. RoundFit' /\ WorkFit'
      BY <1>0, <2>2, <3>4, <3>5, <3>7 DEF RoundFit, WorkFit, AtWork
    <3> QED BY <3>6, <3>8 DEF TabsFit
  <2>7. CASE Missing(t)
    <3>1. /\ used'["mishap"] = used["mishap"] + 1
          /\ Aways' \subseteq Aways \cup {t} /\ Open' \subseteq Open \cup {t} /\ Strange' \subseteq Strange \cup {t}
      <4> DEFINE others == {}
      <4>1. Lands(t, aim, others)
        BY <2>7
      <4>2. others = {}
        OBVIOUS
      <4> HIDE DEF others
      <4>3. LoadedAside(t, aim)
        BY <1>0, <1>2, <2>1, <4>1, <4>2, LandsAside
      <4> QED BY <2>7, <4>3 DEF LoadedAside
    <3>2. Open' \subseteq S \cup {t} /\ Strange' \subseteq S \cup {t}
      BY <2>3, <3>1
    <3> HIDE DEF S
    <3>3. /\ IsFiniteSet(Open') /\ Cardinality(Open') \in Nat /\ Cardinality(Open') <= Cardinality(S) + 1
          /\ Cardinality(Strange') \in Nat /\ Cardinality(Strange') <= Cardinality(S) + 1
          /\ Cardinality(Aways') \in Nat /\ Cardinality(Aways) \in Nat
          /\ Cardinality(Aways') <= Cardinality(Aways) + 1
      BY <2>1, <2>2, <3>1, <3>2, OneMoreCounts
    <3>4. StrangeFit'
      BY <1>0, <2>2, <2>4, <3>1, <3>3 DEF StrangeFit
    <3>5. RoundFit' /\ WorkFit'
      BY <1>0, <2>2, <2>7, <3>1, <3>3 DEF RoundFit, WorkFit, AtWork
    <3> QED BY <3>4, <3>5 DEF TabsFit
  <2> QED BY <1>1, <2>5, <2>6, <2>7
<1> QED BY <1>5, <1>6

\* The bounds of the tabs hold after every step.
LEMMA TabsKeep == HostBase /\ HostBase' /\ TabsFit /\ [HostNext]_hostVars => TabsFit'
<1> SUFFICES ASSUME HostBase, HostBase', TabsFit, [HostNext]_hostVars PROVE TabsFit'
  OBVIOUS
<1>1. Created' \in Nat
  BY HostAssumption DEF HostBase, HostTypeOK, RollFits, Created, TabToCome, HostEvents
<1> QED BY <1>1, BootTabs, SuccessorTabs, SeekTabs, FreshTabs, SettledTabs

LEMMA TabsStart == HostInit => TabsFit
<1> SUFFICES ASSUME HostInit PROVE TabsFit
  OBVIOUS
<1>1. used["mishap"] = 0 /\ used["roll"] = 0 /\ roll = None /\ pc = "down"
  BY DEF HostInit, HostEvents
<1>2. Open = {} /\ Strange = {} /\ Aways = {}
  BY ChatShape DEF HostInit, Open, Strange, Aways
<1>3. IsFiniteSet({}) /\ Cardinality({}) = 0
  BY FS_EmptySet
<1>4. StrangeFit
  BY <1>1, <1>2, <1>3 DEF StrangeFit
<1>5. WorkFit /\ RoundFit
  BY <1>1, <1>2, <1>3 DEF WorkFit, RoundFit, Created, AtWork
<1> QED BY <1>4, <1>5 DEF TabsFit

\* They are the ones that TabsBounded states.
LEMMA TabsBound == HostBase /\ TabsFit => TabsBounded
<1> SUFFICES ASSUME HostBase, TabsFit PROVE TabsBounded
  OBVIOUS
<1>0. used["mishap"] \in Nat /\ used["roll"] \in Nat /\ Created \in Nat /\ Created <= used["roll"]
  BY CreatedIsNat DEF HostBase, HostTypeOK, HostEvents, Created
<1>1. /\ Open = Pages \cup Strange /\ IsFiniteSet(Open) /\ IsFiniteSet(Strange)
      /\ Cardinality(Open) \in Nat /\ Cardinality(Strange) \in Nat
  BY OpenParts, PartCounts DEF TabsFit, StrangeFit
<1>2. CASE pc \in AtWork
  <2>1. /\ Cardinality(Leftover) <= used["mishap"]
        /\ IsFiniteSet(Leftover) /\ Cardinality(Leftover) \in Nat
    BY <1>1, <1>2, PartCounts DEF TabsFit, WorkFit, Leftover
  <2> DEFINE T == Leftover \cup {page}
  <2>2. IsFiniteSet(T) /\ Cardinality(T) \in Nat /\ Cardinality(T) <= Cardinality(Leftover) + 1
    BY <2>1, OneMoreCounts
  <2>3. CASE pc = "check"
    <3>1. Open \subseteq T \cup {fresh}
      BY <2>3 DEF Leftover
    <3> HIDE DEF T
    <3>2. Cardinality(Open) <= Cardinality(T) + 1
      BY <2>2, <3>1, OneMoreCounts
    <3> QED BY <1>0, <1>1, <2>1, <2>2, <2>3, <3>2 DEF TabsBounded
  <2>4. CASE pc # "check"
    <3>1. Open \subseteq T
      BY <2>4 DEF Leftover
    <3> HIDE DEF T
    <3>2. Cardinality(Open) <= Cardinality(T)
      BY <2>2, <3>1, PartCounts
    <3> QED BY <1>0, <1>1, <2>1, <2>2, <2>4, <3>2 DEF TabsBounded
  <2> QED BY <2>3, <2>4
<1>3. CASE pc \notin AtWork
  BY <1>0, <1>1, <1>3 DEF TabsFit, RoundFit, TabsBounded
<1> QED BY <1>2, <1>3

-----------------------------------------------------------------------------
(* The properties of the browser host.                                       *)

HostInv == HostBase /\ CostsFit /\ DeadFit /\ TabsFit

\* The host keeps its invariant: types, what the loop may rely on behind its head,
\* one continuation per route, the cost of each, and the tabs that are open.
THEOREM HostFits == HostSpec => []HostInv
<1>1. HostInit => HostInv
  BY HostStarts, CostsStart, TabsStart DEF HostInv
<1>2. HostInv /\ [HostNext]_hostVars => HostInv'
  BY HostBaseKeeps, CostsKeep, DeadKeeps, TabsKeep DEF HostInv
<1> QED BY <1>1, <1>2, PTL DEF HostSpec

\* While the loop works it has one page and, in a preflight, a fresh tab, but for
\* what mishaps leave behind; rollovers in a row add a chat each.
THEOREM TabsStayBounded == HostSpec => []TabsBounded
<1>1. HostInv => TabsBounded
  BY TabsBound DEF HostInv
<1> QED BY <1>1, HostFits, PTL

\* No continuation costs ChatGPT more reloads than its budget, crash or not, but
\* for the changes of the route that grant it anew.
THEOREM BudgetIsKept == HostSpec => []PreflightBudget
<1>1. HostInv => PreflightBudget
  BY CostsBound DEF HostInv
<1> QED BY <1>1, HostFits, PTL

\* In a quiet period no chat is loaded into a tab, when the host starts anew too.
THEOREM BackoffIsKept == HostSpec => BackoffHolds
<1>1. HostInv /\ [HostNext]_hostVars => [BackoffStep]_hostVars
  BY BackoffKeeps DEF HostInv
<1>2. HostSpec => [][BackoffStep]_hostVars
  BY <1>1, HostFits, PTL DEF HostSpec
<1> QED BY <1>2 DEF BackoffHolds, BackoffStep
=============================================================================
