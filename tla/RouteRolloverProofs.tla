------------------------ MODULE RouteRolloverProofs ------------------------
(***************************************************************************)
(* Proofs about RouteRollover, for every set of chats and waiters and      *)
(* every bound.  A generation that the Bridge leaves is quiet and stays    *)
(* so because whoever could wake it holds the route's lock, and nobody     *)
(* leaves a generation while another holds it; the lock does not keep the  *)
(* owner out, who moves the route on by one and is answerable for it.      *)
(***************************************************************************)
EXTENDS RouteRollover, FiniteSetTheorems, TLAPS

-----------------------------------------------------------------------------
(* The inductive invariant. *)

\* The newest generation that anything was done for.
Reached == IF op = None THEN route.gen ELSE op.gen

\* Nothing is known of a generation before it is reached, and an operation
\* works on a generation that was.
Ahead ==
    /\ op # None => op.gen <= route.gen
    /\ \A g \in Gens : g > Reached => Quiet(g)

\* A generation that was left is not bound again.
Past == \A g \in left : g <= route.gen /\ (g = route.gen => ~route.bound)

\* What is left, unbound or frozen.
Asleep == left \cup (IF Frozen \/ ~route.bound THEN {route.gen} ELSE {})

\* It is quiet, and no operation is about to wake it.
AsleepIsQuiet ==
    \A g \in Asleep :
        /\ Quiet(g)
        /\ op # None /\ op.gen = g => op.kind \notin {"registering", "resuming", "arming"}

\* A registration goes on over nothing but a change of generation by hand.
Registers ==
    Holding("registering") =>
        /\ waiter[op.who].st = "none" \/ op.who \notin Waiters
        /\ op.gen \in byHand \/ (op.gen = route.gen /\ route.bound)

Prepares == Holding("preparing") => wakes[op.gen] = "none"

\* Active waiters of an older generation were overtaken by hand.
OvertakenByHand ==
    \A w \in Waiters :
        waiter[w].st \in {"waiting", "firing"} /\ waiter[w].gen < route.gen =>
            waiter[w].gen \in byHand

RollFits ==
    roll # None => /\ roll.src <= route.gen /\ roll.tgt = roll.src + 1
                   /\ roll.token <= rolls /\ roll.token # last.token
                   /\ sent[roll.token] = 0

\* Nothing was sent under a token that is not given out, nor for a committed
\* rollover whose delivery has not begun or is known to have failed.
Unsent ==
    /\ last.token <= rolls
    /\ \A t \in Tokens : t > rolls => sent[t] = 0
    /\ last.state = "committed" => last.token \in Tokens
    /\ last.state = "committed" /\ last.delivery \in {"none", "not_submitted"} =>
          sent[last.token] = 0
    /\ Holding("probing") => last.state = "committed" /\ last.delivery \in {"none", "not_submitted"}
    /\ Holding("sending") => /\ last.state = "committed" /\ last.delivery = "sending"
                             /\ sent[last.token] = 0

\* A generation that is reached had one chat at most, the others had none.
OneChat ==
    \A g \in Gens : /\ g > route.gen => chatsOf[g] = {}
                    /\ chatsOf[g] = {} \/ \E c \in Chats : chatsOf[g] = {c}

IInv ==
    /\ TypeOK
    /\ Ahead /\ Past /\ AsleepIsQuiet
    /\ Registers /\ Prepares /\ OvertakenByHand /\ DroppedByHand
    /\ RollFits /\ Unsent /\ BootstrapOnce
    /\ OneChat

-----------------------------------------------------------------------------
(* Lemmas about single updates. *)

Row == [st : WaiterStates, gen : Gens]

\* A waiter's state is set: its generation and the others stay.
LEMMA StateSet ==
    ASSUME NEW f \in [Waiters -> Row], NEW w, NEW s \in WaiterStates
    PROVE  /\ [f EXCEPT ![w].st = s] \in [Waiters -> Row]
           /\ \A v \in Waiters :
                /\ [f EXCEPT ![w].st = s][v].gen = f[v].gen
                /\ [f EXCEPT ![w].st = s][v].st = IF v = w THEN s ELSE f[v].st
  <1> DEFINE h == [f EXCEPT ![w].st = s]
  <1>1. \A v \in Waiters : h[v] = IF v = w THEN [f[v] EXCEPT !.st = s] ELSE f[v]
    OBVIOUS
  <1>2. \A v \in Waiters : /\ h[v] \in Row /\ h[v].gen = f[v].gen
                           /\ h[v].st = IF v = w THEN s ELSE f[v].st
    BY <1>1 DEF Row
  <1>3. h \in [Waiters -> Row]
    BY <1>2
  <1> QED
    BY <1>2, <1>3

\* Its generation is set: its state and the others stay.
LEMMA GenSet ==
    ASSUME NEW f \in [Waiters -> Row], NEW w, NEW g \in Gens
    PROVE  /\ [f EXCEPT ![w].gen = g] \in [Waiters -> Row]
           /\ \A v \in Waiters :
                /\ [f EXCEPT ![w].gen = g][v].st = f[v].st
                /\ [f EXCEPT ![w].gen = g][v].gen = IF v = w THEN g ELSE f[v].gen
  <1> DEFINE h == [f EXCEPT ![w].gen = g]
  <1>1. \A v \in Waiters : h[v] = IF v = w THEN [f[v] EXCEPT !.gen = g] ELSE f[v]
    OBVIOUS
  <1>2. \A v \in Waiters : /\ h[v] \in Row /\ h[v].st = f[v].st
                           /\ h[v].gen = IF v = w THEN g ELSE f[v].gen
    BY <1>1 DEF Row
  <1>3. h \in [Waiters -> Row]
    BY <1>2
  <1> QED
    BY <1>2, <1>3

\* Both are set.
LEMMA RowSet ==
    ASSUME NEW f \in [Waiters -> Row], NEW w, NEW s \in WaiterStates, NEW g \in Gens
    PROVE  /\ [f EXCEPT ![w] = [st |-> s, gen |-> g]] \in [Waiters -> Row]
           /\ \A v \in Waiters :
                [f EXCEPT ![w] = [st |-> s, gen |-> g]][v] =
                IF v = w THEN [st |-> s, gen |-> g] ELSE f[v]
  BY DEF Row

\* Some waiters change their state in a way that h says.
LEMMA StatesMapped ==
    ASSUME NEW f \in [Waiters -> Row], NEW S, NEW s \in WaiterStates
    PROVE  LET h == [w \in Waiters |-> IF w \in S THEN [f[w] EXCEPT !.st = s] ELSE f[w]]
           IN  /\ h \in [Waiters -> Row]
               /\ \A v \in Waiters : /\ h[v].gen = f[v].gen
                                     /\ h[v].st = IF v \in S THEN s ELSE f[v].st
  <1> DEFINE h == [w \in Waiters |-> IF w \in S THEN [f[w] EXCEPT !.st = s] ELSE f[w]]
  <1>1. \A v \in Waiters : /\ h[v] \in Row /\ h[v].gen = f[v].gen
                           /\ h[v].st = IF v \in S THEN s ELSE f[v].st
    BY DEF Row
  <1>2. h \in [Waiters -> Row]
    BY <1>1
  <1> QED
    BY <1>1, <1>2

StateBecomes(w, s) ==
    /\ waiter' \in [Waiters -> Row]
    /\ \A v \in Waiters : /\ waiter'[v].gen = waiter[v].gen
                          /\ waiter'[v].st = IF v = w THEN s ELSE waiter[v].st

GenBecomes(w, g) ==
    /\ waiter' \in [Waiters -> Row]
    /\ \A v \in Waiters : /\ waiter'[v].st = waiter[v].st
                          /\ waiter'[v].gen = IF v = w THEN g ELSE waiter[v].gen

RowBecomes(w, s, g) ==
    /\ waiter' \in [Waiters -> Row]
    /\ \A v \in Waiters :
         /\ waiter'[v].gen = IF v = w THEN g ELSE waiter[v].gen
         /\ waiter'[v].st = IF v = w THEN s ELSE waiter[v].st

StatesBecome(S, s) ==
    /\ waiter' \in [Waiters -> Row]
    /\ \A v \in Waiters : /\ waiter'[v].gen = waiter[v].gen
                          /\ waiter'[v].st = IF v \in S THEN s ELSE waiter[v].st

\* What the steps that touch waiters do to them.
LEMMA Rows ==
    ASSUME TypeOK
    PROVE  /\ \A w : Fire(w) => StateBecomes(w, "firing")
           /\ \A w : Resume(w) =>
                 \/ Hold("resuming", waiter[w].gen, w) /\ Wakeable(waiter[w].gen) /\ UNCHANGED waiter
                 \/ /\ route.bound /\ route.gen = waiter[w].gen /\ Frozen
                    /\ StateBecomes(w, "waiting") /\ UNCHANGED op
                 \/ /\ ~(route.bound /\ route.gen = waiter[w].gen)
                    /\ StateBecomes(w, "dropped") /\ UNCHANGED op
           /\ RegisterWaits => RowBecomes(op.who, "waiting", op.gen)
           /\ RegisterResumes => GenBecomes(op.who, op.gen)
           /\ RegisterDrops => RowBecomes(op.who, "dropped", op.gen)
           /\ ResumeArms => StateBecomes(op.who, "armed")
           /\ CancelWaiters =>
                 \/ /\ MayCancel(op.gen) /\ StatesBecome(Active(op.gen), "cancelled")
                    /\ Release \/ Hold("unbinding", op.gen, None)
                 \/ Release /\ UNCHANGED waiter
           /\ Crash => StatesBecome({w \in Waiters : waiter[w].st = "firing"}, "waiting")
  <1> USE DEF TypeOK, Row
  <1>1. waiter \in [Waiters -> Row]
    OBVIOUS
  <1>2. op # None => op.gen \in Gens
    BY DEF Op
  <1> HIDE DEF TypeOK, Row
  <1>0. {"waiting", "firing", "dropped", "armed", "cancelled"} \subseteq WaiterStates
    BY DEF WaiterStates
  <1>3. ASSUME NEW w, NEW s \in WaiterStates, SetWaiter(w, s) PROVE StateBecomes(w, s)
    BY <1>1, <1>3, StateSet DEF SetWaiter, StateBecomes
  <1>4. ASSUME NEW w, NEW s \in WaiterStates, NEW g \in Gens,
               waiter' = [waiter EXCEPT ![w] = [st |-> s, gen |-> g]]
        PROVE  RowBecomes(w, s, g)
    <2>1. /\ waiter' \in [Waiters -> Row]
          /\ \A v \in Waiters : waiter'[v] = IF v = w THEN [st |-> s, gen |-> g] ELSE waiter[v]
      BY <1>1, <1>4, RowSet
    <2> QED
      BY <2>1 DEF RowBecomes
  <1>5. ASSUME NEW S, NEW s \in WaiterStates,
               waiter' = [w \in Waiters |-> IF w \in S THEN [waiter[w] EXCEPT !.st = s]
                                            ELSE waiter[w]]
        PROVE  StatesBecome(S, s)
    <2> DEFINE h == [w \in Waiters |-> IF w \in S THEN [waiter[w] EXCEPT !.st = s]
                                       ELSE waiter[w]]
    <2>1. /\ h \in [Waiters -> Row]
          /\ \A v \in Waiters : /\ h[v].gen = waiter[v].gen
                                /\ h[v].st = IF v \in S THEN s ELSE waiter[v].st
      BY <1>1, StatesMapped
    <2> QED
      BY <1>5, <2>1 DEF StatesBecome
  <1>6. ASSUME NEW w, Fire(w) PROVE StateBecomes(w, "firing")
    BY <1>0, <1>3, <1>6 DEF Fire
  <1>7. ASSUME NEW w, Resume(w)
        PROVE  \/ Hold("resuming", waiter[w].gen, w) /\ Wakeable(waiter[w].gen) /\ UNCHANGED waiter
               \/ /\ route.bound /\ route.gen = waiter[w].gen /\ Frozen
                  /\ StateBecomes(w, "waiting") /\ UNCHANGED op
               \/ /\ ~(route.bound /\ route.gen = waiter[w].gen)
                  /\ StateBecomes(w, "dropped") /\ UNCHANGED op
    BY <1>0, <1>3, <1>7 DEF Resume
  <1>8. RegisterWaits => RowBecomes(op.who, "waiting", op.gen)
    BY <1>0, <1>2, <1>4 DEF RegisterWaits, Holding
  <1>9. RegisterResumes => GenBecomes(op.who, op.gen)
    <2> SUFFICES ASSUME RegisterResumes PROVE GenBecomes(op.who, op.gen)
      OBVIOUS
    <2> DEFINE h == [waiter EXCEPT ![op.who].gen = op.gen]
    <2>1. op.gen \in Gens /\ waiter' = h
      BY <1>2 DEF RegisterResumes, Holding
    <2>2. /\ h \in [Waiters -> Row]
          /\ \A v \in Waiters : /\ h[v].st = waiter[v].st
                                /\ h[v].gen = IF v = op.who THEN op.gen ELSE waiter[v].gen
      BY <1>1, <2>1, GenSet
    <2> HIDE DEF h
    <2> QED BY <2>1, <2>2 DEF GenBecomes
  <1>10. RegisterDrops => RowBecomes(op.who, "dropped", op.gen)
    BY <1>0, <1>2, <1>4 DEF RegisterDrops, Holding
  <1>11. ResumeArms => StateBecomes(op.who, "armed")
    BY <1>0, <1>3 DEF ResumeArms
  <1>12. CancelWaiters =>
            \/ /\ MayCancel(op.gen) /\ StatesBecome(Active(op.gen), "cancelled")
               /\ Release \/ Hold("unbinding", op.gen, None)
            \/ Release /\ UNCHANGED waiter
    BY <1>0, <1>5 DEF CancelWaiters
  <1>13. Crash => StatesBecome({w \in Waiters : waiter[w].st = "firing"}, "waiting")
    <2> DEFINE S == {w \in Waiters : waiter[w].st = "firing"}
    <2> SUFFICES ASSUME Crash PROVE StatesBecome(S, "waiting")
      OBVIOUS
    <2>1. waiter' = [w \in Waiters |-> IF w \in S THEN [waiter[w] EXCEPT !.st = "waiting"]
                                       ELSE waiter[w]]
      BY DEF Crash
    <2> HIDE DEF S
    <2> QED
      BY <1>0, <1>5, <2>1
  <1> QED
    BY <1>6, <1>7, <1>8, <1>9, <1>10, <1>11, <1>12, <1>13

\* Where an unbinding leaves the route.
LEMMA Unbound ==
    ASSUME TypeOK, RollFits, UnbindRoute
    PROVE  /\ NextUnbound \in Gens
           /\ route' \in Route /\ left' \subseteq Gens
           /\ route'.gen = NextUnbound /\ route'.bound = FALSE
           /\ NextUnbound >= route.gen /\ NextUnbound <= route.gen + 1
           /\ roll' = None /\ bind' = None
           /\ last' \in LastRoll
           /\ roll = None => last' = last
           /\ roll # None => /\ last'.token = roll.token /\ last'.state = "aborted"
                             /\ NextUnbound > route.gen
           /\ left' = left \cup {route.gen}
  <1> USE RouteAssumption DEF TypeOK, UnbindRoute, Gens, Tokens, Route, Roll
  <1>1. /\ NextUnbound \in Gens
        /\ NextUnbound >= route.gen /\ NextUnbound <= route.gen + 1
    BY DEF NextUnbound, RollFits
  <1>2. last' \in LastRoll /\ (roll = None => last' = last)
    BY DEF Aborted, LastRoll
  <1>3. roll # None => /\ last'.token = roll.token /\ last'.state = "aborted"
                       /\ NextUnbound > route.gen
    BY DEF Aborted, NextUnbound
  <1> QED
    BY <1>1, <1>2, <1>3

\* Where a takeover or a rebind leaves it.
LEMMA Rebounds ==
    ASSUME TypeOK, NEW c \in Chats, Rebound(c)
    PROVE  /\ route.gen + 1 \in Gens /\ route.gen \in Gens
           /\ route' \in Route
           /\ route'.gen = route.gen + 1 /\ route'.bound = TRUE /\ route'.chat = c
           /\ chatsOf' \in [Gens -> SUBSET Chats]
           /\ \A g \in Gens : chatsOf'[g] = IF g = route.gen + 1 THEN chatsOf[g] \cup {c}
                                          ELSE chatsOf[g]
           /\ byHand' \subseteq Gens /\ byHand' = byHand \cup {route.gen}
  <1>1. route.gen \in Gens /\ route.gen + 1 \in Gens
    BY RouteAssumption DEF TypeOK, Rebound, Gens, Route
  <1>2. /\ route' \in Route
        /\ route'.gen = route.gen + 1 /\ route'.bound = TRUE /\ route'.chat = c
    BY <1>1 DEF Rebound, Route
  <1>3. /\ chatsOf' \in [Gens -> SUBSET Chats]
        /\ \A g \in Gens : chatsOf'[g] = IF g = route.gen + 1 THEN chatsOf[g] \cup {c}
                                       ELSE chatsOf[g]
    BY <1>1 DEF Rebound, TypeOK
  <1>4. byHand' \subseteq Gens /\ byHand' = byHand \cup {route.gen}
    BY <1>1 DEF Rebound, TypeOK
  <1> QED
    BY <1>1, <1>2, <1>3, <1>4

\* A turn more was sent under the token t.
LEMMA Submits ==
    ASSUME sent \in [Tokens -> Nat], NEW t, Submitted(t)
    PROVE  /\ sent' \in [Tokens -> Nat]
           /\ \A u \in Tokens : sent'[u] = IF u = t THEN sent[u] + 1 ELSE sent[u]
  <1>1. /\ DOMAIN sent' = Tokens /\ sent' = [u \in Tokens |-> sent'[u]]
        /\ \A u \in Tokens : sent'[u] = IF u = t THEN sent[t] + 1 ELSE sent[u]
    BY DEF Submitted
  <1>2. \A u \in Tokens : sent'[u] \in Nat
    BY <1>1
  <1> QED
    BY <1>1, <1>2

\* The next generation gets its chat.
LEMMA ChatAdded ==
    ASSUME OneChat, NEW c \in Chats, route.gen \in Nat, \A g \in Gens : g \in Nat,
           route'.gen = route.gen + 1,
           \A g \in Gens : chatsOf'[g] = IF g = route.gen + 1 THEN chatsOf[g] \cup {c}
                                         ELSE chatsOf[g]
    PROVE  OneChat'
  <1> SUFFICES ASSUME NEW g \in Gens
               PROVE  /\ g > route'.gen => chatsOf'[g] = {}
                      /\ chatsOf'[g] = {} \/ \E d \in Chats : chatsOf'[g] = {d}
    BY DEF OneChat
  <1>1. CASE g = route.gen + 1
    <2>1. chatsOf[g] = {}
      BY <1>1 DEF OneChat
    <2>2. chatsOf'[g] = {c}
      BY <1>1, <2>1
    <2> QED
      BY <1>1, <2>2
  <1>2. CASE g # route.gen + 1
    <2>1. chatsOf'[g] = chatsOf[g]
      BY <1>2
    <2>2. g > route'.gen => g > route.gen
      OBVIOUS
    <2>3. /\ g > route.gen => chatsOf[g] = {}
          /\ chatsOf[g] = {} \/ \E d \in Chats : chatsOf[g] = {d}
      BY DEF OneChat
    <2> QED
      BY <2>1, <2>2, <2>3
  <1> QED
    BY <1>1, <1>2

-----------------------------------------------------------------------------
(* Every step keeps each part of the invariant. *)

\* Every step keeps the variables in their domains.
LEMMA TypeStep == IInv /\ [Next]_vars => TypeOK'
  <1> SUFFICES ASSUME IInv, [Next]_vars PROVE TypeOK'
    OBVIOUS
  <1> USE DEF IInv, TypeOK
  <1>a. route.gen \in Gens /\ (op # None => op.gen \in Gens)
        /\ \A w \in Waiters : waiter[w].gen \in Gens
    BY DEF Route, Op
  <1>b. \A k \in {"registering", "resuming", "arming", "delivering", "preparing",
                  "cancelling", "unbinding", "probing", "sending"},
           g \in Gens, w \in Waiters \cup {None} : Hold(k, g, w) => op' \in Op
    BY DEF Hold, Op
  <1>1. CASE UNCHANGED vars
    BY <1>1 DEF vars, registry, history
  <1>2. ASSUME NEW w \in Waiters, RegisterBegins(w) PROVE TypeOK'
    <2>1. op' \in Op
      BY <1>2, <1>a, <1>b DEF RegisterBegins
    <2> QED
      BY <1>2, <2>1 DEF RegisterBegins, registry, history
  <1>3. ASSUME NEW w \in Waiters, Fire(w) PROVE TypeOK'
    <2>1. StateBecomes(w, "firing")
      BY <1>3, Rows
    <2>2. waiter' \in [Waiters -> [st : WaiterStates, gen : Gens]]
      BY <2>1 DEF StateBecomes, Row
    <2> QED
      BY <1>3, <2>2 DEF Fire, registry, history
  <1>4. ASSUME NEW w \in Waiters, Resume(w) PROVE TypeOK'
    <2>1. \/ Hold("resuming", waiter[w].gen, w) /\ Wakeable(waiter[w].gen) /\ UNCHANGED waiter
          \/ /\ route.bound /\ route.gen = waiter[w].gen /\ Frozen
             /\ StateBecomes(w, "waiting") /\ UNCHANGED op
          \/ /\ ~(route.bound /\ route.gen = waiter[w].gen)
             /\ StateBecomes(w, "dropped") /\ UNCHANGED op
      BY <1>4, Rows
    <2>2. op' \in Op \cup {None}
      BY <1>a, <1>b, <2>1
    <2>3. waiter' \in [Waiters -> [st : WaiterStates, gen : Gens]]
      BY <2>1 DEF StateBecomes, Row
    <2> QED
      BY <1>4, <2>2, <2>3 DEF Resume, registry, history
  <1>5. ASSUME NEW g \in Gens, WidgetTakes(g) PROVE TypeOK'
    BY <1>5 DEF WidgetTakes, registry, history
  <1>6. ASSUME NEW g \in Gens, ModelAcks(g) PROVE TypeOK'
    BY <1>6 DEF ModelAcks, registry, history
  <1>7. ASSUME NEW c \in Chats, Candidate(c) PROVE TypeOK'
    <2>1. roll' \in Roll
      BY <1>7 DEF Candidate, Frozen, Roll
    <2> QED
      BY <1>7, <2>1 DEF Candidate, history
  <1>8. ASSUME NEW c \in Chats, Takeover(c) PROVE TypeOK'
    <2>1. route' \in Route /\ chatsOf' \in [Gens -> SUBSET Chats] /\ byHand' \subseteq Gens
      BY <1>8, TypeOK, Rebounds DEF Takeover
    <2> QED
      BY <1>8, <2>1 DEF Takeover
  <1>9. ASSUME NEW c \in Chats, BindCandidate(c) PROVE TypeOK'
    <2>1. bind' \in [src : Gens, chat : Chats \cup {None}]
      BY <1>9 DEF BindCandidate
    <2> QED
      BY <1>9, <2>1 DEF BindCandidate, history
  <1>10. CASE ArmBegins
    <2>1. op' \in Op
      BY <1>10, <1>a, <1>b DEF ArmBegins
    <2> QED
      BY <1>10, <2>1 DEF ArmBegins, registry, history
  <1>11. CASE DeliverBegins
    <2>1. op' \in Op
      BY <1>11, <1>a, <1>b DEF DeliverBegins
    <2>2. wakes' \in [Gens -> {"none", "pending", "out"}]
      BY <1>11 DEF DeliverBegins
    <2> QED
      BY <1>11, <2>1, <2>2 DEF DeliverBegins, registry, history
  <1>12. CASE PrepareBegins
    <2>1. op' \in Op
      BY <1>12, <1>a, <1>b DEF PrepareBegins
    <2> QED
      BY <1>12, <2>1 DEF PrepareBegins, registry, history
  <1>13. CASE BootstrapBegins
    <2>1. op' \in Op
      BY <1>13, <1>a, <1>b DEF BootstrapBegins
    <2> QED
      BY <1>13, <2>1 DEF BootstrapBegins, registry, history
  <1>14. CASE CancelBegins
    <2>1. op' \in Op
      BY <1>14, <1>a, <1>b DEF CancelBegins
    <2>2. wakes' \in [Gens -> {"none", "pending", "out"}]
      BY <1>14 DEF CancelBegins
    <2> QED
      BY <1>14, <2>1, <2>2 DEF CancelBegins, registry, history
  <1>15. CASE RegisterWaits
    <2>1. RowBecomes(op.who, "waiting", op.gen)
      BY <1>15, Rows
    <2>2. waiter' \in [Waiters -> [st : WaiterStates, gen : Gens]]
      BY <2>1 DEF RowBecomes, Row
    <2> QED
      BY <1>15, <2>2 DEF RegisterWaits, Release, registry, history
  <1>16. CASE RegisterResumes
    <2>1. GenBecomes(op.who, op.gen)
      BY <1>16, Rows
    <2>2. op' \in Op
      BY <1>16 DEF RegisterResumes, Holding, Hold, Op
    <2>3. waiter' \in [Waiters -> [st : WaiterStates, gen : Gens]]
      BY <2>1 DEF GenBecomes, Row
    <2> QED
      BY <1>16, <2>2, <2>3 DEF RegisterResumes, registry, history
  <1>17. CASE RegisterDrops
    <2>1. RowBecomes(op.who, "dropped", op.gen)
      BY <1>17, Rows
    <2>2. waiter' \in [Waiters -> [st : WaiterStates, gen : Gens]]
      BY <2>1 DEF RowBecomes, Row
    <2> QED
      BY <1>17, <2>2 DEF RegisterDrops, Release, registry, history
  <1>18. CASE ResumeArms
    <2>1. StateBecomes(op.who, "armed")
      BY <1>18, Rows
    <2>2. waiter' \in [Waiters -> [st : WaiterStates, gen : Gens]]
      BY <2>1 DEF StateBecomes, Row
    <2> QED
      BY <1>18, <2>2 DEF ResumeArms, Release, registry, history
  <1>19. CASE ArmEnds
    <2>1. wakes' \in [Gens -> {"none", "pending", "out"}]
      BY <1>19 DEF ArmEnds
    <2> QED
      BY <1>19, <2>1 DEF ArmEnds, Release, registry, history
  <1>20. CASE DeliverEnds
    <2>1. wakes' \in [Gens -> {"none", "pending", "out"}]
      BY <1>20 DEF DeliverEnds
    <2> QED
      BY <1>20, <2>1 DEF DeliverEnds, Release, registry, history
  <1>21. CASE PrepareEnds
    <2>1. roll' \in Roll \cup {None} /\ rolls' \in 0..MaxRolls
      <3>1. CASE UNCHANGED <<roll, rolls>>
        BY <3>1
      <3>2. CASE /\ rolls < MaxRolls /\ route.gen < MaxGen
                 /\ rolls' = rolls + 1
                 /\ roll' = [token |-> rolls + 1, src |-> route.gen,
                             tgt |-> route.gen + 1, chat |-> None]
        <4>1. rolls + 1 \in Tokens /\ route.gen \in Gens /\ route.gen + 1 \in Gens
          BY <1>a, <3>2, RouteAssumption DEF Tokens, Gens
        <4>2. roll' \in Roll
          BY <3>2, <4>1 DEF Roll
        <4> QED
          BY <3>2, <4>1, <4>2, RouteAssumption DEF Tokens
      <3> QED
        BY <1>21, <3>1, <3>2 DEF PrepareEnds
    <2> QED
      BY <1>21, <2>1 DEF PrepareEnds, Release, history
  <1>22. CASE BootstrapSends
    <2>1. last' \in LastRoll
      BY <1>22 DEF BootstrapSends, LastRoll
    <2>2. op' \in Op \cup {None}
      BY <1>22, <1>a, <1>b DEF BootstrapSends, Holding, Release
    <2> QED
      BY <1>22, <2>1, <2>2 DEF BootstrapSends, history
  <1>23. CASE BootstrapEnds
    <2>1. PICK a \in {"delivered", "uncertain", "not_submitted", "exception"} :
            /\ last' = IF a = "exception" \/ ~Completable THEN last
                       ELSE IF a = "delivered" THEN [last EXCEPT !.state = "complete"]
                       ELSE [last EXCEPT !.delivery = a]
            /\ Submitted(last.token) \/ UNCHANGED sent
      BY <1>23 DEF BootstrapEnds
    <2>2. a = "delivered" => [last EXCEPT !.state = "complete"] \in LastRoll
      BY DEF LastRoll
    <2>3. a \in {"uncertain", "not_submitted"} => [last EXCEPT !.delivery = a] \in LastRoll
      BY DEF LastRoll
    <2>4. last' \in LastRoll
      BY <2>1, <2>2, <2>3
    <2>5. sent' \in [Tokens -> Nat]
      BY <2>1, Submits
    <2> QED
      BY <1>23, <2>4, <2>5 DEF BootstrapEnds, Release, registry, history
  <1>24. CASE CancelWaiters
    <2>1. \/ /\ MayCancel(op.gen) /\ StatesBecome(Active(op.gen), "cancelled")
             /\ Release \/ Hold("unbinding", op.gen, None)
          \/ Release /\ UNCHANGED waiter
      BY <1>24, Rows
    <2>2. waiter' \in [Waiters -> [st : WaiterStates, gen : Gens]]
      BY <2>1 DEF StatesBecome, Row
    <2>3. op' \in Op \cup {None}
      BY <1>24, <1>a, <1>b, <2>1 DEF CancelWaiters, Holding, Release
    <2> QED
      BY <1>24, <2>2, <2>3 DEF CancelWaiters, registry, history
  <1>25. CASE UnbindCancelled
    <2>1. UnbindRoute \/ UNCHANGED <<registry, left>>
      BY <1>25 DEF UnbindCancelled
    <2>2. UnbindRoute => /\ route' \in Route /\ roll' = None /\ bind' = None
                         /\ last' \in LastRoll /\ left' \subseteq Gens
      BY TypeOK, RollFits, Unbound
    <2>3. CASE UnbindRoute
      BY <1>25, <2>2, <2>3 DEF UnbindCancelled, Release
    <2>4. CASE UNCHANGED <<registry, left>>
      BY <1>25, <2>4 DEF UnbindCancelled, Release, registry
    <2> QED
      BY <2>1, <2>3, <2>4
  <1>26. CASE HostReads
    <2>1. host' \in Tokens
      BY <1>26 DEF HostReads, Roll
    <2> QED
      BY <1>26, <2>1 DEF HostReads, registry, history
  <1>27. CASE HostWaits
    BY <1>27 DEF HostWaits, registry, history
  <1>28. CASE Commit
    <2>1. roll \in Roll /\ roll.chat \in Chats
      BY <1>28, NoneAssumption DEF Commit, MayCommit, Current, Roll
    <2>2. route' \in Route
      BY <1>28, <2>1 DEF Commit, Roll, Route
    <2>3. last' \in LastRoll
      BY <1>28, <2>1 DEF Commit, Roll, LastRoll
    <2>4. chatsOf' \in [Gens -> SUBSET Chats] /\ left' \subseteq Gens
      BY <1>28, <1>a, <2>1 DEF Commit
    <2> QED
      BY <1>28, <2>2, <2>3, <2>4 DEF Commit
  <1>29. CASE Abort
    <2>1. CASE last' = Aborted /\ roll' = None /\ Current(host)
      <3>1. last' \in LastRoll
        BY <2>1, NoneAssumption DEF Aborted, Current, Roll, LastRoll
      <3> QED
        BY <1>29, <2>1, <3>1 DEF Abort, history
    <2>2. CASE UNCHANGED <<last, roll>>
      BY <1>29, <2>2 DEF Abort, history
    <2> QED
      BY <1>29, <2>1, <2>2 DEF Abort
  <1>30. CASE BindPrepares
    <2>1. bind' \in [src : Gens, chat : Chats \cup {None}]
      BY <1>30, <1>a DEF BindPrepares
    <2> QED
      BY <1>30, <2>1 DEF BindPrepares, history
  <1>31. CASE BindCompletes
    <2>1. /\ bind.chat \in Chats /\ bind' = None
          /\ UNCHANGED <<roll, last, op, wakes, waiter, host, rolls, crashes, left, sent>>
      BY <1>31 DEF BindCompletes, MayBind
    <2>2. CASE UNCHANGED <<route, chatsOf, byHand>>
      BY <2>1, <2>2
    <2>3. CASE Rebound(bind.chat)
      <3>1. /\ route' \in Route /\ chatsOf' \in [Gens -> SUBSET Chats]
            /\ byHand' \subseteq Gens
        BY <2>1, <2>3, TypeOK, Rebounds
      <3> QED
        BY <2>1, <3>1
    <2> QED
      BY <1>31, <2>2, <2>3 DEF BindCompletes
  <1>32. CASE BindExpires
    BY <1>32 DEF BindExpires, registry, history
  <1>33. CASE Unbind
    <2>1. /\ route' \in Route /\ roll' = None /\ bind' = None
          /\ last' \in LastRoll /\ left' \subseteq Gens
      BY <1>33, TypeOK, RollFits, Unbound DEF Unbind
    <2> QED
      BY <1>33, <2>1 DEF Unbind
  <1>34. CASE Crash
    <2>1. StatesBecome({v \in Waiters : waiter[v].st = "firing"}, "waiting")
      BY <1>34, Rows
    <2>2. waiter' \in [Waiters -> [st : WaiterStates, gen : Gens]]
      BY <2>1 DEF StatesBecome, Row
    <2>3. sent' \in [Tokens -> Nat]
      BY <1>34 DEF Crash, Submitted
    <2>4. crashes' \in 0..MaxCrashes
      BY <1>34, RouteAssumption DEF Crash
    <2> QED
      BY <1>34, <2>2, <2>3, <2>4 DEF Crash, Release, registry
  <1> QED
    BY <1>1, <1>2, <1>3, <1>4, <1>5, <1>6, <1>7, <1>8, <1>9, <1>10, <1>11,
       <1>12, <1>13, <1>14, <1>15, <1>16, <1>17, <1>18, <1>19,
       <1>20, <1>21, <1>22, <1>23, <1>24, <1>25, <1>26, <1>27,
       <1>28, <1>29, <1>30, <1>31, <1>32, <1>33, <1>34
    DEF Next, OpEnds

\* No waiter is dropped but after a move by hand.
LEMMA DroppedStep == IInv /\ [Next]_vars => DroppedByHand'
  <1> SUFFICES ASSUME IInv, [Next]_vars PROVE DroppedByHand'
    OBVIOUS
  <1> USE RouteAssumption, NoneAssumption DEF IInv, DroppedByHand
  <1>t. /\ waiter \in [Waiters -> Row]
        /\ route.gen \in Gens /\ route.gen \in Nat /\ Gens \subseteq Nat /\ route.bound \in BOOLEAN
        /\ op # None => op.gen \in Gens /\ op.gen \in Nat
        /\ wakes \in [Gens -> {"none", "pending", "out"}]
        /\ roll # None => /\ roll.tgt \in Gens /\ roll.src \in Gens
                          /\ roll.token \in Tokens
        /\ \A w \in Waiters : waiter[w].gen \in Gens /\ waiter[w].gen \in Nat
        /\ left \subseteq Gens /\ byHand \subseteq Gens
    BY DEF TypeOK, Gens, Op, Route, Row, Roll
  <1> USE <1>t
  <1>0. UNCHANGED <<waiter, byHand>> => DroppedByHand'
    OBVIOUS
  <1>1. CASE UNCHANGED vars
    BY <1>1, <1>0 DEF vars, registry, history
  <1>2. ASSUME NEW w \in Waiters, RegisterBegins(w)
        PROVE  DroppedByHand'
    BY <1>2, <1>0 DEF RegisterBegins, registry, history
  <1>3. ASSUME NEW w \in Waiters, Fire(w) PROVE DroppedByHand'
    <2>1. StateBecomes(w, "firing")
      BY <1>3, Rows
    <2> QED
      BY <1>3, <2>1 DEF Fire, StateBecomes, registry, history
  <1>4. ASSUME NEW w \in Waiters, Resume(w) PROVE DroppedByHand'
    <2>1. \/ Hold("resuming", waiter[w].gen, w) /\ Wakeable(waiter[w].gen) /\ UNCHANGED waiter
          \/ /\ route.bound /\ route.gen = waiter[w].gen /\ Frozen
             /\ StateBecomes(w, "waiting") /\ UNCHANGED op
          \/ /\ ~(route.bound /\ route.gen = waiter[w].gen)
             /\ StateBecomes(w, "dropped") /\ UNCHANGED op
      BY <1>4, Rows
    <2>2. Free /\ waiter[w].st = "firing" /\ byHand' = byHand
      BY <1>4 DEF Resume, history
    <2>3. ~Quiet(waiter[w].gen)
      BY <2>2 DEF Quiet, Active
    <2>4. waiter[w].gen <= route.gen
      BY <2>2, <2>3 DEF Free, Ahead, Reached
    <2>5. waiter[w].gen = route.gen => route.bound
      BY <2>3 DEF AsleepIsQuiet, Asleep
    <2>6. waiter[w].gen < route.gen => waiter[w].gen \in byHand
      BY <2>2 DEF OvertakenByHand
    <2> QED
      BY <2>1, <2>2, <2>4, <2>5, <2>6 DEF StateBecomes
  <1>5. ASSUME NEW g \in Gens, WidgetTakes(g) \/ ModelAcks(g)
        PROVE  DroppedByHand'
    BY <1>5, <1>0 DEF WidgetTakes, ModelAcks, registry, history
  <1>6. ASSUME NEW c \in Chats, Candidate(c) \/ BindCandidate(c)
        PROVE  DroppedByHand'
    BY <1>6, <1>0 DEF Candidate, BindCandidate, registry, history
  <1>7. ASSUME NEW c \in Chats, Takeover(c) PROVE DroppedByHand'
    <2>1. route'.gen = route.gen + 1 /\ route'.bound = TRUE /\ byHand' = byHand \cup {route.gen}
      BY <1>7, Rebounds DEF Takeover
    <2>2. roll = None /\ UNCHANGED <<roll, last, bind, op, wakes, waiter, host, rolls, crashes, left, sent>>
      BY <1>7 DEF Takeover
    <2> QED
      BY <2>1, <2>2
  <1>8. CASE \/ ArmBegins \/ DeliverBegins \/ PrepareBegins
            \/ BootstrapBegins \/ CancelBegins \/ ArmEnds \/ DeliverEnds
            \/ PrepareEnds \/ BootstrapSends \/ BootstrapEnds
            \/ UnbindCancelled \/ HostReads \/ HostWaits \/ Commit
            \/ Abort \/ BindPrepares \/ BindExpires \/ Unbind
    BY <1>8, <1>0 DEF ArmBegins, DeliverBegins, PrepareBegins, BootstrapBegins,
       CancelBegins, ArmEnds, DeliverEnds, PrepareEnds,
       BootstrapSends, BootstrapEnds, UnbindCancelled, HostReads,
       HostWaits, Commit, Abort, BindPrepares, BindExpires, Unbind,
       registry, history
  <1>9. CASE RegisterWaits
    <2>1. RowBecomes(op.who, "waiting", op.gen)
      BY <1>9, Rows
    <2> QED
      BY <1>9, <2>1 DEF RegisterWaits, Holding, Release, RowBecomes, registry, history
  <1>10. CASE RegisterResumes
    <2>1. GenBecomes(op.who, op.gen)
      BY <1>10, Rows
    <2>2. waiter[op.who].st = "none" \/ op.who \notin Waiters
      BY <1>10 DEF RegisterResumes, Registers
    <2> QED
      BY <1>10, <2>1, <2>2 DEF RegisterResumes, GenBecomes, history
  <1>11. CASE RegisterDrops
    <2>1. RowBecomes(op.who, "dropped", op.gen)
      BY <1>11, Rows
    <2>2. op.gen \in byHand
      BY <1>11 DEF RegisterDrops, Registers, Wakeable
    <2> QED
      BY <1>11, <2>1, <2>2 DEF RegisterDrops, RowBecomes, history
  <1>12. CASE ResumeArms
    <2>1. StateBecomes(op.who, "armed")
      BY <1>12, Rows
    <2> QED
      BY <1>12, <2>1 DEF ResumeArms, Holding, Release, StateBecomes, registry, history
  <1>13. CASE CancelWaiters
    <2>1. \/ /\ MayCancel(op.gen) /\ StatesBecome(Active(op.gen), "cancelled")
             /\ Release \/ Hold("unbinding", op.gen, None)
          \/ Release /\ UNCHANGED waiter
      BY <1>13, Rows
    <2> QED
      BY <1>13, <2>1 DEF CancelWaiters, Holding, Release, Hold, MayCancel, StatesBecome,
       registry, history
  <1>14. CASE BindCompletes
    <2>1. bind.chat \in Chats
      BY <1>14 DEF BindCompletes, MayBind, TypeOK
    <2>2. UNCHANGED <<roll, last, op, wakes, waiter, host, rolls, crashes, left, sent>>
      BY <1>14 DEF BindCompletes
    <2>3. CASE UNCHANGED <<route, chatsOf, byHand>>
      BY <2>2, <2>3, <1>0
    <2>4. CASE Rebound(bind.chat)
      <3>1. route'.gen = route.gen + 1 /\ route'.bound = TRUE /\ byHand' = byHand \cup {route.gen}
        BY <2>1, <2>4, Rebounds
      <3> QED
        BY <2>2, <3>1
    <2> QED
      BY <1>14, <2>3, <2>4 DEF BindCompletes
  <1>15. CASE Crash
    <2>1. StatesBecome({v \in Waiters : waiter[v].st = "firing"}, "waiting")
      BY <1>15, Rows
    <2> QED
      BY <1>15, <2>1 DEF Crash, Release, Holding, Submitted, StatesBecome, registry,
       history
  <1> QED
    BY <1>1, <1>2, <1>3, <1>4, <1>5, <1>6, <1>7, <1>8, <1>9, <1>10, <1>11,
       <1>12, <1>13, <1>14, <1>15
    DEF Next, OpEnds

\* An older generation with an active waiter was ended by hand.
LEMMA OvertakenStep == IInv /\ [Next]_vars => OvertakenByHand'
  <1> SUFFICES ASSUME IInv, [Next]_vars PROVE OvertakenByHand'
    OBVIOUS
  <1> USE RouteAssumption, NoneAssumption DEF IInv, OvertakenByHand, Active
  <1>t. /\ waiter \in [Waiters -> Row]
        /\ route.gen \in Gens /\ route.gen \in Nat /\ Gens \subseteq Nat /\ route.bound \in BOOLEAN
        /\ op # None => op.gen \in Gens /\ op.gen \in Nat
        /\ wakes \in [Gens -> {"none", "pending", "out"}]
        /\ roll # None => /\ roll.tgt \in Gens /\ roll.src \in Gens
                          /\ roll.token \in Tokens
        /\ \A w \in Waiters : waiter[w].gen \in Gens /\ waiter[w].gen \in Nat
        /\ left \subseteq Gens /\ byHand \subseteq Gens
    BY DEF TypeOK, Gens, Op, Route, Row, Roll
  <1> USE <1>t
  <1>0. UNCHANGED <<waiter, route, byHand>> => OvertakenByHand'
    OBVIOUS
  <1>1. CASE UNCHANGED vars
    BY <1>1, <1>0 DEF vars, registry, history
  <1>2. ASSUME NEW w \in Waiters, RegisterBegins(w)
        PROVE  OvertakenByHand'
    BY <1>2, <1>0 DEF RegisterBegins, registry, history
  <1>3. ASSUME NEW w \in Waiters, Fire(w) PROVE OvertakenByHand'
    <2>1. StateBecomes(w, "firing")
      BY <1>3, Rows
    <2> QED
      BY <1>3, <2>1 DEF Fire, StateBecomes, registry, history
  <1>4. ASSUME NEW w \in Waiters, Resume(w) PROVE OvertakenByHand'
    <2>1. \/ Hold("resuming", waiter[w].gen, w) /\ Wakeable(waiter[w].gen) /\ UNCHANGED waiter
          \/ /\ route.bound /\ route.gen = waiter[w].gen /\ Frozen
             /\ StateBecomes(w, "waiting") /\ UNCHANGED op
          \/ /\ ~(route.bound /\ route.gen = waiter[w].gen)
             /\ StateBecomes(w, "dropped") /\ UNCHANGED op
      BY <1>4, Rows
    <2> QED
      BY <1>4, <2>1 DEF Resume, Free, Wakeable, Frozen, Hold, StateBecomes, registry,
       history
  <1>5. ASSUME NEW g \in Gens, WidgetTakes(g) \/ ModelAcks(g)
        PROVE  OvertakenByHand'
    BY <1>5, <1>0 DEF WidgetTakes, ModelAcks, registry, history
  <1>6. ASSUME NEW c \in Chats, Candidate(c) \/ BindCandidate(c)
        PROVE  OvertakenByHand'
    BY <1>6, <1>0 DEF Candidate, BindCandidate, registry, history
  <1>7. ASSUME NEW c \in Chats, Takeover(c) PROVE OvertakenByHand'
    <2>1. route'.gen = route.gen + 1 /\ route'.bound = TRUE /\ byHand' = byHand \cup {route.gen}
      BY <1>7, Rebounds DEF Takeover
    <2>2. roll = None /\ UNCHANGED <<roll, last, bind, op, wakes, waiter, host, rolls, crashes, left, sent>>
      BY <1>7 DEF Takeover
    <2> QED
      BY <2>1, <2>2
  <1>8. CASE \/ ArmBegins \/ DeliverBegins \/ PrepareBegins
            \/ BootstrapBegins \/ CancelBegins \/ ArmEnds \/ DeliverEnds
            \/ PrepareEnds \/ BootstrapSends \/ BootstrapEnds \/ HostReads
            \/ HostWaits \/ Abort \/ BindPrepares \/ BindExpires
    BY <1>8, <1>0 DEF ArmBegins, DeliverBegins, PrepareBegins, BootstrapBegins,
       CancelBegins, ArmEnds, DeliverEnds, PrepareEnds,
       BootstrapSends, BootstrapEnds, HostReads, HostWaits, Abort,
       BindPrepares, BindExpires, registry, history
  <1>9. CASE RegisterWaits
    <2>1. RowBecomes(op.who, "waiting", op.gen)
      BY <1>9, Rows
    <2>2. op.gen \in byHand \/ op.gen = route.gen
      BY <1>9 DEF RegisterWaits, Registers
    <2> QED
      BY <1>9, <2>1, <2>2 DEF RegisterWaits, RowBecomes, registry, history
  <1>10. CASE RegisterResumes
    <2>1. GenBecomes(op.who, op.gen)
      BY <1>10, Rows
    <2> QED
      BY <1>10, <2>1 DEF RegisterResumes, Holding, Hold, Wakeable, Frozen, GenBecomes,
       registry, history
  <1>11. CASE RegisterDrops
    <2>1. RowBecomes(op.who, "dropped", op.gen)
      BY <1>11, Rows
    <2> QED
      BY <1>11, <2>1 DEF RegisterDrops, Holding, Release, Wakeable, Frozen, RowBecomes,
       registry, history
  <1>12. CASE ResumeArms
    <2>1. StateBecomes(op.who, "armed")
      BY <1>12, Rows
    <2> QED
      BY <1>12, <2>1 DEF ResumeArms, Holding, Release, StateBecomes, registry, history
  <1>13. CASE CancelWaiters
    <2>1. \/ /\ MayCancel(op.gen) /\ StatesBecome(Active(op.gen), "cancelled")
             /\ Release \/ Hold("unbinding", op.gen, None)
          \/ Release /\ UNCHANGED waiter
      BY <1>13, Rows
    <2> QED
      BY <1>13, <2>1 DEF CancelWaiters, Holding, Release, Hold, MayCancel, StatesBecome,
       registry, history
  <1>14. CASE UnbindCancelled
    <2>1. /\ op' = None /\ op # None
          /\ UNCHANGED <<wakes, waiter, host, rolls, crashes, chatsOf, byHand, sent>>
      BY <1>14 DEF UnbindCancelled, Holding, Release
    <2>2. CASE UnbindRoute /\ QuietFor(op.gen) /\ wakes[op.gen] = "none" /\ route.gen = op.gen
      <3>1. /\ route'.gen \in Gens /\ route'.gen \in Nat /\ route'.bound = FALSE
            /\ route'.gen >= route.gen /\ route'.gen <= route.gen + 1
            /\ roll' = None /\ left' = left \cup {route.gen}
        BY <2>2, Unbound
      <3> QED
        BY <2>1, <2>2, <3>1 DEF QuietFor
    <2>3. CASE UNCHANGED <<registry, left>>
      BY <2>1, <2>3 DEF registry
    <2> QED
      BY <1>14, <2>2, <2>3 DEF UnbindCancelled
  <1>15. CASE Commit
    <2>1. /\ UNCHANGED <<waiter, byHand>> /\ route'.gen = route.gen + 1
      BY <1>15 DEF Commit, MayCommit, Current, Frozen, RollFits
    <2>2. \A w \in Waiters : waiter[w].gen = route.gen => waiter[w].st \notin {"waiting", "firing"}
      BY <1>15 DEF Commit, MayCommit, Frozen, AsleepIsQuiet, Asleep, Quiet, Active
    <2> QED
      BY <2>1, <2>2
  <1>16. CASE BindCompletes
    <2>1. bind.chat \in Chats
      BY <1>16 DEF BindCompletes, MayBind, TypeOK
    <2>2. UNCHANGED <<roll, last, op, wakes, waiter, host, rolls, crashes, left, sent>>
      BY <1>16 DEF BindCompletes
    <2>3. CASE UNCHANGED <<route, chatsOf, byHand>>
      BY <2>2, <2>3, <1>0
    <2>4. CASE Rebound(bind.chat)
      <3>1. route'.gen = route.gen + 1 /\ route'.bound = TRUE /\ byHand' = byHand \cup {route.gen}
        BY <2>1, <2>4, Rebounds
      <3> QED
        BY <2>2, <3>1
    <2> QED
      BY <1>16, <2>3, <2>4 DEF BindCompletes
  <1>17. CASE Unbind
    <2>1. /\ Free /\ QuietFor(route.gen) /\ wakes[route.gen] = "none"
          /\ UNCHANGED <<op, wakes, waiter, host, rolls, crashes, chatsOf, byHand, sent>>
      BY <1>17 DEF Unbind
    <2>2. /\ route'.gen \in Gens /\ route'.gen \in Nat /\ route'.bound = FALSE
          /\ route'.gen >= route.gen /\ route'.gen <= route.gen + 1
          /\ roll' = None /\ left' = left \cup {route.gen}
      BY <1>17, Unbound DEF Unbind
    <2> QED
      BY <2>1, <2>2 DEF Free, QuietFor
  <1>18. CASE Crash
    <2>1. StatesBecome({v \in Waiters : waiter[v].st = "firing"}, "waiting")
      BY <1>18, Rows
    <2> QED
      BY <1>18, <2>1 DEF Crash, Release, Holding, Submitted, StatesBecome, registry,
       history
  <1> QED
    BY <1>1, <1>2, <1>3, <1>4, <1>5, <1>6, <1>7, <1>8, <1>9, <1>10, <1>11,
       <1>12, <1>13, <1>14, <1>15, <1>16, <1>17, <1>18
    DEF Next, OpEnds

\* A registration stays on the bound generation or one ended by hand.
LEMMA RegistersStep == IInv /\ [Next]_vars => Registers'
  <1> SUFFICES ASSUME IInv, [Next]_vars PROVE Registers'
    OBVIOUS
  <1> USE RouteAssumption, NoneAssumption DEF IInv, Registers, Holding
  <1>t. /\ waiter \in [Waiters -> Row]
        /\ route.gen \in Gens /\ route.gen \in Nat /\ Gens \subseteq Nat /\ route.bound \in BOOLEAN
        /\ op # None => op.gen \in Gens /\ op.gen \in Nat
        /\ wakes \in [Gens -> {"none", "pending", "out"}]
        /\ roll # None => /\ roll.tgt \in Gens /\ roll.src \in Gens
                          /\ roll.token \in Tokens
        /\ \A w \in Waiters : waiter[w].gen \in Gens /\ waiter[w].gen \in Nat
        /\ left \subseteq Gens /\ byHand \subseteq Gens
    BY DEF TypeOK, Gens, Op, Route, Row, Roll
  <1> USE <1>t
  <1>0. UNCHANGED <<op, waiter, byHand, route>> => Registers'
    OBVIOUS
  <1>1. CASE UNCHANGED vars
    BY <1>1, <1>0 DEF vars, registry, history
  <1>2. ASSUME NEW w \in Waiters, RegisterBegins(w) PROVE Registers'
    BY <1>2 DEF RegisterBegins, Free, Wakeable, Frozen, Hold, registry, history
  <1>3. ASSUME NEW w \in Waiters, Fire(w) PROVE Registers'
    <2>1. StateBecomes(w, "firing")
      BY <1>3, Rows
    <2> QED
      BY <1>3, <2>1 DEF Fire, StateBecomes, registry, history
  <1>4. ASSUME NEW w \in Waiters, Resume(w) PROVE Registers'
    <2>1. \/ Hold("resuming", waiter[w].gen, w) /\ Wakeable(waiter[w].gen) /\ UNCHANGED waiter
          \/ /\ route.bound /\ route.gen = waiter[w].gen /\ Frozen
             /\ StateBecomes(w, "waiting") /\ UNCHANGED op
          \/ /\ ~(route.bound /\ route.gen = waiter[w].gen)
             /\ StateBecomes(w, "dropped") /\ UNCHANGED op
      BY <1>4, Rows
    <2> QED
      BY <1>4, <2>1 DEF Resume, Free, Wakeable, Frozen, Hold, StateBecomes, registry,
       history
  <1>5. ASSUME NEW g \in Gens, WidgetTakes(g) \/ ModelAcks(g)
        PROVE  Registers'
    BY <1>5, <1>0 DEF WidgetTakes, ModelAcks, registry, history
  <1>6. ASSUME NEW c \in Chats, Candidate(c) \/ BindCandidate(c)
        PROVE  Registers'
    BY <1>6, <1>0 DEF Candidate, BindCandidate, registry, history
  <1>7. ASSUME NEW c \in Chats, Takeover(c) PROVE Registers'
    <2>1. route'.gen = route.gen + 1 /\ route'.bound = TRUE /\ byHand' = byHand \cup {route.gen}
      BY <1>7, Rebounds DEF Takeover
    <2>2. roll = None /\ UNCHANGED <<roll, last, bind, op, wakes, waiter, host, rolls, crashes, left, sent>>
      BY <1>7 DEF Takeover
    <2> QED
      BY <2>1, <2>2
  <1>8. CASE HostReads \/ HostWaits \/ Abort \/ BindPrepares \/ BindExpires
    BY <1>8, <1>0 DEF HostReads, HostWaits, Abort, BindPrepares, BindExpires, registry,
       history
  <1>9. CASE ArmBegins
    BY <1>9 DEF ArmBegins, Free, Wakeable, Frozen, Hold, registry, history
  <1>10. CASE DeliverBegins
    BY <1>10 DEF DeliverBegins, Free, Hold, registry, history
  <1>11. CASE PrepareBegins
    BY <1>11 DEF PrepareBegins, Free, Hold, registry, history
  <1>12. CASE BootstrapBegins
    BY <1>12 DEF BootstrapBegins, Free, Hold, MayBootstrap, Completable, registry,
       history
  <1>13. CASE CancelBegins
    BY <1>13 DEF CancelBegins, Free, Hold, registry, history
  <1>14. CASE RegisterWaits
    <2>1. RowBecomes(op.who, "waiting", op.gen)
      BY <1>14, Rows
    <2> QED
      BY <1>14, <2>1 DEF RegisterWaits, Holding, Release, RowBecomes, registry, history
  <1>15. CASE RegisterResumes
    <2>1. GenBecomes(op.who, op.gen)
      BY <1>15, Rows
    <2> QED
      BY <1>15, <2>1 DEF RegisterResumes, Holding, Hold, Wakeable, Frozen, GenBecomes,
       registry, history
  <1>16. CASE RegisterDrops
    <2>1. RowBecomes(op.who, "dropped", op.gen)
      BY <1>16, Rows
    <2> QED
      BY <1>16, <2>1 DEF RegisterDrops, Holding, Release, Wakeable, Frozen, RowBecomes,
       registry, history
  <1>17. CASE ResumeArms
    <2>1. StateBecomes(op.who, "armed")
      BY <1>17, Rows
    <2> QED
      BY <1>17, <2>1 DEF ResumeArms, Holding, Release, StateBecomes, registry, history
  <1>18. CASE ArmEnds
    BY <1>18 DEF ArmEnds, Holding, Release, registry, history
  <1>19. CASE DeliverEnds
    BY <1>19 DEF DeliverEnds, Holding, Release, registry, history
  <1>20. CASE PrepareEnds
    BY <1>20 DEF PrepareEnds, Holding, Release, registry, history
  <1>21. CASE BootstrapSends
    BY <1>21 DEF BootstrapSends, Holding, Release, Hold, registry, history
  <1>22. CASE BootstrapEnds
    BY <1>22 DEF BootstrapEnds, Holding, Release, Submitted, registry, history
  <1>23. CASE CancelWaiters
    <2>1. \/ /\ MayCancel(op.gen) /\ StatesBecome(Active(op.gen), "cancelled")
             /\ Release \/ Hold("unbinding", op.gen, None)
          \/ Release /\ UNCHANGED waiter
      BY <1>23, Rows
    <2> QED
      BY <1>23, <2>1 DEF CancelWaiters, Holding, Release, Hold, MayCancel, StatesBecome,
       registry, history
  <1>24. CASE UnbindCancelled
    <2>1. /\ op' = None /\ op # None
          /\ UNCHANGED <<wakes, waiter, host, rolls, crashes, chatsOf, byHand, sent>>
      BY <1>24 DEF UnbindCancelled, Holding, Release
    <2>2. CASE UnbindRoute /\ QuietFor(op.gen) /\ wakes[op.gen] = "none" /\ route.gen = op.gen
      <3>1. /\ route'.gen \in Gens /\ route'.gen \in Nat /\ route'.bound = FALSE
            /\ route'.gen >= route.gen /\ route'.gen <= route.gen + 1
            /\ roll' = None /\ left' = left \cup {route.gen}
        BY <2>2, Unbound
      <3> QED
        BY <2>1, <2>2, <3>1 DEF QuietFor
    <2>3. CASE UNCHANGED <<registry, left>>
      BY <2>1, <2>3 DEF registry
    <2> QED
      BY <1>24, <2>2, <2>3 DEF UnbindCancelled
  <1>25. CASE Commit
    <2>1. /\ roll # None /\ roll.src = route.gen /\ Free
          /\ route'.gen = roll.tgt /\ roll' = None /\ left' = left \cup {route.gen}
          /\ route'.gen = route.gen + 1 /\ route'.bound = TRUE
          /\ UNCHANGED <<bind, op, wakes, waiter, rolls, crashes, byHand, sent>>
      BY <1>25 DEF Commit, MayCommit, Current, Frozen, RollFits
    <2> QED
      BY <2>1 DEF Free
  <1>26. CASE BindCompletes
    <2>1. bind.chat \in Chats
      BY <1>26 DEF BindCompletes, MayBind, TypeOK
    <2>2. UNCHANGED <<roll, last, op, wakes, waiter, host, rolls, crashes, left, sent>>
      BY <1>26 DEF BindCompletes
    <2>3. CASE UNCHANGED <<route, chatsOf, byHand>>
      BY <2>2, <2>3, <1>0
    <2>4. CASE Rebound(bind.chat)
      <3>1. route'.gen = route.gen + 1 /\ route'.bound = TRUE /\ byHand' = byHand \cup {route.gen}
        BY <2>1, <2>4, Rebounds
      <3> QED
        BY <2>2, <3>1
    <2> QED
      BY <1>26, <2>3, <2>4 DEF BindCompletes
  <1>27. CASE Unbind
    <2>1. /\ Free /\ QuietFor(route.gen) /\ wakes[route.gen] = "none"
          /\ UNCHANGED <<op, wakes, waiter, host, rolls, crashes, chatsOf, byHand, sent>>
      BY <1>27 DEF Unbind
    <2>2. /\ route'.gen \in Gens /\ route'.gen \in Nat /\ route'.bound = FALSE
          /\ route'.gen >= route.gen /\ route'.gen <= route.gen + 1
          /\ roll' = None /\ left' = left \cup {route.gen}
      BY <1>27, Unbound DEF Unbind
    <2> QED
      BY <2>1, <2>2 DEF Free, QuietFor
  <1>28. CASE Crash
    <2>1. StatesBecome({v \in Waiters : waiter[v].st = "firing"}, "waiting")
      BY <1>28, Rows
    <2> QED
      BY <1>28, <2>1 DEF Crash, Release, Holding, Submitted, StatesBecome, registry,
       history
  <1> QED
    BY <1>1, <1>2, <1>3, <1>4, <1>5, <1>6, <1>7, <1>8, <1>9, <1>10, <1>11,
       <1>12, <1>13, <1>14, <1>15, <1>16, <1>17, <1>18, <1>19,
       <1>20, <1>21, <1>22, <1>23, <1>24, <1>25, <1>26, <1>27,
       <1>28
    DEF Next, OpEnds

\* Nobody arms the wake of a generation while its rollover is being prepared.
LEMMA PreparesStep == IInv /\ [Next]_vars => Prepares'
  <1> SUFFICES ASSUME IInv, [Next]_vars PROVE Prepares'
    OBVIOUS
  <1> USE RouteAssumption, NoneAssumption DEF IInv, Prepares, Holding
  <1>t. /\ waiter \in [Waiters -> Row]
        /\ route.gen \in Gens /\ route.gen \in Nat /\ Gens \subseteq Nat /\ route.bound \in BOOLEAN
        /\ op # None => op.gen \in Gens /\ op.gen \in Nat
        /\ wakes \in [Gens -> {"none", "pending", "out"}]
        /\ roll # None => /\ roll.tgt \in Gens /\ roll.src \in Gens
                          /\ roll.token \in Tokens
        /\ \A w \in Waiters : waiter[w].gen \in Gens /\ waiter[w].gen \in Nat
        /\ left \subseteq Gens /\ byHand \subseteq Gens
    BY DEF TypeOK, Gens, Op, Route, Row, Roll
  <1> USE <1>t
  <1>0. UNCHANGED <<op, wakes>> => Prepares'
    OBVIOUS
  <1>1. CASE UNCHANGED vars
    BY <1>1, <1>0 DEF vars, registry, history
  <1>2. ASSUME NEW w \in Waiters, Fire(w)
        PROVE  Prepares'
    BY <1>2, <1>0 DEF Fire, registry, history
  <1>3. ASSUME NEW w \in Waiters, RegisterBegins(w) PROVE Prepares'
    BY <1>3 DEF RegisterBegins, Free, Wakeable, Frozen, Hold, registry, history
  <1>4. ASSUME NEW w \in Waiters, Resume(w) PROVE Prepares'
    <2>1. \/ Hold("resuming", waiter[w].gen, w) /\ Wakeable(waiter[w].gen) /\ UNCHANGED waiter
          \/ /\ route.bound /\ route.gen = waiter[w].gen /\ Frozen
             /\ StateBecomes(w, "waiting") /\ UNCHANGED op
          \/ /\ ~(route.bound /\ route.gen = waiter[w].gen)
             /\ StateBecomes(w, "dropped") /\ UNCHANGED op
      BY <1>4, Rows
    <2> QED
      BY <1>4, <2>1 DEF Resume, Free, Wakeable, Frozen, Hold, StateBecomes, registry,
       history
  <1>5. ASSUME NEW g \in Gens, WidgetTakes(g) PROVE Prepares'
    BY <1>5 DEF WidgetTakes, registry, history
  <1>6. ASSUME NEW g \in Gens, ModelAcks(g) PROVE Prepares'
    BY <1>6 DEF ModelAcks, registry, history
  <1>7. ASSUME NEW c \in Chats, Candidate(c) \/ Takeover(c) \/ BindCandidate(c)
        PROVE  Prepares'
    BY <1>7, <1>0 DEF Candidate, Takeover, BindCandidate, registry, history
  <1>8. CASE \/ HostReads \/ HostWaits \/ Commit \/ Abort \/ BindPrepares
            \/ BindCompletes \/ BindExpires \/ Unbind
    BY <1>8, <1>0 DEF HostReads, HostWaits, Commit, Abort, BindPrepares, BindCompletes,
       BindExpires, Unbind, registry, history
  <1>9. CASE ArmBegins
    BY <1>9 DEF ArmBegins, Free, Wakeable, Frozen, Hold, registry, history
  <1>10. CASE DeliverBegins
    BY <1>10 DEF DeliverBegins, Free, Hold, registry, history
  <1>11. CASE PrepareBegins
    BY <1>11 DEF PrepareBegins, Free, Hold, registry, history
  <1>12. CASE BootstrapBegins
    BY <1>12 DEF BootstrapBegins, Free, Hold, MayBootstrap, Completable, registry,
       history
  <1>13. CASE CancelBegins
    BY <1>13 DEF CancelBegins, Free, Hold, registry, history
  <1>14. CASE RegisterWaits
    <2>1. RowBecomes(op.who, "waiting", op.gen)
      BY <1>14, Rows
    <2> QED
      BY <1>14, <2>1 DEF RegisterWaits, Holding, Release, RowBecomes, registry, history
  <1>15. CASE RegisterResumes
    <2>1. GenBecomes(op.who, op.gen)
      BY <1>15, Rows
    <2> QED
      BY <1>15, <2>1 DEF RegisterResumes, Holding, Hold, Wakeable, Frozen, GenBecomes,
       registry, history
  <1>16. CASE RegisterDrops
    <2>1. RowBecomes(op.who, "dropped", op.gen)
      BY <1>16, Rows
    <2> QED
      BY <1>16, <2>1 DEF RegisterDrops, Holding, Release, Wakeable, Frozen, RowBecomes,
       registry, history
  <1>17. CASE ResumeArms
    <2>1. StateBecomes(op.who, "armed")
      BY <1>17, Rows
    <2> QED
      BY <1>17, <2>1 DEF ResumeArms, Holding, Release, StateBecomes, registry, history
  <1>18. CASE ArmEnds
    BY <1>18 DEF ArmEnds, Holding, Release, registry, history
  <1>19. CASE DeliverEnds
    BY <1>19 DEF DeliverEnds, Holding, Release, registry, history
  <1>20. CASE PrepareEnds
    BY <1>20 DEF PrepareEnds, Holding, Release, registry, history
  <1>21. CASE BootstrapSends
    BY <1>21 DEF BootstrapSends, Holding, Release, Hold, registry, history
  <1>22. CASE BootstrapEnds
    BY <1>22 DEF BootstrapEnds, Holding, Release, Submitted, registry, history
  <1>23. CASE CancelWaiters
    <2>1. \/ /\ MayCancel(op.gen) /\ StatesBecome(Active(op.gen), "cancelled")
             /\ Release \/ Hold("unbinding", op.gen, None)
          \/ Release /\ UNCHANGED waiter
      BY <1>23, Rows
    <2> QED
      BY <1>23, <2>1 DEF CancelWaiters, Holding, Release, Hold, MayCancel, StatesBecome,
       registry, history
  <1>24. CASE UnbindCancelled
    <2>1. /\ op' = None /\ op # None
          /\ UNCHANGED <<wakes, waiter, host, rolls, crashes, chatsOf, byHand, sent>>
      BY <1>24 DEF UnbindCancelled, Holding, Release
    <2>2. CASE UnbindRoute /\ QuietFor(op.gen) /\ wakes[op.gen] = "none" /\ route.gen = op.gen
      <3>1. /\ route'.gen \in Gens /\ route'.gen \in Nat /\ route'.bound = FALSE
            /\ route'.gen >= route.gen /\ route'.gen <= route.gen + 1
            /\ roll' = None /\ left' = left \cup {route.gen}
        BY <2>2, Unbound
      <3> QED
        BY <2>1, <2>2, <3>1 DEF QuietFor
    <2>3. CASE UNCHANGED <<registry, left>>
      BY <2>1, <2>3 DEF registry
    <2> QED
      BY <1>24, <2>2, <2>3 DEF UnbindCancelled
  <1>25. CASE Crash
    <2>1. StatesBecome({v \in Waiters : waiter[v].st = "firing"}, "waiting")
      BY <1>25, Rows
    <2> QED
      BY <1>25, <2>1 DEF Crash, Release, Holding, Submitted, StatesBecome, registry,
       history
  <1> QED
    BY <1>1, <1>2, <1>3, <1>4, <1>5, <1>6, <1>7, <1>8, <1>9, <1>10, <1>11,
       <1>12, <1>13, <1>14, <1>15, <1>16, <1>17, <1>18, <1>19,
       <1>20, <1>21, <1>22, <1>23, <1>24, <1>25
    DEF Next, OpEnds

\* Nothing is known of a generation that is not reached yet.
LEMMA AheadStep == IInv /\ [Next]_vars => Ahead'
  <1> SUFFICES ASSUME IInv, [Next]_vars PROVE Ahead'
    OBVIOUS
  <1> USE RouteAssumption, NoneAssumption DEF IInv, Ahead, Reached, Quiet, Active
  <1>t. /\ waiter \in [Waiters -> Row]
        /\ route.gen \in Gens /\ route.gen \in Nat /\ Gens \subseteq Nat /\ route.bound \in BOOLEAN
        /\ op # None => op.gen \in Gens /\ op.gen \in Nat
        /\ wakes \in [Gens -> {"none", "pending", "out"}]
        /\ roll # None => /\ roll.tgt \in Gens /\ roll.src \in Gens
                          /\ roll.token \in Tokens
        /\ \A w \in Waiters : waiter[w].gen \in Gens /\ waiter[w].gen \in Nat
        /\ left \subseteq Gens /\ byHand \subseteq Gens
    BY DEF TypeOK, Gens, Op, Route, Row, Roll
  <1> USE <1>t
  <1>0. UNCHANGED <<op, route, wakes, waiter>> => Ahead'
    OBVIOUS
  <1>1. CASE UNCHANGED vars
    BY <1>1, <1>0 DEF vars, registry, history
  <1>2. ASSUME NEW w \in Waiters, RegisterBegins(w) PROVE Ahead'
    BY <1>2 DEF RegisterBegins, Free, Wakeable, Frozen, Hold, registry, history
  <1>3. ASSUME NEW w \in Waiters, Fire(w) PROVE Ahead'
    <2>1. StateBecomes(w, "firing")
      BY <1>3, Rows
    <2> QED
      BY <1>3, <2>1 DEF Fire, StateBecomes, registry, history
  <1>4. ASSUME NEW w \in Waiters, Resume(w) PROVE Ahead'
    <2>1. \/ Hold("resuming", waiter[w].gen, w) /\ Wakeable(waiter[w].gen) /\ UNCHANGED waiter
          \/ /\ route.bound /\ route.gen = waiter[w].gen /\ Frozen
             /\ StateBecomes(w, "waiting") /\ UNCHANGED op
          \/ /\ ~(route.bound /\ route.gen = waiter[w].gen)
             /\ StateBecomes(w, "dropped") /\ UNCHANGED op
      BY <1>4, Rows
    <2> QED
      BY <1>4, <2>1 DEF Resume, Free, Wakeable, Frozen, Hold, StateBecomes, registry,
       history
  <1>5. ASSUME NEW g \in Gens, WidgetTakes(g) PROVE Ahead'
    BY <1>5 DEF WidgetTakes, registry, history
  <1>6. ASSUME NEW g \in Gens, ModelAcks(g) PROVE Ahead'
    BY <1>6 DEF ModelAcks, registry, history
  <1>7. ASSUME NEW c \in Chats, Candidate(c) \/ BindCandidate(c)
        PROVE  Ahead'
    BY <1>7, <1>0 DEF Candidate, BindCandidate, registry, history
  <1>8. ASSUME NEW c \in Chats, Takeover(c) PROVE Ahead'
    <2>1. route'.gen = route.gen + 1 /\ route'.bound = TRUE /\ byHand' = byHand \cup {route.gen}
      BY <1>8, Rebounds DEF Takeover
    <2>2. roll = None /\ UNCHANGED <<roll, last, bind, op, wakes, waiter, host, rolls, crashes, left, sent>>
      BY <1>8 DEF Takeover
    <2> QED
      BY <2>1, <2>2
  <1>9. CASE HostReads \/ HostWaits \/ Abort \/ BindPrepares \/ BindExpires
    BY <1>9, <1>0 DEF HostReads, HostWaits, Abort, BindPrepares, BindExpires, registry,
       history
  <1>10. CASE ArmBegins
    BY <1>10 DEF ArmBegins, Free, Wakeable, Frozen, Hold, registry, history
  <1>11. CASE DeliverBegins
    BY <1>11 DEF DeliverBegins, Free, Hold, registry, history
  <1>12. CASE PrepareBegins
    BY <1>12 DEF PrepareBegins, Free, Hold, registry, history
  <1>13. CASE BootstrapBegins
    BY <1>13 DEF BootstrapBegins, Free, Hold, MayBootstrap, Completable, registry,
       history
  <1>14. CASE CancelBegins
    BY <1>14 DEF CancelBegins, Free, Hold, registry, history
  <1>15. CASE RegisterWaits
    <2>1. RowBecomes(op.who, "waiting", op.gen)
      BY <1>15, Rows
    <2> QED
      BY <1>15, <2>1 DEF RegisterWaits, Holding, Release, RowBecomes, registry, history
  <1>16. CASE RegisterResumes
    <2>1. GenBecomes(op.who, op.gen)
      BY <1>16, Rows
    <2> QED
      BY <1>16, <2>1 DEF RegisterResumes, Holding, Hold, Wakeable, Frozen, GenBecomes,
       registry, history
  <1>17. CASE RegisterDrops
    <2>1. RowBecomes(op.who, "dropped", op.gen)
      BY <1>17, Rows
    <2> QED
      BY <1>17, <2>1 DEF RegisterDrops, Holding, Release, Wakeable, Frozen, RowBecomes,
       registry, history
  <1>18. CASE ResumeArms
    <2>1. StateBecomes(op.who, "armed")
      BY <1>18, Rows
    <2> QED
      BY <1>18, <2>1 DEF ResumeArms, Holding, Release, StateBecomes, registry, history
  <1>19. CASE ArmEnds
    BY <1>19 DEF ArmEnds, Holding, Release, registry, history
  <1>20. CASE DeliverEnds
    BY <1>20 DEF DeliverEnds, Holding, Release, registry, history
  <1>21. CASE PrepareEnds
    BY <1>21 DEF PrepareEnds, Holding, Release, registry, history
  <1>22. CASE BootstrapSends
    BY <1>22 DEF BootstrapSends, Holding, Release, Hold, registry, history
  <1>23. CASE BootstrapEnds
    BY <1>23 DEF BootstrapEnds, Holding, Release, Submitted, registry, history
  <1>24. CASE CancelWaiters
    <2>1. \/ /\ MayCancel(op.gen) /\ StatesBecome(Active(op.gen), "cancelled")
             /\ Release \/ Hold("unbinding", op.gen, None)
          \/ Release /\ UNCHANGED waiter
      BY <1>24, Rows
    <2> QED
      BY <1>24, <2>1 DEF CancelWaiters, Holding, Release, Hold, MayCancel, StatesBecome,
       registry, history
  <1>25. CASE UnbindCancelled
    <2>1. /\ op' = None /\ op # None
          /\ UNCHANGED <<wakes, waiter, host, rolls, crashes, chatsOf, byHand, sent>>
      BY <1>25 DEF UnbindCancelled, Holding, Release
    <2>2. CASE UnbindRoute /\ QuietFor(op.gen) /\ wakes[op.gen] = "none" /\ route.gen = op.gen
      <3>1. /\ route'.gen \in Gens /\ route'.gen \in Nat /\ route'.bound = FALSE
            /\ route'.gen >= route.gen /\ route'.gen <= route.gen + 1
            /\ roll' = None /\ left' = left \cup {route.gen}
        BY <2>2, Unbound
      <3> QED
        BY <2>1, <2>2, <3>1 DEF QuietFor
    <2>3. CASE UNCHANGED <<registry, left>>
      BY <2>1, <2>3 DEF registry
    <2> QED
      BY <1>25, <2>2, <2>3 DEF UnbindCancelled
  <1>26. CASE Commit
    <2>1. /\ roll # None /\ roll.src = route.gen /\ Free
          /\ route'.gen = roll.tgt /\ roll' = None /\ left' = left \cup {route.gen}
          /\ route'.gen = route.gen + 1 /\ route'.bound = TRUE
          /\ UNCHANGED <<bind, op, wakes, waiter, rolls, crashes, byHand, sent>>
      BY <1>26 DEF Commit, MayCommit, Current, Frozen, RollFits
    <2> QED
      BY <2>1 DEF Free
  <1>27. CASE BindCompletes
    <2>1. bind.chat \in Chats
      BY <1>27 DEF BindCompletes, MayBind, TypeOK
    <2>2. UNCHANGED <<roll, last, op, wakes, waiter, host, rolls, crashes, left, sent>>
      BY <1>27 DEF BindCompletes
    <2>3. CASE UNCHANGED <<route, chatsOf, byHand>>
      BY <2>2, <2>3, <1>0
    <2>4. CASE Rebound(bind.chat)
      <3>1. route'.gen = route.gen + 1 /\ route'.bound = TRUE /\ byHand' = byHand \cup {route.gen}
        BY <2>1, <2>4, Rebounds
      <3> QED
        BY <2>2, <3>1
    <2> QED
      BY <1>27, <2>3, <2>4 DEF BindCompletes
  <1>28. CASE Unbind
    <2>1. /\ Free /\ QuietFor(route.gen) /\ wakes[route.gen] = "none"
          /\ UNCHANGED <<op, wakes, waiter, host, rolls, crashes, chatsOf, byHand, sent>>
      BY <1>28 DEF Unbind
    <2>2. /\ route'.gen \in Gens /\ route'.gen \in Nat /\ route'.bound = FALSE
          /\ route'.gen >= route.gen /\ route'.gen <= route.gen + 1
          /\ roll' = None /\ left' = left \cup {route.gen}
      BY <1>28, Unbound DEF Unbind
    <2> QED
      BY <2>1, <2>2 DEF Free, QuietFor
  <1>29. CASE Crash
    <2>1. StatesBecome({v \in Waiters : waiter[v].st = "firing"}, "waiting")
      BY <1>29, Rows
    <2> QED
      BY <1>29, <2>1 DEF Crash, Release, Holding, Submitted, StatesBecome, registry,
       history
  <1> QED
    BY <1>1, <1>2, <1>3, <1>4, <1>5, <1>6, <1>7, <1>8, <1>9, <1>10, <1>11,
       <1>12, <1>13, <1>14, <1>15, <1>16, <1>17, <1>18, <1>19,
       <1>20, <1>21, <1>22, <1>23, <1>24, <1>25, <1>26, <1>27,
       <1>28, <1>29
    DEF Next, OpEnds

\* A generation that was left is not bound again.
LEMMA PastStep == IInv /\ [Next]_vars => Past'
  <1> SUFFICES ASSUME IInv, [Next]_vars PROVE Past'
    OBVIOUS
  <1> USE RouteAssumption, NoneAssumption DEF IInv, Past
  <1>t. /\ waiter \in [Waiters -> Row]
        /\ route.gen \in Gens /\ route.gen \in Nat /\ Gens \subseteq Nat /\ route.bound \in BOOLEAN
        /\ op # None => op.gen \in Gens /\ op.gen \in Nat
        /\ wakes \in [Gens -> {"none", "pending", "out"}]
        /\ roll # None => /\ roll.tgt \in Gens /\ roll.src \in Gens
                          /\ roll.token \in Tokens
        /\ \A w \in Waiters : waiter[w].gen \in Gens /\ waiter[w].gen \in Nat
        /\ left \subseteq Gens /\ byHand \subseteq Gens
    BY DEF TypeOK, Gens, Op, Route, Row, Roll
  <1> USE <1>t
  <1>0. UNCHANGED <<left, route>> => Past'
    OBVIOUS
  <1>1. CASE UNCHANGED vars
    BY <1>1, <1>0 DEF vars, registry, history
  <1>2. ASSUME NEW w \in Waiters, RegisterBegins(w) \/ Fire(w) \/ Resume(w)
        PROVE  Past'
    BY <1>2, <1>0 DEF RegisterBegins, Fire, Resume, registry, history
  <1>3. ASSUME NEW g \in Gens, WidgetTakes(g) \/ ModelAcks(g)
        PROVE  Past'
    BY <1>3, <1>0 DEF WidgetTakes, ModelAcks, registry, history
  <1>4. ASSUME NEW c \in Chats, Candidate(c) \/ BindCandidate(c)
        PROVE  Past'
    BY <1>4, <1>0 DEF Candidate, BindCandidate, registry, history
  <1>5. ASSUME NEW c \in Chats, Takeover(c) PROVE Past'
    <2>1. route'.gen = route.gen + 1 /\ route'.bound = TRUE /\ byHand' = byHand \cup {route.gen}
      BY <1>5, Rebounds DEF Takeover
    <2>2. roll = None /\ UNCHANGED <<roll, last, bind, op, wakes, waiter, host, rolls, crashes, left, sent>>
      BY <1>5 DEF Takeover
    <2> QED
      BY <2>1, <2>2
  <1>6. CASE \/ ArmBegins \/ DeliverBegins \/ PrepareBegins
            \/ BootstrapBegins \/ CancelBegins \/ RegisterWaits
            \/ RegisterResumes \/ RegisterDrops \/ ResumeArms \/ ArmEnds
            \/ DeliverEnds \/ PrepareEnds \/ BootstrapSends
            \/ BootstrapEnds \/ CancelWaiters \/ HostReads \/ HostWaits
            \/ Abort \/ BindPrepares \/ BindExpires \/ Crash
    BY <1>6, <1>0 DEF ArmBegins, DeliverBegins, PrepareBegins, BootstrapBegins,
       CancelBegins, RegisterWaits, RegisterResumes, RegisterDrops,
       ResumeArms, ArmEnds, DeliverEnds, PrepareEnds,
       BootstrapSends, BootstrapEnds, CancelWaiters, HostReads,
       HostWaits, Abort, BindPrepares, BindExpires, Crash,
       registry, history
  <1>7. CASE UnbindCancelled
    <2>1. /\ op' = None /\ op # None
          /\ UNCHANGED <<wakes, waiter, host, rolls, crashes, chatsOf, byHand, sent>>
      BY <1>7 DEF UnbindCancelled, Holding, Release
    <2>2. CASE UnbindRoute /\ QuietFor(op.gen) /\ wakes[op.gen] = "none" /\ route.gen = op.gen
      <3>1. /\ route'.gen \in Gens /\ route'.gen \in Nat /\ route'.bound = FALSE
            /\ route'.gen >= route.gen /\ route'.gen <= route.gen + 1
            /\ roll' = None /\ left' = left \cup {route.gen}
        BY <2>2, Unbound
      <3> QED
        BY <2>1, <2>2, <3>1 DEF QuietFor
    <2>3. CASE UNCHANGED <<registry, left>>
      BY <2>1, <2>3 DEF registry
    <2> QED
      BY <1>7, <2>2, <2>3 DEF UnbindCancelled
  <1>8. CASE Commit
    <2>1. /\ roll # None /\ roll.src = route.gen /\ Free
          /\ route'.gen = roll.tgt /\ roll' = None /\ left' = left \cup {route.gen}
          /\ route'.gen = route.gen + 1 /\ route'.bound = TRUE
          /\ UNCHANGED <<bind, op, wakes, waiter, rolls, crashes, byHand, sent>>
      BY <1>8 DEF Commit, MayCommit, Current, Frozen, RollFits
    <2> QED
      BY <2>1 DEF Free
  <1>9. CASE BindCompletes
    <2>1. bind.chat \in Chats
      BY <1>9 DEF BindCompletes, MayBind, TypeOK
    <2>2. UNCHANGED <<roll, last, op, wakes, waiter, host, rolls, crashes, left, sent>>
      BY <1>9 DEF BindCompletes
    <2>3. CASE UNCHANGED <<route, chatsOf, byHand>>
      BY <2>2, <2>3, <1>0
    <2>4. CASE Rebound(bind.chat)
      <3>1. route'.gen = route.gen + 1 /\ route'.bound = TRUE /\ byHand' = byHand \cup {route.gen}
        BY <2>1, <2>4, Rebounds
      <3> QED
        BY <2>2, <3>1
    <2> QED
      BY <1>9, <2>3, <2>4 DEF BindCompletes
  <1>10. CASE Unbind
    <2>1. /\ Free /\ QuietFor(route.gen) /\ wakes[route.gen] = "none"
          /\ UNCHANGED <<op, wakes, waiter, host, rolls, crashes, chatsOf, byHand, sent>>
      BY <1>10 DEF Unbind
    <2>2. /\ route'.gen \in Gens /\ route'.gen \in Nat /\ route'.bound = FALSE
          /\ route'.gen >= route.gen /\ route'.gen <= route.gen + 1
          /\ roll' = None /\ left' = left \cup {route.gen}
      BY <1>10, Unbound DEF Unbind
    <2> QED
      BY <2>1, <2>2 DEF Free, QuietFor
  <1> QED
    BY <1>1, <1>2, <1>3, <1>4, <1>5, <1>6, <1>7, <1>8, <1>9, <1>10
    DEF Next, OpEnds

\* What is left, unbound or frozen is quiet and stays so.
LEMMA AsleepStep == IInv /\ [Next]_vars => AsleepIsQuiet'
  <1> SUFFICES ASSUME IInv, [Next]_vars PROVE AsleepIsQuiet'
    OBVIOUS
  <1> USE RouteAssumption, NoneAssumption DEF IInv, AsleepIsQuiet, Asleep, Quiet, Active, Frozen, Past
  <1>t. /\ waiter \in [Waiters -> Row]
        /\ route.gen \in Gens /\ route.gen \in Nat /\ Gens \subseteq Nat /\ route.bound \in BOOLEAN
        /\ op # None => op.gen \in Gens /\ op.gen \in Nat
        /\ wakes \in [Gens -> {"none", "pending", "out"}]
        /\ roll # None => /\ roll.tgt \in Gens /\ roll.src \in Gens
                          /\ roll.token \in Tokens
        /\ \A w \in Waiters : waiter[w].gen \in Gens /\ waiter[w].gen \in Nat
        /\ left \subseteq Gens /\ byHand \subseteq Gens
    BY DEF TypeOK, Gens, Op, Route, Row, Roll
  <1> USE <1>t
  <1>0. UNCHANGED <<left, roll, route, wakes, waiter, op>> => AsleepIsQuiet'
    OBVIOUS
  <1>1. CASE UNCHANGED vars
    BY <1>1, <1>0 DEF vars, registry, history
  <1>2. ASSUME NEW w \in Waiters, RegisterBegins(w) PROVE AsleepIsQuiet'
    BY <1>2 DEF RegisterBegins, Free, Wakeable, Frozen, Hold, registry, history
  <1>3. ASSUME NEW w \in Waiters, Fire(w) PROVE AsleepIsQuiet'
    <2>1. StateBecomes(w, "firing")
      BY <1>3, Rows
    <2> QED
      BY <1>3, <2>1 DEF Fire, StateBecomes, registry, history
  <1>4. ASSUME NEW w \in Waiters, Resume(w) PROVE AsleepIsQuiet'
    <2>1. \/ Hold("resuming", waiter[w].gen, w) /\ Wakeable(waiter[w].gen) /\ UNCHANGED waiter
          \/ /\ route.bound /\ route.gen = waiter[w].gen /\ Frozen
             /\ StateBecomes(w, "waiting") /\ UNCHANGED op
          \/ /\ ~(route.bound /\ route.gen = waiter[w].gen)
             /\ StateBecomes(w, "dropped") /\ UNCHANGED op
      BY <1>4, Rows
    <2> QED
      BY <1>4, <2>1 DEF Resume, Free, Wakeable, Frozen, Hold, StateBecomes, registry,
       history
  <1>5. ASSUME NEW g \in Gens, WidgetTakes(g) PROVE AsleepIsQuiet'
    BY <1>5 DEF WidgetTakes, registry, history
  <1>6. ASSUME NEW g \in Gens, ModelAcks(g) PROVE AsleepIsQuiet'
    BY <1>6 DEF ModelAcks, registry, history
  <1>7. ASSUME NEW c \in Chats, BindCandidate(c)
        PROVE  AsleepIsQuiet'
    BY <1>7, <1>0 DEF BindCandidate, registry, history
  <1>8. ASSUME NEW c \in Chats, Candidate(c) PROVE AsleepIsQuiet'
    BY <1>8 DEF Candidate, Free, Current, Frozen, registry, history
  <1>9. ASSUME NEW c \in Chats, Takeover(c) PROVE AsleepIsQuiet'
    <2>1. route'.gen = route.gen + 1 /\ route'.bound = TRUE /\ byHand' = byHand \cup {route.gen}
      BY <1>9, Rebounds DEF Takeover
    <2>2. roll = None /\ UNCHANGED <<roll, last, bind, op, wakes, waiter, host, rolls, crashes, left, sent>>
      BY <1>9 DEF Takeover
    <2> QED
      BY <2>1, <2>2
  <1>10. CASE HostReads \/ HostWaits \/ BindPrepares \/ BindExpires
    BY <1>10, <1>0 DEF HostReads, HostWaits, BindPrepares, BindExpires, registry, history
  <1>11. CASE ArmBegins
    BY <1>11 DEF ArmBegins, Free, Wakeable, Frozen, Hold, registry, history
  <1>12. CASE DeliverBegins
    BY <1>12 DEF DeliverBegins, Free, Hold, registry, history
  <1>13. CASE PrepareBegins
    BY <1>13 DEF PrepareBegins, Free, Hold, registry, history
  <1>14. CASE BootstrapBegins
    BY <1>14 DEF BootstrapBegins, Free, Hold, MayBootstrap, Completable, registry,
       history
  <1>15. CASE CancelBegins
    BY <1>15 DEF CancelBegins, Free, Hold, registry, history
  <1>16. CASE RegisterWaits
    <2>1. RowBecomes(op.who, "waiting", op.gen)
      BY <1>16, Rows
    <2> QED
      BY <1>16, <2>1 DEF RegisterWaits, Holding, Release, RowBecomes, registry, history
  <1>17. CASE RegisterResumes
    <2>1. GenBecomes(op.who, op.gen)
      BY <1>17, Rows
    <2> QED
      BY <1>17, <2>1 DEF RegisterResumes, Holding, Hold, Wakeable, Frozen, GenBecomes,
       registry, history
  <1>18. CASE RegisterDrops
    <2>1. RowBecomes(op.who, "dropped", op.gen)
      BY <1>18, Rows
    <2> QED
      BY <1>18, <2>1 DEF RegisterDrops, Holding, Release, Wakeable, Frozen, RowBecomes,
       registry, history
  <1>19. CASE ResumeArms
    <2>1. StateBecomes(op.who, "armed")
      BY <1>19, Rows
    <2> QED
      BY <1>19, <2>1 DEF ResumeArms, Holding, Release, StateBecomes, registry, history
  <1>20. CASE ArmEnds
    BY <1>20 DEF ArmEnds, Holding, Release, registry, history
  <1>21. CASE DeliverEnds
    BY <1>21 DEF DeliverEnds, Holding, Release, registry, history
  <1>22. CASE PrepareEnds
    <2>1. /\ op' = None /\ op # None
          /\ UNCHANGED <<route, last, bind, wakes, waiter, left>>
      BY <1>22 DEF PrepareEnds, Holding, Release, history
    <2>2. CASE UNCHANGED roll
      BY <2>1, <2>2
    <2>3. CASE QuietFor(op.gen)
      <3>1. wakes[op.gen] = "none" /\ Quiet(op.gen)
        BY <1>22, <2>3 DEF Prepares, PrepareEnds, QuietFor
      <3>2. route.gen # op.gen => Quiet(route.gen)
        <4>1. route.gen # op.gen => route.gen > Reached
          BY <2>1 DEF Ahead, Reached
        <4> QED
          BY <4>1 DEF Ahead
      <3> QED
        BY <2>1, <3>1, <3>2
    <2> QED
      BY <1>22, <2>2, <2>3 DEF PrepareEnds
  <1>23. CASE BootstrapSends
    BY <1>23 DEF BootstrapSends, Holding, Release, Hold, registry, history
  <1>24. CASE BootstrapEnds
    BY <1>24 DEF BootstrapEnds, Holding, Release, Submitted, registry, history
  <1>25. CASE CancelWaiters
    <2>1. \/ /\ MayCancel(op.gen) /\ StatesBecome(Active(op.gen), "cancelled")
             /\ Release \/ Hold("unbinding", op.gen, None)
          \/ Release /\ UNCHANGED waiter
      BY <1>25, Rows
    <2> QED
      BY <1>25, <2>1 DEF CancelWaiters, Holding, Release, Hold, MayCancel, StatesBecome,
       registry, history
  <1>26. CASE UnbindCancelled
    <2>1. /\ op' = None /\ op # None
          /\ UNCHANGED <<wakes, waiter, host, rolls, crashes, chatsOf, byHand, sent>>
      BY <1>26 DEF UnbindCancelled, Holding, Release
    <2>2. CASE UnbindRoute /\ QuietFor(op.gen) /\ wakes[op.gen] = "none" /\ route.gen = op.gen
      <3>1. /\ route'.gen \in Gens /\ route'.gen \in Nat /\ route'.bound = FALSE
            /\ route'.gen >= route.gen /\ route'.gen <= route.gen + 1
            /\ roll' = None /\ left' = left \cup {route.gen}
        BY <2>2, Unbound
      <3>2. Quiet(route.gen) /\ Quiet(route'.gen)
        <4>1. Quiet(route.gen)
          BY <2>2 DEF QuietFor
        <4>2. route'.gen # route.gen => route'.gen > Reached /\ route'.gen \in Gens
          BY <2>1, <2>2, <3>1 DEF Reached
        <4> QED
          BY <4>1, <4>2 DEF Ahead
      <3> QED
        BY <2>1, <3>1, <3>2
    <2>3. CASE UNCHANGED <<registry, left>>
      BY <2>1, <2>3 DEF registry
    <2> QED
      BY <1>26, <2>2, <2>3 DEF UnbindCancelled
  <1>27. CASE Commit
    <2>1. /\ roll # None /\ roll.src = route.gen /\ Free
          /\ route'.gen = roll.tgt /\ roll' = None /\ left' = left \cup {route.gen}
          /\ route'.gen = route.gen + 1 /\ route'.bound = TRUE
          /\ UNCHANGED <<bind, op, wakes, waiter, rolls, crashes, byHand, sent>>
      BY <1>27 DEF Commit, MayCommit, Current, Frozen, RollFits
    <2> QED
      BY <2>1 DEF Free
  <1>28. CASE Abort
    BY <1>28 DEF Abort, Free, Current, Aborted, registry, history
  <1>29. CASE BindCompletes
    <2>1. bind.chat \in Chats
      BY <1>29 DEF BindCompletes, MayBind, TypeOK
    <2>2. UNCHANGED <<roll, last, op, wakes, waiter, host, rolls, crashes, left, sent>>
      BY <1>29 DEF BindCompletes
    <2>3. CASE UNCHANGED <<route, chatsOf, byHand>>
      BY <2>2, <2>3, <1>0
    <2>4. CASE Rebound(bind.chat)
      <3>1. route'.gen = route.gen + 1 /\ route'.bound = TRUE /\ byHand' = byHand \cup {route.gen}
        BY <2>1, <2>4, Rebounds
      <3>2. ~Frozen'
        BY <2>2, <3>1 DEF RollFits
      <3> QED
        BY <2>2, <3>1, <3>2
    <2> QED
      BY <1>29, <2>3, <2>4 DEF BindCompletes
  <1>30. CASE Unbind
    <2>1. /\ Free /\ QuietFor(route.gen) /\ wakes[route.gen] = "none"
          /\ UNCHANGED <<op, wakes, waiter, host, rolls, crashes, chatsOf, byHand, sent>>
      BY <1>30 DEF Unbind
    <2>2. /\ route'.gen \in Gens /\ route'.gen \in Nat /\ route'.bound = FALSE
          /\ route'.gen >= route.gen /\ route'.gen <= route.gen + 1
          /\ roll' = None /\ left' = left \cup {route.gen}
      BY <1>30, Unbound DEF Unbind
    <2>3. Quiet(route.gen) /\ Quiet(route'.gen)
      <3>1. Quiet(route.gen)
        BY <2>1 DEF QuietFor
      <3>2. route'.gen # route.gen => route'.gen > Reached /\ route'.gen \in Gens
        BY <2>1, <2>2 DEF Reached, Free
      <3> QED
        BY <3>1, <3>2 DEF Ahead
    <2> QED
      BY <2>1, <2>2, <2>3 DEF Free
  <1>31. CASE Crash
    <2>1. StatesBecome({v \in Waiters : waiter[v].st = "firing"}, "waiting")
      BY <1>31, Rows
    <2> QED
      BY <1>31, <2>1 DEF Crash, Release, Holding, Submitted, StatesBecome, registry,
       history
  <1> QED
    BY <1>1, <1>2, <1>3, <1>4, <1>5, <1>6, <1>7, <1>8, <1>9, <1>10, <1>11,
       <1>12, <1>13, <1>14, <1>15, <1>16, <1>17, <1>18, <1>19,
       <1>20, <1>21, <1>22, <1>23, <1>24, <1>25, <1>26, <1>27,
       <1>28, <1>29, <1>30, <1>31
    DEF Next, OpEnds

\* The token of a pending rollover was never used.
LEMMA RollStep == IInv /\ [Next]_vars => RollFits'
  <1> SUFFICES ASSUME IInv, [Next]_vars PROVE RollFits'
    OBVIOUS
  <1> USE RouteAssumption, NoneAssumption DEF IInv, RollFits
  <1>t. /\ roll # None => /\ roll.token \in Tokens /\ roll.src \in Nat /\ roll.tgt \in Nat
                          /\ roll.token \in Nat
        /\ last.token \in Nat
        /\ rolls \in Nat /\ route.gen \in Nat /\ Tokens \subseteq Nat
        /\ sent \in [Tokens -> Nat] /\ \A t \in Tokens : sent[t] \in Nat
    BY DEF TypeOK, Gens, Route, Roll, LastRoll, Tokens
  <1> USE <1>t
  <1>0. UNCHANGED <<roll, route, rolls, last, sent>> => RollFits'
    OBVIOUS
  <1>1. CASE UNCHANGED vars
    BY <1>1, <1>0 DEF vars, registry, history
  <1>2. ASSUME NEW w \in Waiters, RegisterBegins(w) \/ Fire(w) \/ Resume(w)
        PROVE  RollFits'
    BY <1>2, <1>0 DEF RegisterBegins, Fire, Resume, registry, history
  <1>3. ASSUME NEW g \in Gens, WidgetTakes(g) \/ ModelAcks(g)
        PROVE  RollFits'
    BY <1>3, <1>0 DEF WidgetTakes, ModelAcks, registry, history
  <1>4. ASSUME NEW c \in Chats, BindCandidate(c)
        PROVE  RollFits'
    BY <1>4, <1>0 DEF BindCandidate, registry, history
  <1>5. ASSUME NEW c \in Chats, Candidate(c) PROVE RollFits'
    <2>1. /\ roll # None /\ roll'.token = roll.token
          /\ roll'.src = roll.src /\ roll'.tgt = roll.tgt
      BY <1>5 DEF Candidate, Current, TypeOK, Roll
    <2>2. UNCHANGED <<route, last, rolls, sent>>
      BY <1>5 DEF Candidate, history
    <2> QED
      BY <2>1, <2>2
  <1>6. ASSUME NEW c \in Chats, Takeover(c) PROVE RollFits'
    <2>1. route'.gen = route.gen + 1 /\ route'.bound = TRUE /\ byHand' = byHand \cup {route.gen}
      BY <1>6, Rebounds DEF Takeover
    <2>2. roll = None /\ UNCHANGED <<roll, last, bind, op, wakes, waiter, host, rolls, crashes, left, sent>>
      BY <1>6 DEF Takeover
    <2> QED
      BY <2>1, <2>2
  <1>7. CASE \/ ArmBegins \/ DeliverBegins \/ PrepareBegins
            \/ BootstrapBegins \/ CancelBegins \/ RegisterWaits
            \/ RegisterResumes \/ RegisterDrops \/ ResumeArms \/ ArmEnds
            \/ DeliverEnds \/ CancelWaiters \/ HostReads \/ HostWaits
            \/ BindPrepares \/ BindExpires
    BY <1>7, <1>0 DEF ArmBegins, DeliverBegins, PrepareBegins, BootstrapBegins,
       CancelBegins, RegisterWaits, RegisterResumes, RegisterDrops,
       ResumeArms, ArmEnds, DeliverEnds, CancelWaiters, HostReads,
       HostWaits, BindPrepares, BindExpires, registry, history
  <1>8. CASE PrepareEnds
    <2>1. UNCHANGED <<route, last, sent>>
      BY <1>8 DEF PrepareEnds, history
    <2>2. \/ UNCHANGED <<roll, rolls>>
          \/ /\ rolls' = rolls + 1 /\ rolls + 1 \in Tokens
             /\ roll'.token = rolls + 1 /\ roll'.src = route.gen /\ roll'.tgt = route.gen + 1
      BY <1>8, RouteAssumption DEF PrepareEnds, Tokens
    <2>3. rolls + 1 \in Tokens => sent[rolls + 1] = 0 /\ last.token # rolls + 1
      BY DEF Unsent
    <2> QED
      BY <2>1, <2>2, <2>3
  <1>9. CASE BootstrapSends
    <2>1. last'.token = last.token
      BY <1>9 DEF BootstrapSends, TypeOK, LastRoll
    <2>2. UNCHANGED <<route, roll, rolls, sent>>
      BY <1>9 DEF BootstrapSends, history
    <2> QED
      BY <2>1, <2>2
  <1>10. CASE BootstrapEnds
    <2>1. last'.token = last.token
      BY <1>10 DEF BootstrapEnds, TypeOK, LastRoll
    <2>2. UNCHANGED <<route, roll, rolls>>
      BY <1>10 DEF BootstrapEnds
    <2>3. \A u \in Tokens : u # last.token => sent'[u] = sent[u]
      <3>1. CASE UNCHANGED sent
        BY <3>1
      <3>2. CASE Submitted(last.token)
        BY <3>2, Submits
      <3> QED
        BY <1>10, <3>1, <3>2 DEF BootstrapEnds
    <2> QED
      BY <2>1, <2>2, <2>3
  <1>11. CASE UnbindCancelled
    <2>1. UNCHANGED <<rolls, sent>>
      BY <1>11 DEF UnbindCancelled
    <2>2. CASE UnbindRoute
      BY <2>1, <2>2, Unbound
    <2>3. CASE UNCHANGED <<registry, left>>
      BY <2>1, <2>3 DEF registry
    <2> QED
      BY <1>11, <2>2, <2>3 DEF UnbindCancelled
  <1>12. CASE Commit
    BY <1>12 DEF Commit, Free, MayCommit, Current, Frozen, registry, history
  <1>13. CASE Abort
    BY <1>13 DEF Abort, Free, Current, Aborted, registry, history
  <1>14. CASE BindCompletes
    <2>1. bind.chat \in Chats
      BY <1>14 DEF BindCompletes, MayBind, TypeOK
    <2>2. UNCHANGED <<roll, last, op, wakes, waiter, host, rolls, crashes, left, sent>>
      BY <1>14 DEF BindCompletes
    <2>3. CASE UNCHANGED <<route, chatsOf, byHand>>
      BY <2>2, <2>3, <1>0
    <2>4. CASE Rebound(bind.chat)
      <3>1. route'.gen = route.gen + 1 /\ route'.bound = TRUE /\ byHand' = byHand \cup {route.gen}
        BY <2>1, <2>4, Rebounds
      <3> QED
        BY <2>2, <3>1
    <2> QED
      BY <1>14, <2>3, <2>4 DEF BindCompletes
  <1>15. CASE Unbind
    <2>1. roll' = None /\ UNCHANGED <<op, rolls, sent>>
      BY <1>15, Unbound DEF Unbind
    <2> QED
      BY <2>1
  <1>16. CASE Crash
    <2>1. UNCHANGED <<route, roll, last, rolls>>
      BY <1>16 DEF Crash, registry
    <2>2. \A u \in Tokens : u # last.token => sent'[u] = sent[u]
      <3>1. CASE UNCHANGED sent
        BY <3>1
      <3>2. CASE Submitted(last.token)
        BY <3>2, Submits
      <3> QED
        BY <1>16, <3>1, <3>2 DEF Crash
    <2> QED
      BY <2>1, <2>2
  <1> QED
    BY <1>1, <1>2, <1>3, <1>4, <1>5, <1>6, <1>7, <1>8, <1>9, <1>10, <1>11,
       <1>12, <1>13, <1>14, <1>15, <1>16
    DEF Next, OpEnds

\* What was sent under a token is known before it may be sent again.
LEMMA UnsentStep == IInv /\ [Next]_vars => Unsent'
  <1> SUFFICES ASSUME IInv, [Next]_vars PROVE Unsent'
    OBVIOUS
  <1> USE RouteAssumption, NoneAssumption DEF IInv, Unsent, Holding
  <1>t. /\ roll # None => /\ roll.token \in Tokens /\ roll.src \in Nat /\ roll.tgt \in Nat
                          /\ roll.token \in Nat
        /\ last.token \in Nat
        /\ rolls \in Nat /\ route.gen \in Nat /\ Tokens \subseteq Nat
        /\ sent \in [Tokens -> Nat] /\ \A t \in Tokens : sent[t] \in Nat
        /\ last.state \in {"none", "aborted", "committed", "complete"}
        /\ last.delivery \in {"none", "sending", "uncertain", "not_submitted"}
    <2>1. Tokens \subseteq Nat /\ Gens \subseteq Nat
      BY DEF Tokens, Gens
    <2>2. roll # None => /\ roll.token \in Tokens /\ roll.src \in Nat /\ roll.tgt \in Nat
      BY <2>1 DEF TypeOK, Roll
    <2>3. /\ last.token \in Nat
          /\ last.state \in {"none", "aborted", "committed", "complete"}
          /\ last.delivery \in {"none", "sending", "uncertain", "not_submitted"}
      <3>1. last \in LastRoll
        BY DEF TypeOK
      <3>2. /\ last.token \in Tokens \cup {0}
            /\ last.state \in {"none", "aborted", "committed", "complete"}
            /\ last.delivery \in {"none", "sending", "uncertain", "not_submitted"}
        BY ONLY <3>1 DEF LastRoll
      <3>3. last.token \in Nat
        BY ONLY RouteAssumption, <3>2 DEF Tokens
      <3> QED
        BY ONLY <3>2, <3>3
    <2>4. rolls \in Nat /\ route.gen \in Nat /\ sent \in [Tokens -> Nat]
      <3>1. rolls \in Nat /\ route \in Route /\ sent \in [Tokens -> Nat]
        BY DEF TypeOK
      <3> QED
        BY ONLY <2>1, <3>1 DEF Route
    <2> QED
      BY <2>1, <2>2, <2>3, <2>4
  <1> USE <1>t, TypeStep
  <1>0. UNCHANGED <<last, rolls, sent, op>> => Unsent'
    OBVIOUS
  <1>1. CASE UNCHANGED vars
    BY <1>1, <1>0 DEF vars, registry, history
  <1>2. ASSUME NEW w \in Waiters, Fire(w)
        PROVE  Unsent'
    BY <1>2, <1>0 DEF Fire, registry, history
  <1>3. ASSUME NEW w \in Waiters, RegisterBegins(w) PROVE Unsent'
    BY <1>3 DEF RegisterBegins, Free, Wakeable, Frozen, Hold, registry, history
  <1>4. ASSUME NEW w \in Waiters, Resume(w) PROVE Unsent'
    BY <1>4 DEF Resume, Free, Wakeable, Frozen, Hold, SetWaiter, registry, history
  <1>5. ASSUME NEW g \in Gens, WidgetTakes(g) \/ ModelAcks(g)
        PROVE  Unsent'
    BY <1>5, <1>0 DEF WidgetTakes, ModelAcks, registry, history
  <1>6. ASSUME NEW c \in Chats, Candidate(c) \/ Takeover(c) \/ BindCandidate(c)
        PROVE  Unsent'
    BY <1>6, <1>0 DEF Candidate, Takeover, BindCandidate, registry, history
  <1>7. CASE \/ HostReads \/ HostWaits \/ BindPrepares \/ BindCompletes
            \/ BindExpires
    BY <1>7, <1>0 DEF HostReads, HostWaits, BindPrepares, BindCompletes, BindExpires,
       registry, history
  <1>8. CASE ArmBegins
    BY <1>8 DEF ArmBegins, Free, Wakeable, Frozen, Hold, registry, history
  <1>9. CASE DeliverBegins
    BY <1>9 DEF DeliverBegins, Free, Hold, registry, history
  <1>10. CASE PrepareBegins
    BY <1>10 DEF PrepareBegins, Free, Hold, registry, history
  <1>11. CASE BootstrapBegins
    <2>1. op'.kind = "probing" /\ last.state = "committed" /\ last.delivery \in {"none", "not_submitted"}
      BY <1>11 DEF BootstrapBegins, MayBootstrap, Hold
    <2>2. UNCHANGED <<last, rolls, sent>>
      BY <1>11 DEF BootstrapBegins, registry, history
    <2> QED
      BY <2>1, <2>2
  <1>12. CASE CancelBegins
    BY <1>12 DEF CancelBegins, Free, Hold, registry, history
  <1>13. CASE RegisterWaits
    BY <1>13 DEF RegisterWaits, Holding, Release, registry, history
  <1>14. CASE RegisterResumes
    BY <1>14 DEF RegisterResumes, Holding, Hold, Wakeable, Frozen, registry,
       history
  <1>15. CASE RegisterDrops
    BY <1>15 DEF RegisterDrops, Holding, Release, Wakeable, Frozen, registry,
       history
  <1>16. CASE ResumeArms
    BY <1>16 DEF ResumeArms, Holding, Release, SetWaiter, registry, history
  <1>17. CASE ArmEnds
    BY <1>17 DEF ArmEnds, Holding, Release, registry, history
  <1>18. CASE DeliverEnds
    BY <1>18 DEF DeliverEnds, Holding, Release, registry, history
  <1>19. CASE PrepareEnds
    <2>1. op' = None /\ UNCHANGED <<last, sent>>
      BY <1>19 DEF PrepareEnds, Release, history
    <2>2. rolls' = rolls \/ rolls' = rolls + 1
      BY <1>19 DEF PrepareEnds
    <2> QED
      BY <2>1, <2>2
  <1>20. CASE BootstrapSends
    <2>1. UNCHANGED <<rolls, sent>>
      BY <1>20 DEF BootstrapSends, history
    <2>2. last.state = "committed" /\ sent[last.token] = 0 /\ last.token \in Tokens
      BY <1>20 DEF BootstrapSends
    <2>3. CASE op' = None /\ UNCHANGED last
      BY <2>1, <2>3
    <2>4. CASE last' = [last EXCEPT !.delivery = "sending"] /\ Hold("sending", op.gen, None)
      <3>1. /\ last'.token = last.token /\ last'.state = "committed"
            /\ last'.delivery = "sending"
        BY <2>2, <2>4 DEF TypeOK, LastRoll
      <3>2. op'.kind = "sending"
        BY <2>4 DEF Hold
      <3> QED
        BY <2>1, <2>2, <3>1, <3>2
    <2> QED
      BY <1>20, <2>3, <2>4 DEF BootstrapSends, Release
  <1>21. CASE BootstrapEnds
    <2>1. /\ last.state = "committed" /\ last.delivery = "sending"
          /\ sent[last.token] = 0 /\ last.token \in Tokens
      BY <1>21 DEF BootstrapEnds
    <2>2. op' = None /\ UNCHANGED rolls
      BY <1>21 DEF BootstrapEnds, Release
    <2>3. PICK a \in {"delivered", "uncertain", "not_submitted", "exception"} :
            /\ last' = IF a = "exception" \/ ~Completable THEN last
                       ELSE IF a = "delivered" THEN [last EXCEPT !.state = "complete"]
                       ELSE [last EXCEPT !.delivery = a]
            /\ \/ a # "not_submitted" /\ Submitted(last.token)
               \/ a # "delivered" /\ UNCHANGED sent
      BY <1>21 DEF BootstrapEnds
    <2>4. last'.token = last.token /\ last'.state \in {"committed", "complete"}
      BY <2>1, <2>3 DEF TypeOK, LastRoll
    <2>5. last'.state = "committed" /\ last'.delivery = "not_submitted" => UNCHANGED sent
      BY <2>1, <2>3 DEF TypeOK, LastRoll
    <2>6. last'.state = "committed" => last'.delivery # "none"
      BY <2>1, <2>3 DEF TypeOK, LastRoll
    <2>7. \A u \in Tokens : u # last.token => sent'[u] = sent[u]
      BY <2>3, Submits
    <2> QED
      BY <2>1, <2>2, <2>4, <2>5, <2>6, <2>7
  <1>22. CASE CancelWaiters
    BY <1>22 DEF CancelWaiters, Holding, Release, Hold, MayCancel, registry,
       history
  <1>23. CASE UnbindCancelled
    <2>1. op' = None /\ UNCHANGED <<rolls, sent>>
      BY <1>23 DEF UnbindCancelled, Release
    <2>2. Holding("unbinding")
      BY <1>23 DEF UnbindCancelled
    <2>3. CASE UnbindRoute
      <3>1. IF roll = None THEN last' = last
            ELSE last'.token = roll.token /\ last'.state = "aborted"
        BY <2>3, Unbound
      <3> QED
        BY <2>1, <2>2, <3>1 DEF RollFits
    <2>4. CASE UNCHANGED <<registry, left>>
      BY <2>1, <2>2, <2>4 DEF registry
    <2> QED
      BY <1>23, <2>3, <2>4 DEF UnbindCancelled
  <1>24. CASE Commit
    <2>1. /\ Free /\ roll # None /\ last'.token = roll.token
          /\ last'.state = "committed" /\ last'.delivery = "none"
          /\ UNCHANGED <<op, rolls, sent>>
      BY <1>24 DEF Commit, MayCommit, Current
    <2> QED
      BY <2>1 DEF Free, RollFits
  <1>25. CASE Abort
    <2>1. Free /\ UNCHANGED <<op, rolls, sent>>
      BY <1>25 DEF Abort, history
    <2>2. CASE Current(host) /\ last' = Aborted
      BY <2>1, <2>2 DEF Free, Current, Aborted, RollFits
    <2>3. CASE UNCHANGED last
      BY <2>1, <2>3
    <2> QED
      BY <1>25, <2>2, <2>3 DEF Abort
  <1>26. CASE Unbind
    <2>1. Free /\ UnbindRoute /\ UNCHANGED <<op, rolls, sent>>
      BY <1>26 DEF Unbind
    <2>2. IF roll = None THEN last' = last ELSE last'.token = roll.token /\ last'.state = "aborted"
      BY <2>1, Unbound
    <2> QED
      BY <2>1, <2>2 DEF Free, RollFits
  <1>27. CASE Crash
    <2>1. op' = None /\ UNCHANGED <<last, rolls>>
      BY <1>27 DEF Crash, Release, registry
    <2>2. CASE UNCHANGED sent
      BY <2>1, <2>2
    <2>3. CASE Holding("sending") /\ Submitted(last.token)
      <3>1. /\ last.state = "committed" /\ last.delivery = "sending"
            /\ sent[last.token] = 0 /\ last.token \in Tokens
        BY <2>3
      <3>2. \A u \in Tokens : u # last.token => sent'[u] = sent[u]
        BY <2>3, Submits
      <3> QED
        BY <2>1, <3>1, <3>2
    <2> QED
      BY <1>27, <2>2, <2>3 DEF Crash
  <1> QED
    BY <1>1, <1>2, <1>3, <1>4, <1>5, <1>6, <1>7, <1>8, <1>9, <1>10, <1>11,
       <1>12, <1>13, <1>14, <1>15, <1>16, <1>17, <1>18, <1>19,
       <1>20, <1>21, <1>22, <1>23, <1>24, <1>25, <1>26, <1>27
    DEF Next, OpEnds

\* Nothing is sent twice under a token.
LEMMA BootstrapStep == IInv /\ [Next]_vars => BootstrapOnce'
  <1> SUFFICES ASSUME IInv, [Next]_vars PROVE BootstrapOnce'
    OBVIOUS
  <1> USE RouteAssumption, NoneAssumption DEF IInv, BootstrapOnce
  <1>t. /\ roll # None => /\ roll.token \in Tokens /\ roll.src \in Nat /\ roll.tgt \in Nat
                          /\ roll.token \in Nat
        /\ last.token \in Nat
        /\ rolls \in Nat /\ route.gen \in Nat /\ Tokens \subseteq Nat
        /\ sent \in [Tokens -> Nat] /\ \A t \in Tokens : sent[t] \in Nat
    BY DEF TypeOK, Gens, Route, Roll, LastRoll, Tokens
  <1> USE <1>t
  <1>0. UNCHANGED <<sent>> => BootstrapOnce'
    OBVIOUS
  <1>1. CASE UNCHANGED vars
    BY <1>1, <1>0 DEF vars, registry, history
  <1>2. ASSUME NEW w \in Waiters, RegisterBegins(w) \/ Fire(w) \/ Resume(w)
        PROVE  BootstrapOnce'
    BY <1>2, <1>0 DEF RegisterBegins, Fire, Resume, registry, history
  <1>3. ASSUME NEW g \in Gens, WidgetTakes(g) \/ ModelAcks(g)
        PROVE  BootstrapOnce'
    BY <1>3, <1>0 DEF WidgetTakes, ModelAcks, registry, history
  <1>4. ASSUME NEW c \in Chats, Candidate(c) \/ Takeover(c) \/ BindCandidate(c)
        PROVE  BootstrapOnce'
    BY <1>4, <1>0 DEF Candidate, Takeover, BindCandidate, registry, history
  <1>5. CASE \/ ArmBegins \/ DeliverBegins \/ PrepareBegins
            \/ BootstrapBegins \/ CancelBegins \/ RegisterWaits
            \/ RegisterResumes \/ RegisterDrops \/ ResumeArms \/ ArmEnds
            \/ DeliverEnds \/ PrepareEnds \/ BootstrapSends
            \/ CancelWaiters \/ UnbindCancelled \/ HostReads \/ HostWaits
            \/ Commit \/ Abort \/ BindPrepares \/ BindCompletes
            \/ BindExpires \/ Unbind
    BY <1>5, <1>0 DEF ArmBegins, DeliverBegins, PrepareBegins, BootstrapBegins,
       CancelBegins, RegisterWaits, RegisterResumes, RegisterDrops,
       ResumeArms, ArmEnds, DeliverEnds, PrepareEnds,
       BootstrapSends, CancelWaiters, UnbindCancelled, HostReads,
       HostWaits, Commit, Abort, BindPrepares, BindCompletes,
       BindExpires, Unbind, registry, history
  <1>6. CASE BootstrapEnds
    <2>1. sent[last.token] = 0
      BY <1>6 DEF BootstrapEnds, Unsent
    <2>2. CASE UNCHANGED sent
      BY <2>2
    <2>3. CASE Submitted(last.token)
      BY <2>1, <2>3, Submits
    <2> QED
      BY <1>6, <2>2, <2>3 DEF BootstrapEnds
  <1>7. CASE Crash
    <2>1. CASE UNCHANGED sent
      BY <2>1
    <2>2. CASE Holding("sending") /\ Submitted(last.token)
      BY <2>2, Submits DEF Unsent
    <2> QED
      BY <1>7, <2>1, <2>2 DEF Crash
  <1> QED
    BY <1>1, <1>2, <1>3, <1>4, <1>5, <1>6, <1>7
    DEF Next, OpEnds

\* A generation gets its only chat when it is reached.
LEMMA ChatStep == IInv /\ [Next]_vars => OneChat'
  <1> SUFFICES ASSUME IInv, [Next]_vars PROVE OneChat'
    OBVIOUS
  <1> USE RouteAssumption, NoneAssumption DEF IInv, OneChat
  <1>t. /\ route.gen \in Gens /\ route.gen \in Nat /\ \A g \in Gens : g \in Nat
        /\ chatsOf \in [Gens -> SUBSET Chats]
    BY DEF TypeOK, Gens, Route
  <1> USE <1>t
  <1>0. UNCHANGED <<route, chatsOf>> => OneChat'
    OBVIOUS
  <1>1. CASE UNCHANGED vars
    BY <1>1, <1>0 DEF vars, registry, history
  <1>2. ASSUME NEW w \in Waiters, RegisterBegins(w) \/ Fire(w) \/ Resume(w)
        PROVE  OneChat'
    BY <1>2, <1>0 DEF RegisterBegins, Fire, Resume, registry, history
  <1>3. ASSUME NEW g \in Gens, WidgetTakes(g) \/ ModelAcks(g)
        PROVE  OneChat'
    BY <1>3, <1>0 DEF WidgetTakes, ModelAcks, registry, history
  <1>4. ASSUME NEW c \in Chats, Candidate(c) \/ BindCandidate(c)
        PROVE  OneChat'
    BY <1>4, <1>0 DEF Candidate, BindCandidate, registry, history
  <1>5. ASSUME NEW c \in Chats, Takeover(c) PROVE OneChat'
    <2>1. Rebound(c)
      BY <1>5 DEF Takeover
    <2>2. /\ route'.gen = route.gen + 1
          /\ \A g \in Gens : chatsOf'[g] = IF g = route.gen + 1 THEN chatsOf[g] \cup {c}
                                         ELSE chatsOf[g]
      BY <2>1, Rebounds
    <2> QED
      BY <2>2, ChatAdded
  <1>6. CASE \/ ArmBegins \/ DeliverBegins \/ PrepareBegins
            \/ BootstrapBegins \/ CancelBegins \/ RegisterWaits
            \/ RegisterResumes \/ RegisterDrops \/ ResumeArms \/ ArmEnds
            \/ DeliverEnds \/ PrepareEnds \/ BootstrapSends
            \/ BootstrapEnds \/ CancelWaiters \/ HostReads \/ HostWaits
            \/ Abort \/ BindPrepares \/ BindExpires \/ Crash
    BY <1>6, <1>0 DEF ArmBegins, DeliverBegins, PrepareBegins, BootstrapBegins,
       CancelBegins, RegisterWaits, RegisterResumes, RegisterDrops,
       ResumeArms, ArmEnds, DeliverEnds, PrepareEnds,
       BootstrapSends, BootstrapEnds, CancelWaiters, HostReads,
       HostWaits, Abort, BindPrepares, BindExpires, Crash,
       registry, history
  <1>7. CASE UnbindCancelled
    <2>1. UNCHANGED chatsOf
      BY <1>7 DEF UnbindCancelled
    <2>2. CASE UnbindRoute
      <3>1. route'.gen >= route.gen /\ route'.gen \in Nat
        BY <2>2, Unbound
      <3> QED
        BY <2>1, <3>1
    <2>3. CASE UNCHANGED <<registry, left>>
      BY <2>1, <2>3 DEF registry
    <2> QED
      BY <1>7, <2>2, <2>3 DEF UnbindCancelled
  <1>8. CASE Commit
    <2>1. /\ roll # None /\ roll.src = route.gen /\ roll.tgt = route.gen + 1 /\ roll.chat \in Chats
      BY <1>8 DEF Commit, MayCommit, Frozen, RollFits, TypeOK, Roll
    <2>2. /\ route'.gen = route.gen + 1
          /\ \A g \in Gens : chatsOf'[g] = IF g = route.gen + 1 THEN chatsOf[g] \cup {roll.chat}
                                         ELSE chatsOf[g]
      BY <1>8, <2>1 DEF Commit
    <2> QED
      BY <2>1, <2>2, ChatAdded
  <1>9. CASE BindCompletes
    <2>1. bind.chat \in Chats
      BY <1>9 DEF BindCompletes, MayBind, TypeOK
    <2>2. CASE UNCHANGED <<route, chatsOf, byHand>>
      BY <2>2, <1>0
    <2>3. CASE Rebound(bind.chat)
      <3> DEFINE c == bind.chat
      <3>1. /\ route'.gen = route.gen + 1
            /\ \A g \in Gens : chatsOf'[g] = IF g = route.gen + 1 THEN chatsOf[g] \cup {c}
                                           ELSE chatsOf[g]
        BY <2>1, <2>3, Rebounds
      <3>2. c \in Chats
        BY <2>1
      <3> HIDE DEF c
      <3> QED
        BY <3>1, <3>2, ChatAdded
    <2> QED
      BY <1>9, <2>2, <2>3 DEF BindCompletes
  <1>10. CASE Unbind
    <2>1. UnbindRoute /\ UNCHANGED chatsOf
      BY <1>10 DEF Unbind
    <2>2. route'.gen >= route.gen /\ route'.gen \in Nat
      BY <2>1, Unbound
    <2> QED
      BY <2>1, <2>2
  <1> QED
    BY <1>1, <1>2, <1>3, <1>4, <1>5, <1>6, <1>7, <1>8, <1>9, <1>10
    DEF Next, OpEnds

-----------------------------------------------------------------------------
\* A route just bootstrapped satisfies the invariant.
LEMMA InitIInv == Init => IInv
  <1> SUFFICES ASSUME Init PROVE IInv
    OBVIOUS
  <1> USE RouteAssumption, NoneAssumption
  <1>1. TypeOK
    BY DEF Init, TypeOK, Gens, Tokens, Route, LastRoll, WaiterStates
  <1>2. /\ op = None /\ roll = None /\ left = {}
        /\ route.gen = 0 /\ route.bound = TRUE
        /\ wakes = [g \in Gens |-> "none"]
        /\ \A w \in Waiters : waiter[w].st = "none"
    BY DEF Init
  <1>3. \A g \in Gens : Quiet(g)
    BY <1>2 DEF Quiet, Active
  <1>4. Ahead /\ Past
    BY <1>2, <1>3 DEF Ahead, Past
  <1>5. AsleepIsQuiet
    BY <1>2 DEF AsleepIsQuiet, Asleep, Frozen
  <1>6. Registers /\ Prepares /\ OvertakenByHand /\ DroppedByHand
    BY <1>2 DEF Registers, Prepares, Holding, OvertakenByHand, DroppedByHand
  <1>7. RollFits
    BY <1>2 DEF RollFits
  <1>8. Unsent /\ BootstrapOnce
    BY DEF Init, Unsent, BootstrapOnce, Holding
  <1>9. OneChat
    <2>1. PICK c \in Chats : chatsOf = [g \in Gens |-> IF g = 0 THEN {c} ELSE {}]
      BY DEF Init
    <2>2. \A g \in Gens : g \in Nat /\ chatsOf[g] = IF g = 0 THEN {c} ELSE {}
      BY <2>1 DEF Gens
    <2> QED
      BY <1>2, <2>2 DEF OneChat
  <1> QED
    BY <1>1, <1>4, <1>5, <1>6, <1>7, <1>8, <1>9 DEF IInv

\* IInv holds in every reachable state.
THEOREM Invariance == Spec => []IInv
  <1>1. IInv /\ [Next]_vars => IInv'
    BY TypeStep, DroppedStep, OvertakenStep, RegistersStep, PreparesStep,
       AheadStep, PastStep, AsleepStep, RollStep, UnsentStep, BootstrapStep,
       ChatStep DEF IInv
  <1> QED
    BY InitIInv, <1>1, PTL DEF Spec

\* The variables of a route keep to their domains, at whatever size.
THEOREM TypeCorrect == Spec => []TypeOK
  <1>1. IInv => TypeOK
    BY DEF IInv
  <1> QED
    BY Invariance, <1>1, PTL

\* A generation that a rollover froze or left, or an unbinding left, has no
\* open wake and no waiter that will arm one, whoever waits for the lock.
THEOREM LeavesQuiet == Spec => []LeftQuiet
  <1>1. IInv => LeftQuiet
    BY DEF IInv, LeftQuiet, AsleepIsQuiet, Asleep
  <1> QED
    BY Invariance, <1>1, PTL

\* Only a takeover or a rebind costs a durable waiter its wake.
THEOREM DropsByHand == Spec => []DroppedByHand
  <1>1. IInv => DroppedByHand
    BY DEF IInv
  <1> QED
    BY Invariance, <1>1, PTL

\* However often the server restarts, a successor gets one bootstrap turn.
THEOREM BootstrapsOnce == Spec => []BootstrapOnce
  <1>1. IInv => BootstrapOnce
    BY DEF IInv
  <1> QED
    BY Invariance, <1>1, PTL

\* No two chats ever share a generation.
THEOREM GenerationsApart == Spec => []OneChatPerGeneration
  <1>1. IInv => OneChatPerGeneration
    <2> SUFFICES ASSUME IInv, NEW g \in Gens PROVE Cardinality(chatsOf[g]) <= 1
      BY DEF OneChatPerGeneration
    <2>1. chatsOf[g] = {} \/ \E c \in Chats : chatsOf[g] = {c}
      BY DEF IInv, OneChat
    <2>2. Cardinality({}) = 0 /\ \A c \in Chats : Cardinality({c}) = 1
      BY FS_EmptySet, FS_Singleton
    <2> QED
      BY <2>1, <2>2
  <1> QED
    BY Invariance, <1>1, PTL
=============================================================================
