------------------------ MODULE TerminalWaitersProofs ------------------------
(***************************************************************************)
(* Proofs about TerminalWaiters, for every set of jobs, waiters and        *)
(* groups, every capacity and any number of restarts.  What a call holds   *)
(* decides everything: IInv says whose the waiters in todo are, that idle  *)
(* calls and a server that is down hold none, and that no table holds a    *)
(* waiter that was settled or cancelled.                                   *)
(***************************************************************************)
EXTENDS TerminalWaiters, FiniteSetTheorems, TLAPS

-----------------------------------------------------------------------------
(* The inductive invariant. *)

\* A registration is answered before its waiter is anywhere; the answer
\* tells a waiter that waited from one whose callback it awaited itself.
Answered ==
    /\ \A w \in Waiters : answer[w] = "none" =>
          w \notin firing \cup called \cup settled \cup cancelled
    /\ \A w \in waiting \cup rows : answer[w] = "waiting"
    /\ \A c \in Calls : \A w \in todo[c] : answer[w] = "waiting"
    /\ \A w \in immediate : answer[w] = "fired"

\* Nobody makes a call for a job that is open; no call is under way in a
\* server that is down, and only start()'s in one that is starting.
CallsOfEnded ==
    /\ \A c \in Calls : mode[c] = "idle" => todo[c] = {} /\ calling[c] = None
    /\ \A j \in Jobs : status[j] = "open" => mode[j] = "idle"
    /\ phase = "down" => /\ waiting = {} /\ firing = {} /\ immediate = {}
                         /\ mode[Startup] = "idle"
    /\ phase # "up" => \A j \in Jobs : mode[j] = "idle"

\* What was settled or cancelled is in no table that leads to a call.
GoneIsGone ==
    \A w \in settled \cup cancelled :
        /\ w \notin rows \cup waiting
        /\ \A c \in Calls : w \notin todo[c]

\* A one-shot waiter that was called is nowhere but with the call that
\* awaits it.
CalledOnce ==
    \A w \in called \ Durable :
        /\ w \notin waiting
        /\ \A c \in Calls : w \in todo[c] => calling[c] = w

\* start() still has every row that is due, or one of them has raised.
BootProgress ==
    phase = "starting" =>
        \/ raised[Startup]
        \/ \A w \in rows : Due(w, status) => w \in todo[Startup]

\* A waiter that waits while it is due was refused by its callback.
WaitingNotDue == \A w \in waiting : Due(w, status) => w \in refused

IInv == /\ TypeOK
        /\ InFlightIsFiring
        /\ Answered
        /\ CallsOfEnded
        /\ DurableKept
        /\ GoneIsGone
        /\ CalledOnce
        /\ BootProgress
        /\ WaitingNotDue

-----------------------------------------------------------------------------
\* The server that was never started satisfies the invariant.
LEMMA InitIInv == Init => IInv
  <1> SUFFICES ASSUME Init PROVE IInv
    OBVIOUS
  <1>1. TypeOK
    BY WaitersAssumption DEF Init, TypeOK, Modes, Calls
  <1>2. InFlightIsFiring
    BY DEF Init, InFlightIsFiring
  <1>3. Answered /\ CallsOfEnded
    BY WaitersAssumption DEF Init, Answered, CallsOfEnded, Calls
  <1>4. DurableKept
    BY WaitersAssumption DEF Init, DurableKept
  <1>5. GoneIsGone /\ CalledOnce
    BY DEF Init, GoneIsGone, CalledOnce
  <1>6. BootProgress /\ WaitingNotDue
    BY DEF Init, BootProgress, WaitingNotDue
  <1> QED
    BY <1>1, <1>2, <1>3, <1>4, <1>5, <1>6 DEF IInv

\* Every step keeps the variables in their domains.
LEMMA TypeStep == IInv /\ [Next]_vars => TypeOK'
  <1> SUFFICES ASSUME IInv, [Next]_vars PROVE TypeOK'
    OBVIOUS
  <1> USE WaitersAssumption DEF IInv, TypeOK, Modes, Calls
  <1>1. CASE UNCHANGED vars
    BY <1>1 DEF vars, memory, history
  <1>2. ASSUME NEW w \in Waiters, Register(w) \/ RegisterDue(w) \/ RegisterDone(w)
        PROVE  TypeOK'
    BY <1>2 DEF Register, RegisterDue, RegisterDone, memory, history
  <1>3. ASSUME NEW j \in Jobs, NEW s \in {"ok", "bad"},
               NEW m \in {"task", "last", "call"}, JobEnds(j, s, m)
        PROVE  TypeOK'
    BY <1>3 DEF JobEnds, Collect, history
  <1>4. ASSUME NEW c \in Calls, NEW w \in Waiters, CallNext(c, w) PROVE TypeOK'
    BY <1>4 DEF CallNext
  <1>5. ASSUME NEW c \in Calls, CallbackReturns(c) PROVE TypeOK'
    BY <1>5 DEF CallbackReturns, Leave
  <1>6. ASSUME NEW c \in Calls, CallbackRaises(c) PROVE TypeOK'
    BY <1>6 DEF CallbackRaises, Leave
  <1>7. ASSUME NEW j \in Jobs, TaskRecovers(j) PROVE TypeOK'
    BY <1>7 DEF TaskRecovers, Collect, history
  <1>8. ASSUME NEW j \in Jobs, CallEnds(j) PROVE TypeOK'
    BY <1>8 DEF CallEnds, history
  <1>9. ASSUME NEW j \in Jobs, CallCancelled(j) PROVE TypeOK'
    BY <1>9 DEF CallCancelled, history
  <1>10. ASSUME NEW g \in Groups, CancelDurable(g) PROVE TypeOK'
    BY <1>10 DEF CancelDurable
  <1>11. CASE Boot
    <2>1. status' \in [Jobs -> {"open", "ok", "bad"}]
      BY <1>11 DEF Boot
    <2> QED
      BY <1>11, <2>1 DEF Boot, history
  <1>12. CASE BootDone \/ Crash
    <2>1. CASE BootDone
      BY <2>1 DEF BootDone, history
    <2>2. CASE Crash
      BY <2>2 DEF Crash, history
    <2> QED
      BY <1>12, <2>1, <2>2
  <1> QED
    BY <1>1, <1>2, <1>3, <1>4, <1>5, <1>6, <1>7, <1>8, <1>9, <1>10, <1>11,
       <1>12
    DEF Next, CallStep, EndStep

\* No step lets two calls hold one waiter, or a call hold one that is not firing.
LEMMA FlightStep == IInv /\ [Next]_vars => InFlightIsFiring'
  <1> SUFFICES ASSUME IInv, [Next]_vars PROVE InFlightIsFiring'
    OBVIOUS
  <1> USE WaitersAssumption DEF IInv, TypeOK, InFlightIsFiring, Answered, CallsOfEnded,
          Calls
  <1>1. CASE UNCHANGED vars
    BY <1>1 DEF vars, memory, history
  <1>2. ASSUME NEW w \in Waiters, Register(w) PROVE InFlightIsFiring'
    BY <1>2 DEF Register, history
  <1>3. ASSUME NEW w \in Waiters, RegisterDue(w) PROVE InFlightIsFiring'
    BY <1>3 DEF RegisterDue
  <1>4. ASSUME NEW w \in Waiters, RegisterDone(w) PROVE InFlightIsFiring'
    BY <1>4 DEF RegisterDone
  <1>5. ASSUME NEW j \in Jobs, NEW s \in {"ok", "bad"},
               NEW m \in {"task", "last", "call"}, JobEnds(j, s, m)
        PROVE  InFlightIsFiring'
    BY <1>5 DEF JobEnds, Collect, history
  <1>6. ASSUME NEW c \in Calls, NEW w \in Waiters, CallNext(c, w)
        PROVE  InFlightIsFiring'
    BY <1>6 DEF CallNext
  <1>7. ASSUME NEW c \in Calls, CallbackReturns(c) PROVE InFlightIsFiring'
    BY <1>7 DEF CallbackReturns, Leave
  <1>8. ASSUME NEW c \in Calls, CallbackRaises(c) PROVE InFlightIsFiring'
    BY <1>8 DEF CallbackRaises, Leave
  <1>9. ASSUME NEW j \in Jobs, TaskRecovers(j) PROVE InFlightIsFiring'
    BY <1>9 DEF TaskRecovers, Finished, Collect, history
  <1>10. ASSUME NEW j \in Jobs, CallEnds(j) \/ CallCancelled(j)
         PROVE  InFlightIsFiring'
    BY <1>10 DEF CallEnds, CallCancelled, Finished, history
  <1>11. ASSUME NEW g \in Groups, CancelDurable(g) PROVE InFlightIsFiring'
    BY <1>11 DEF CancelDurable
  <1>12. CASE Boot
    BY <1>12 DEF Boot, history
  <1>13. CASE BootDone \/ Crash
    BY <1>13 DEF BootDone, Crash, Finished, history
  <1> QED
    BY <1>1, <1>2, <1>3, <1>4, <1>5, <1>6, <1>7, <1>8, <1>9, <1>10, <1>11,
       <1>12, <1>13
    DEF Next, CallStep, EndStep

\* No step moves a waiter that has no answer, or one of the other answer.
LEMMA AnsweredStep == IInv /\ [Next]_vars => Answered'
  <1> SUFFICES ASSUME IInv, [Next]_vars PROVE Answered'
    OBVIOUS
  <1> USE WaitersAssumption DEF IInv, TypeOK, InFlightIsFiring, Answered, CallsOfEnded,
          Calls
  <1>1. CASE UNCHANGED vars
    BY <1>1 DEF vars, memory, history
  <1>2. ASSUME NEW w \in Waiters, Register(w) PROVE Answered'
    BY <1>2 DEF Register, history
  <1>3. ASSUME NEW w \in Waiters, RegisterDue(w) PROVE Answered'
    BY <1>3 DEF RegisterDue
  <1>4. ASSUME NEW w \in Waiters, RegisterDone(w) PROVE Answered'
    BY <1>4 DEF RegisterDone
  <1>5. ASSUME NEW j \in Jobs, NEW s \in {"ok", "bad"},
               NEW m \in {"task", "last", "call"}, JobEnds(j, s, m)
        PROVE  Answered'
    BY <1>5 DEF JobEnds, Collect, history
  <1>6. ASSUME NEW c \in Calls, NEW w \in Waiters, CallNext(c, w)
        PROVE  Answered'
    BY <1>6 DEF CallNext
  <1>7. ASSUME NEW c \in Calls, CallbackReturns(c) PROVE Answered'
    BY <1>7 DEF CallbackReturns, Leave
  <1>8. ASSUME NEW c \in Calls, CallbackRaises(c) PROVE Answered'
    BY <1>8 DEF CallbackRaises, Leave
  <1>9. ASSUME NEW j \in Jobs, TaskRecovers(j) PROVE Answered'
    BY <1>9 DEF TaskRecovers, Finished, Collect, history
  <1>10. ASSUME NEW j \in Jobs, CallEnds(j) \/ CallCancelled(j)
         PROVE  Answered'
    BY <1>10 DEF CallEnds, CallCancelled, Finished, history
  <1>11. ASSUME NEW g \in Groups, CancelDurable(g) PROVE Answered'
    BY <1>11 DEF CancelDurable
  <1>12. CASE Boot
    BY <1>12 DEF Boot, history
  <1>13. CASE BootDone \/ Crash
    BY <1>13 DEF BootDone, Crash, Finished, history
  <1> QED
    BY <1>1, <1>2, <1>3, <1>4, <1>5, <1>6, <1>7, <1>8, <1>9, <1>10, <1>11,
       <1>12, <1>13
    DEF Next, CallStep, EndStep

\* No step makes a call for a job that is open, or lets an idle call hold
\* anything.
LEMMA CallsStep == IInv /\ [Next]_vars => CallsOfEnded'
  <1> SUFFICES ASSUME IInv, [Next]_vars PROVE CallsOfEnded'
    OBVIOUS
  <1> USE WaitersAssumption DEF IInv, TypeOK, InFlightIsFiring, Answered, CallsOfEnded,
          Calls
  <1>1. CASE UNCHANGED vars
    BY <1>1 DEF vars, memory, history
  <1>2. ASSUME NEW w \in Waiters, Register(w) PROVE CallsOfEnded'
    BY <1>2 DEF Register, history
  <1>3. ASSUME NEW w \in Waiters, RegisterDue(w) PROVE CallsOfEnded'
    BY <1>3 DEF RegisterDue
  <1>4. ASSUME NEW w \in Waiters, RegisterDone(w) PROVE CallsOfEnded'
    BY <1>4 DEF RegisterDone
  <1>5. ASSUME NEW j \in Jobs, NEW s \in {"ok", "bad"},
               NEW m \in {"task", "last", "call"}, JobEnds(j, s, m)
        PROVE  CallsOfEnded'
    BY <1>5 DEF JobEnds, Collect, history
  <1>6. ASSUME NEW c \in Calls, NEW w \in Waiters, CallNext(c, w)
        PROVE  CallsOfEnded'
    BY <1>6 DEF CallNext
  <1>7. ASSUME NEW c \in Calls, CallbackReturns(c) PROVE CallsOfEnded'
    BY <1>7 DEF CallbackReturns, Leave
  <1>8. ASSUME NEW c \in Calls, CallbackRaises(c) PROVE CallsOfEnded'
    BY <1>8 DEF CallbackRaises, Leave
  <1>9. ASSUME NEW j \in Jobs, TaskRecovers(j) PROVE CallsOfEnded'
    BY <1>9 DEF TaskRecovers, Finished, Collect, history
  <1>10. ASSUME NEW j \in Jobs, CallEnds(j) \/ CallCancelled(j)
         PROVE  CallsOfEnded'
    BY <1>10 DEF CallEnds, CallCancelled, Finished, history
  <1>11. ASSUME NEW g \in Groups, CancelDurable(g) PROVE CallsOfEnded'
    BY <1>11 DEF CancelDurable
  <1>12. CASE Boot
    BY <1>12 DEF Boot, history
  <1>13. CASE BootDone \/ Crash
    BY <1>13 DEF BootDone, Crash, Finished, history
  <1> QED
    BY <1>1, <1>2, <1>3, <1>4, <1>5, <1>6, <1>7, <1>8, <1>9, <1>10, <1>11,
       <1>12, <1>13
    DEF Next, CallStep, EndStep

\* No step loses the row or the memory of a durable waiter.
LEMMA KeptStep == IInv /\ [Next]_vars => DurableKept'
  <1> SUFFICES ASSUME IInv, [Next]_vars PROVE DurableKept'
    OBVIOUS
  <1> USE WaitersAssumption DEF IInv, TypeOK, InFlightIsFiring, Answered, CallsOfEnded,
          DurableKept, Calls
  <1>1. CASE UNCHANGED vars
    BY <1>1 DEF vars, memory, history
  <1>2. ASSUME NEW w \in Waiters, Register(w) PROVE DurableKept'
    BY <1>2 DEF Register, history
  <1>3. ASSUME NEW w \in Waiters, RegisterDue(w) PROVE DurableKept'
    BY <1>3 DEF RegisterDue
  <1>4. ASSUME NEW w \in Waiters, RegisterDone(w) PROVE DurableKept'
    BY <1>4 DEF RegisterDone
  <1>5. ASSUME NEW j \in Jobs, NEW s \in {"ok", "bad"},
               NEW m \in {"task", "last", "call"}, JobEnds(j, s, m)
        PROVE  DurableKept'
    BY <1>5 DEF JobEnds, Collect, history
  <1>6. ASSUME NEW c \in Calls, NEW w \in Waiters, CallNext(c, w)
        PROVE  DurableKept'
    BY <1>6 DEF CallNext
  <1>7. ASSUME NEW c \in Calls, CallbackReturns(c) PROVE DurableKept'
    BY <1>7 DEF CallbackReturns, Leave
  <1>8. ASSUME NEW c \in Calls, CallbackRaises(c) PROVE DurableKept'
    BY <1>8 DEF CallbackRaises, Leave
  <1>9. ASSUME NEW j \in Jobs, TaskRecovers(j) PROVE DurableKept'
    BY <1>9 DEF TaskRecovers, Finished, Collect, history
  <1>10. ASSUME NEW j \in Jobs, CallEnds(j) \/ CallCancelled(j)
         PROVE  DurableKept'
    BY <1>10 DEF CallEnds, CallCancelled, Finished, history
  <1>11. ASSUME NEW g \in Groups, CancelDurable(g) PROVE DurableKept'
    BY <1>11 DEF CancelDurable
  <1>12. CASE Boot
    BY <1>12 DEF Boot, history
  <1>13. CASE BootDone \/ Crash
    BY <1>13 DEF BootDone, Crash, Finished, history
  <1> QED
    BY <1>1, <1>2, <1>3, <1>4, <1>5, <1>6, <1>7, <1>8, <1>9, <1>10, <1>11,
       <1>12, <1>13
    DEF Next, CallStep, EndStep

\* No step brings a settled or cancelled waiter back.
LEMMA GoneStep == IInv /\ [Next]_vars => GoneIsGone'
  <1> SUFFICES ASSUME IInv, [Next]_vars PROVE GoneIsGone'
    OBVIOUS
  <1> USE WaitersAssumption DEF IInv, TypeOK, InFlightIsFiring, Answered, CallsOfEnded,
          GoneIsGone, Calls
  <1>1. CASE UNCHANGED vars
    BY <1>1 DEF vars, memory, history
  <1>2. ASSUME NEW w \in Waiters, Register(w) PROVE GoneIsGone'
    BY <1>2 DEF Register, history
  <1>3. ASSUME NEW w \in Waiters, RegisterDue(w) PROVE GoneIsGone'
    BY <1>3 DEF RegisterDue
  <1>4. ASSUME NEW w \in Waiters, RegisterDone(w) PROVE GoneIsGone'
    BY <1>4 DEF RegisterDone
  <1>5. ASSUME NEW j \in Jobs, NEW s \in {"ok", "bad"},
               NEW m \in {"task", "last", "call"}, JobEnds(j, s, m)
        PROVE  GoneIsGone'
    BY <1>5 DEF JobEnds, Collect, history
  <1>6. ASSUME NEW c \in Calls, NEW w \in Waiters, CallNext(c, w)
        PROVE  GoneIsGone'
    BY <1>6 DEF CallNext
  <1>7. ASSUME NEW c \in Calls, CallbackReturns(c) PROVE GoneIsGone'
    BY <1>7 DEF CallbackReturns, Leave
  <1>8. ASSUME NEW c \in Calls, CallbackRaises(c) PROVE GoneIsGone'
    BY <1>8 DEF CallbackRaises, Leave
  <1>9. ASSUME NEW j \in Jobs, TaskRecovers(j) PROVE GoneIsGone'
    BY <1>9 DEF TaskRecovers, Finished, Collect, history
  <1>10. ASSUME NEW j \in Jobs, CallEnds(j) \/ CallCancelled(j)
         PROVE  GoneIsGone'
    BY <1>10 DEF CallEnds, CallCancelled, Finished, history
  <1>11. ASSUME NEW g \in Groups, CancelDurable(g) PROVE GoneIsGone'
    BY <1>11 DEF CancelDurable
  <1>12. CASE Boot
    BY <1>12 DEF Boot, history
  <1>13. CASE BootDone \/ Crash
    BY <1>13 DEF BootDone, Crash, Finished, history
  <1> QED
    BY <1>1, <1>2, <1>3, <1>4, <1>5, <1>6, <1>7, <1>8, <1>9, <1>10, <1>11,
       <1>12, <1>13
    DEF Next, CallStep, EndStep

\* No step gives a one-shot waiter back once it was called.
LEMMA OnceStep == IInv /\ [Next]_vars => CalledOnce'
  <1> SUFFICES ASSUME IInv, [Next]_vars PROVE CalledOnce'
    OBVIOUS
  <1> USE WaitersAssumption DEF IInv, TypeOK, InFlightIsFiring, Answered, CallsOfEnded,
          CalledOnce, Calls
  <1>1. CASE UNCHANGED vars
    BY <1>1 DEF vars, memory, history
  <1>2. ASSUME NEW w \in Waiters, Register(w) PROVE CalledOnce'
    BY <1>2 DEF Register, history
  <1>3. ASSUME NEW w \in Waiters, RegisterDue(w) PROVE CalledOnce'
    BY <1>3 DEF RegisterDue
  <1>4. ASSUME NEW w \in Waiters, RegisterDone(w) PROVE CalledOnce'
    BY <1>4 DEF RegisterDone
  <1>5. ASSUME NEW j \in Jobs, NEW s \in {"ok", "bad"},
               NEW m \in {"task", "last", "call"}, JobEnds(j, s, m)
        PROVE  CalledOnce'
    BY <1>5 DEF JobEnds, Collect, history
  <1>6. ASSUME NEW c \in Calls, NEW w \in Waiters, CallNext(c, w)
        PROVE  CalledOnce'
    BY <1>6 DEF CallNext
  <1>7. ASSUME NEW c \in Calls, CallbackReturns(c) PROVE CalledOnce'
    BY <1>7 DEF CallbackReturns, Leave
  <1>8. ASSUME NEW c \in Calls, CallbackRaises(c) PROVE CalledOnce'
    BY <1>8 DEF CallbackRaises, Leave
  <1>9. ASSUME NEW j \in Jobs, TaskRecovers(j) PROVE CalledOnce'
    BY <1>9 DEF TaskRecovers, Finished, Collect, history
  <1>10. ASSUME NEW j \in Jobs, CallEnds(j) \/ CallCancelled(j)
         PROVE  CalledOnce'
    BY <1>10 DEF CallEnds, CallCancelled, Finished, history
  <1>11. ASSUME NEW g \in Groups, CancelDurable(g) PROVE CalledOnce'
    BY <1>11 DEF CancelDurable
  <1>12. CASE Boot
    BY <1>12 DEF Boot, history
  <1>13. CASE BootDone \/ Crash
    BY <1>13 DEF BootDone, Crash, Finished, history
  <1> QED
    BY <1>1, <1>2, <1>3, <1>4, <1>5, <1>6, <1>7, <1>8, <1>9, <1>10, <1>11,
       <1>12, <1>13
    DEF Next, CallStep, EndStep

\* start() forgets a row that is due only by an exception.
LEMMA BootStep == IInv /\ [Next]_vars => BootProgress'
  <1> SUFFICES ASSUME IInv, [Next]_vars PROVE BootProgress'
    OBVIOUS
  <1> USE WaitersAssumption DEF IInv, TypeOK, InFlightIsFiring, Answered, CallsOfEnded,
          BootProgress, Calls
  <1>1. CASE UNCHANGED vars
    BY <1>1 DEF vars, memory, history, Due
  <1>2. ASSUME NEW w \in Waiters, Register(w) PROVE BootProgress'
    BY <1>2 DEF Register, history
  <1>3. ASSUME NEW w \in Waiters, RegisterDue(w) PROVE BootProgress'
    BY <1>3 DEF RegisterDue
  <1>4. ASSUME NEW w \in Waiters, RegisterDone(w) PROVE BootProgress'
    BY <1>4 DEF RegisterDone
  <1>5. ASSUME NEW j \in Jobs, NEW s \in {"ok", "bad"},
               NEW m \in {"task", "last", "call"}, JobEnds(j, s, m)
        PROVE  BootProgress'
    BY <1>5 DEF JobEnds, Collect, history
  <1>6. ASSUME NEW c \in Calls, NEW w \in Waiters, CallNext(c, w)
        PROVE  BootProgress'
    BY <1>6 DEF CallNext
  <1>7. ASSUME NEW c \in Calls, CallbackReturns(c) PROVE BootProgress'
    BY <1>7 DEF CallbackReturns, Leave
  <1>8. ASSUME NEW c \in Calls, CallbackRaises(c) PROVE BootProgress'
    BY <1>8 DEF CallbackRaises, Leave
  <1>9. ASSUME NEW j \in Jobs, TaskRecovers(j) PROVE BootProgress'
    BY <1>9 DEF TaskRecovers, Finished, Collect, history
  <1>10. ASSUME NEW j \in Jobs, CallEnds(j) \/ CallCancelled(j)
         PROVE  BootProgress'
    BY <1>10 DEF CallEnds, CallCancelled, Finished, history
  <1>11. ASSUME NEW g \in Groups, CancelDurable(g) PROVE BootProgress'
    BY <1>11 DEF CancelDurable
  <1>12. CASE Boot
    BY <1>12 DEF Boot, history
  <1>13. CASE BootDone \/ Crash
    BY <1>13 DEF BootDone, Crash, Finished, history
  <1> QED
    BY <1>1, <1>2, <1>3, <1>4, <1>5, <1>6, <1>7, <1>8, <1>9, <1>10, <1>11,
       <1>12, <1>13
    DEF Next, CallStep, EndStep

\* No job ends without the collection of the waiters it makes due.
LEMMA NotDueStep == IInv /\ [Next]_vars => WaitingNotDue'
  <1> SUFFICES ASSUME IInv, [Next]_vars PROVE WaitingNotDue'
    OBVIOUS
  <1> USE WaitersAssumption DEF IInv, TypeOK, InFlightIsFiring, Answered, CallsOfEnded,
          WaitingNotDue, Calls
  <1>1. CASE UNCHANGED vars
    BY <1>1 DEF vars, memory, history, Due
  <1>2. ASSUME NEW w \in Waiters, Register(w) PROVE WaitingNotDue'
    BY <1>2 DEF Register, history
  <1>3. ASSUME NEW w \in Waiters, RegisterDue(w) PROVE WaitingNotDue'
    BY <1>3 DEF RegisterDue
  <1>4. ASSUME NEW w \in Waiters, RegisterDone(w) PROVE WaitingNotDue'
    BY <1>4 DEF RegisterDone
  <1>5. ASSUME NEW j \in Jobs, NEW s \in {"ok", "bad"},
               NEW m \in {"task", "last", "call"}, JobEnds(j, s, m)
        PROVE  WaitingNotDue'
    BY <1>5 DEF JobEnds, Collect, history
  <1>6. ASSUME NEW c \in Calls, NEW w \in Waiters, CallNext(c, w)
        PROVE  WaitingNotDue'
    BY <1>6 DEF CallNext
  <1>7. ASSUME NEW c \in Calls, CallbackReturns(c) PROVE WaitingNotDue'
    BY <1>7 DEF CallbackReturns, Leave
  <1>8. ASSUME NEW c \in Calls, CallbackRaises(c) PROVE WaitingNotDue'
    BY <1>8 DEF CallbackRaises, Leave
  <1>9. ASSUME NEW j \in Jobs, TaskRecovers(j) PROVE WaitingNotDue'
    BY <1>9 DEF TaskRecovers, Finished, Collect, history
  <1>10. ASSUME NEW j \in Jobs, CallEnds(j) \/ CallCancelled(j)
         PROVE  WaitingNotDue'
    BY <1>10 DEF CallEnds, CallCancelled, Finished, history
  <1>11. ASSUME NEW g \in Groups, CancelDurable(g) PROVE WaitingNotDue'
    BY <1>11 DEF CancelDurable
  <1>12. CASE Boot
    BY <1>12 DEF Boot, history
  <1>13. CASE BootDone \/ Crash
    BY <1>13 DEF BootDone, Crash, Finished, history
  <1> QED
    BY <1>1, <1>2, <1>3, <1>4, <1>5, <1>6, <1>7, <1>8, <1>9, <1>10, <1>11,
       <1>12, <1>13
    DEF Next, CallStep, EndStep

\* A callback is begun only by a call that awaits none, with a waiter it has.
LEMMA CallingStep ==
  ASSUME TypeOK, [Next]_vars, NEW c \in Calls, calling'[c] # calling[c]
  PROVE  calling'[c] = None \/ (calling'[c] \in todo[c] /\ calling[c] = None)
  <1> USE DEF TypeOK
  <1>1. CASE UNCHANGED calling
    BY <1>1
  <1>2. ASSUME NEW d \in Calls, NEW w \in Waiters, CallNext(d, w)
        PROVE  calling'[c] = None \/ (calling'[c] \in todo[c] /\ calling[c] = None)
    BY <1>2 DEF CallNext
  <1>3. ASSUME NEW d \in Calls, calling' = [calling EXCEPT ![d] = None]
        PROVE  calling'[c] = None
    BY <1>3
  <1>4. CASE Crash
    BY <1>4 DEF Crash
  <1> QED
    BY <1>1, <1>2, <1>3, <1>4
    DEF Next, vars, memory, Boot, BootDone, Register, RegisterDue, RegisterDone,
        JobEnds, CallStep, CallbackReturns, CallbackRaises, Leave, EndStep,
        TaskRecovers, CallEnds, CallCancelled, CancelDurable, Calls

\* Only BootDone takes a starting server up.
LEMMA StartingStep ==
  ASSUME [Next]_vars, phase = "starting", phase' = "up"
  PROVE  Finished(Startup) /\ ~raised[Startup]
  BY DEF Next, vars, Boot, BootDone, Crash, Register, RegisterDue, RegisterDone,
     JobEnds, CallStep, CallNext, CallbackReturns, CallbackRaises, EndStep,
     TaskRecovers, CallEnds, CallCancelled, CancelDurable

-----------------------------------------------------------------------------
(* The capacity. *)

\* What occupies memory, and the rows that a restart brings back to it.
Occupied == waiting \cup (firing \ immediate)
WithinCapacity == /\ Cardinality(Occupied) <= MaxWaiters
                  /\ Cardinality(rows) <= MaxWaiters

\* A part of a set of waiters has no more elements than the set.
LEMMA FewerWaiters ==
  ASSUME NEW S \in SUBSET Waiters, NEW T \in SUBSET S
  PROVE  /\ Cardinality(T) \in Nat /\ Cardinality(S) \in Nat
         /\ Cardinality(T) <= Cardinality(S)
  <1>1. IsFiniteSet(S)
    BY WaitersAssumption, FS_Subset
  <1>2. IsFiniteSet(T) /\ Cardinality(T) <= Cardinality(S)
    BY <1>1, FS_Subset
  <1> QED
    BY <1>1, <1>2, FS_CardinalityType

\* Registration checks the room it takes.
LEMMA RegisterFits ==
  ASSUME TypeOK, NEW w \in Waiters, Register(w)
  PROVE  /\ Cardinality(Occupied') <= MaxWaiters
         /\ rows \subseteq Occupied => Cardinality(rows') <= MaxWaiters
  <1> DEFINE all == waiting \cup firing
  <1>1. IsFiniteSet(waiting) /\ IsFiniteSet(firing)
    BY WaitersAssumption, FS_Subset DEF TypeOK
  <1>2. /\ Cardinality(waiting) \in Nat /\ Cardinality(firing) \in Nat
        /\ Cardinality(waiting \cap firing) \in Nat
    BY <1>1, FS_CardinalityType, FewerWaiters DEF TypeOK
  <1>3. IsFiniteSet(all) /\ Cardinality(all) <= Cardinality(waiting) + Cardinality(firing)
    <2>1. /\ IsFiniteSet(waiting \cup firing)
          /\ Cardinality(waiting \cup firing) =
                Cardinality(waiting) + Cardinality(firing)
                  - Cardinality(waiting \cap firing)
      BY <1>1, FS_Union
    <2> QED
      BY <1>2, <2>1
  <1>4. Cardinality(all) \in Nat
    BY <1>3, FS_CardinalityType
  <1>5. Cardinality(all \cup {w}) <= Cardinality(all) + 1
    BY <1>3, <1>4, FS_AddElement
  <1>6. all \cup {w} \in SUBSET Waiters
    BY DEF TypeOK
  <1>7. Cardinality(all \cup {w}) \in Nat
    BY <1>6, FewerWaiters
  <1>8. Cardinality(all \cup {w}) <= MaxWaiters
    BY <1>2, <1>3, <1>4, <1>5, <1>7, WaitersAssumption DEF Register
  <1>9. Occupied' \in SUBSET (all \cup {w})
    BY DEF Register, Occupied
  <1>10. rows \subseteq Occupied => rows' \in SUBSET (all \cup {w})
    BY DEF Register, Occupied
  <1> HIDE DEF all
  <1> QED
    BY <1>6, <1>7, <1>8, <1>9, <1>10, FewerWaiters, WaitersAssumption

\* Every other step only moves waiters about, or takes them from the rows.
LEMMA OthersFit ==
  ASSUME IInv, [Next]_vars, \A w \in Waiters : ~Register(w)
  PROVE  /\ Occupied' \subseteq Occupied \/ Occupied' \subseteq rows
         /\ rows' \subseteq rows
  <1> DEFINE P == /\ Occupied' \subseteq Occupied \/ Occupied' \subseteq rows
                  /\ rows' \subseteq rows
  <1> USE DEF IInv, TypeOK, InFlightIsFiring, Occupied, Calls
  <1>1. CASE UNCHANGED vars
    BY <1>1 DEF vars, memory
  <1>2. ASSUME NEW w \in Waiters, RegisterDue(w) \/ RegisterDone(w) PROVE P
    BY <1>2 DEF RegisterDue, RegisterDone
  <1>3. ASSUME NEW j \in Jobs, NEW s \in {"ok", "bad"},
               NEW m \in {"task", "last", "call"}, JobEnds(j, s, m)
        PROVE  P
    <2>1. immediate \cap waiting = {}
      BY DEF Answered
    <2> QED
      BY <1>3, <2>1 DEF JobEnds, Collect
  <1>4. ASSUME NEW c \in Calls, CallStep(c) PROVE P
    BY <1>4, WaitersAssumption
    DEF CallStep, CallNext, CallbackReturns, CallbackRaises
  <1>5. ASSUME NEW j \in Jobs, TaskRecovers(j) PROVE P
    BY <1>5 DEF TaskRecovers, Collect
  <1>6. ASSUME NEW j \in Jobs, CallEnds(j) \/ CallCancelled(j) PROVE P
    BY <1>6 DEF CallEnds, CallCancelled
  <1>7. ASSUME NEW g \in Groups, CancelDurable(g) PROVE P
    BY <1>7 DEF CancelDurable
  <1>8. CASE Boot
    BY <1>8 DEF Boot
  <1>9. CASE BootDone \/ Crash
    BY <1>9 DEF BootDone, Crash
  <1> QED
    BY <1>1, <1>2, <1>3, <1>4, <1>5, <1>6, <1>7, <1>8, <1>9 DEF Next, EndStep

\* The capacity holds from one step to the next.
LEMMA CapacityStep ==
  ASSUME IInv, WithinCapacity, [Next]_vars
  PROVE  WithinCapacity'
  <1>1. Occupied \in SUBSET Waiters /\ rows \in SUBSET Waiters
    BY WaitersAssumption DEF IInv, TypeOK, Occupied
  <1>2. ASSUME NEW w \in Waiters, Register(w) PROVE WithinCapacity'
    <2>1. rows \subseteq Occupied
      BY <1>2 DEF IInv, DurableKept, Answered, Register, Occupied
    <2> QED
      BY <1>2, <2>1, RegisterFits DEF IInv, WithinCapacity
  <1>3. CASE \A w \in Waiters : ~Register(w)
    <2>1. /\ Occupied' \in SUBSET Occupied \/ Occupied' \in SUBSET rows
          /\ rows' \in SUBSET rows
      BY <1>3, OthersFit
    <2>2. Cardinality(rows') <= MaxWaiters
      BY <1>1, <2>1, FewerWaiters, WaitersAssumption DEF WithinCapacity
    <2>3. Cardinality(Occupied') <= MaxWaiters
      BY <1>1, <2>1, FewerWaiters, WaitersAssumption DEF WithinCapacity
    <2> QED
      BY <2>2, <2>3 DEF WithinCapacity
  <1> QED
    BY <1>2, <1>3

-----------------------------------------------------------------------------
(* The theorems. *)

\* The conjunction that every property below follows from is an invariant.
THEOREM Invariance == Spec => []IInv
  <1>1. IInv /\ [Next]_vars => IInv'
    BY TypeStep, FlightStep, AnsweredStep, CallsStep, KeptStep, GoneStep,
       OnceStep, BootStep, NotDueStep DEF IInv
  <1> QED
    BY InitIInv, <1>1, PTL DEF Spec

\* Every variable keeps to its domain; only durable waiters have rows.
THEOREM TypeCorrect == Spec => []TypeOK
  <1>1. IInv => TypeOK
    BY DEF IInv
  <1> QED
    BY <1>1, Invariance, PTL

\* However many jobs end at once, a waiter is in the hands of one call, and
\* what a call holds is in _firing_terminal_waiters.
THEOREM OneCallPerWaiter == Spec => []InFlightIsFiring
  <1>1. IInv => InFlightIsFiring
    BY DEF IInv
  <1> QED
    BY <1>1, Invariance, PTL

\* A durable waiter outlives exceptions, cancelled calls and crashes until
\* its callback has returned or it is cancelled.
THEOREM DurableOutlives == Spec => []DurableKept
  <1>1. IInv => DurableKept
    BY DEF IInv
  <1> QED
    BY <1>1, Invariance, PTL

\* Registration and the end of a job never miss each other.
THEOREM NoTriggerMissed == Spec => []NoOverdue
  <1>1. IInv => NoOverdue
    BY DEF IInv, WaitingNotDue, NoOverdue
  <1> QED
    BY <1>1, Invariance, PTL

\* A callback that returned, and a waiter that was cancelled, is called no
\* more, by this server or a later one.
THEOREM DeliveryEnds == Spec => DoneStaysDone
  <1>1. IInv /\ [Next]_vars =>
          [\A c \in Calls : calling'[c] # calling[c] =>
                               calling'[c] \notin settled \cup cancelled]_vars
    <2> SUFFICES ASSUME IInv, [Next]_vars, NEW c \in Calls,
                        calling'[c] # calling[c]
                 PROVE  calling'[c] \notin settled \cup cancelled
      OBVIOUS
    <2>1. calling'[c] = None \/ calling'[c] \in todo[c]
      BY CallingStep DEF IInv
    <2> QED
      BY <2>1, WaitersAssumption DEF IInv, GoneIsGone, TypeOK
  <1> QED
    BY <1>1, Invariance, PTL DEF Spec, DoneStaysDone

\* A one-shot callback is called at most once, even if it raises or its call
\* is cancelled.
THEOREM OneShotOnce == Spec => OneShot
  <1>1. IInv /\ [Next]_vars =>
          [\A c \in Calls : calling'[c] # calling[c] =>
                               calling'[c] \notin called \ Durable]_vars
    <2> SUFFICES ASSUME IInv, [Next]_vars, NEW c \in Calls,
                        calling'[c] # calling[c]
                 PROVE  calling'[c] \notin called \ Durable
      OBVIOUS
    <2>1. calling'[c] = None \/ (calling'[c] \in todo[c] /\ calling[c] = None)
      BY CallingStep DEF IInv
    <2> QED
      BY <2>1, WaitersAssumption DEF IInv, CalledOnce, TypeOK
  <1> QED
    BY <1>1, Invariance, PTL DEF Spec, OneShot

\* The server comes up only with every restored waiter that was due settled.
THEOREM StartSettlesDue == Spec => BootSettlesDue
  <1>1. IInv /\ [Next]_vars =>
          [phase = "starting" /\ phase' = "up" =>
              \A w \in rows : ~Due(w, status)]_vars
    <2> SUFFICES ASSUME IInv, [Next]_vars, phase = "starting", phase' = "up"
                 PROVE  \A w \in rows : ~Due(w, status)
      OBVIOUS
    <2>1. Finished(Startup) /\ ~raised[Startup]
      BY StartingStep
    <2> QED
      BY <2>1 DEF IInv, BootProgress, Finished
  <1> QED
    BY <1>1, Invariance, PTL DEF Spec, BootSettlesDue

\* The waiters in memory never exceed MAX_TERMINAL_WAITERS, although those
\* restored at start or put back after an exception are not counted.
THEOREM CapacityKept == Spec => []WaitersBounded
  <1>1. Init => WithinCapacity
    <2>1. Init => Occupied = {} /\ rows = {}
      BY DEF Init, Occupied
    <2>2. Cardinality({}) = 0 /\ 0 <= MaxWaiters
      BY FS_EmptySet, WaitersAssumption
    <2> QED
      BY <2>1, <2>2 DEF WithinCapacity
  <1>2. IInv /\ WithinCapacity /\ [Next]_vars => WithinCapacity'
    BY CapacityStep
  <1>3. WithinCapacity => WaitersBounded
    BY DEF WithinCapacity, WaitersBounded, Occupied
  <1> QED
    BY <1>1, <1>2, <1>3, Invariance, PTL DEF Spec
=============================================================================
