------------------------- MODULE JobAdmissionProofs -------------------------
(***************************************************************************)
(* Proofs about JobAdmission, for every set of calls, repositories and     *)
(* requests and any number of restarts.  The exclusion properties rest on  *)
(* the locks: whoever holds a lock heads its queue, and two calls that     *)
(* could hurt each other hold one lock in common.                          *)
(***************************************************************************)
EXTENDS JobAdmission, TLAPS

-----------------------------------------------------------------------------
(* Queues. *)

\* The queue l has the call c at its head.
Heads(c, l) == queue[l] # << >> /\ Head(queue[l]) = c

\* A call that leaves a queue leaves a queue, with the same head if it was
\* not the head itself.
LEMMA WithoutSeq ==
  ASSUME NEW S, NEW s \in Seq(S), NEW c
  PROVE  /\ Without(s, c) \in Seq(S)
         /\ s # << >> /\ Head(s) # c =>
               Without(s, c) # << >> /\ Head(Without(s, c)) = Head(s)
  <1>1. CASE \A i \in DOMAIN s : s[i] # c
    BY <1>1 DEF Without
  <1>2. CASE ~\A i \in DOMAIN s : s[i] # c
    <2> DEFINE k == CHOOSE i \in DOMAIN s : s[i] = c
               left == SubSeq(s, 1, k - 1)
               right == SubSeq(s, k + 1, Len(s))
    <2>1. k \in 1..Len(s) /\ s[k] = c
      BY <1>2
    <2>2. Without(s, c) = left \o right
      BY <1>2 DEF Without
    <2> HIDE DEF k
    <2>3. left \in Seq(S) /\ right \in Seq(S) /\ Len(left) = k - 1
      BY <2>1
    <2>4. ASSUME Head(s) # c PROVE k > 1 /\ left[1] = Head(s)
      BY <2>1, <2>4
    <2> HIDE DEF left, right
    <2>5. left \o right \in Seq(S)
      BY <2>3
    <2>6. ASSUME Head(s) # c
          PROVE  left \o right # << >> /\ Head(left \o right) = Head(s)
      BY <2>1, <2>3, <2>4, <2>6
    <2> QED
      BY <2>2, <2>5, <2>6
  <1> QED
    BY <1>1, <1>2

-----------------------------------------------------------------------------
(* The inductive invariant. *)

\* A call holds the locks that it counts: it heads their queues.
HoldersHead ==
    \A c \in Calls : \A i \in 1..held[c] : Heads(c, LockOrder(c)[i])

\* A call that waits still lacks a lock; one that operates is no admission
\* and holds its lock.
Progress ==
    \A c \in Calls :
        /\ pc[c] \in {"idle", "done"} => held[c] = 0
        /\ pc[c] = "locking" => held[c] < Len(LockOrder(c))
        /\ pc[c] = "operating" => held[c] = 1 /\ ~Admits(c)

IInv == /\ TypeOK
        /\ HoldersHead
        /\ Progress
        /\ CommandExclusion
        /\ ServiceExclusion
        /\ RetriesShareOneRow

\* What the order of the locks is made of.
LEMMA LockOrders ==
  ASSUME NEW c \in Calls
  PROVE  /\ Admits(c) => /\ Len(LockOrder(c)) = 2 /\ LockOrder(c)[1] = Global
                         /\ LockOrder(c)[2] = Repo(c)
         /\ ~Admits(c) => Len(LockOrder(c)) = 1
         /\ Op(c) = "command" => LockOrder(c)[1] = Repo(c)
         /\ Op(c) = "service" => LockOrder(c)[1] = Global
         /\ \A i \in 1..Len(LockOrder(c)) : LockOrder(c)[i] \in Locks
         /\ Op(c) \in Ops /\ Repo(c) \in Repos
  BY AdmissionAssumption DEF LockOrder, Admits, Op, Repo, Ops, Locks

\* No call is under way and no row is there.
LEMMA InitIInv == Init => IInv
  <1> SUFFICES ASSUME Init PROVE IInv
    OBVIOUS
  <1>1. << >> \in Seq(Calls) /\ 0 \in 0..MaxRestarts
    BY AdmissionAssumption
  <1>2. TypeOK
    BY <1>1 DEF Init, TypeOK, Results
  <1>3. HoldersHead /\ Progress
    BY DEF Init, HoldersHead, Progress
  <1>4. CommandExclusion /\ ServiceExclusion /\ RetriesShareOneRow
    BY DEF Init, CommandExclusion, ServiceExclusion, RetriesShareOneRow,
       Operating, Bound
  <1> QED
    BY <1>2, <1>3, <1>4 DEF IInv

-----------------------------------------------------------------------------
(* What leaving and queueing do to the queues. *)

\* Leaving keeps the types, and the head of every queue that another call
\* heads.
LEMMA LeaveQueues ==
  ASSUME TypeOK, NEW c \in Calls, NEW r \in Results, Leave(c, r)
  PROVE  /\ queue' \in [Locks -> Seq(Calls)]
         /\ held' \in [Calls -> 0..2]
         /\ pc' \in [Calls -> {"idle", "locking", "operating", "done"}]
         /\ result' \in [Calls -> Results]
         /\ held'[c] = 0 /\ pc'[c] = "done"
         /\ \A d \in Calls \ {c} :
               /\ held'[d] = held[d] /\ pc'[d] = pc[d] /\ result'[d] = result[d]
               /\ \A l \in Locks : Heads(d, l) => Heads(d, l)'
  <1>1. \A l \in Locks : queue[l] \in Seq(Calls) /\ queue'[l] = Without(queue[l], c)
    BY DEF TypeOK, Leave
  <1>2. \A l \in Locks : queue'[l] \in Seq(Calls)
    BY <1>1, WithoutSeq
  <1>3. queue' \in [Locks -> Seq(Calls)]
    BY <1>2 DEF Leave
  <1>4. ASSUME NEW d \in Calls \ {c}, NEW l \in Locks, Heads(d, l)
        PROVE  Heads(d, l)'
    BY <1>1, <1>4, WithoutSeq DEF Heads
  <1> QED
    BY <1>3, <1>4 DEF TypeOK, Leave

\* A call that joins a queue takes its place behind the head.
LEMMA JoinQueues ==
  ASSUME TypeOK, NEW c \in Calls, NEW m \in Locks,
         queue' = [queue EXCEPT ![m] = Append(@, c)]
  PROVE  /\ queue' \in [Locks -> Seq(Calls)]
         /\ \A d \in Calls, l \in Locks : Heads(d, l) => Heads(d, l)'
  <1>1. \A l \in Locks : queue[l] \in Seq(Calls)
    BY DEF TypeOK
  <1>2. queue' \in [Locks -> Seq(Calls)]
    BY <1>1 DEF TypeOK
  <1>3. ASSUME NEW d \in Calls, NEW l \in Locks, Heads(d, l)
        PROVE  Heads(d, l)'
    <2>1. CASE l = m
      BY <1>1, <1>3, <2>1 DEF Heads, TypeOK
    <2>2. CASE l # m
      BY <1>3, <2>2 DEF Heads, TypeOK
    <2> QED
      BY <2>1, <2>2
  <1> QED
    BY <1>2, <1>3

\* The locks that a call counts are locks.
LEMMA HoldsLocks ==
  ASSUME IInv, NEW c \in Calls, NEW i \in 1..held[c]
  PROVE  LockOrder(c)[i] \in Locks
  BY LockOrders DEF IInv, TypeOK, Progress

\* Every step keeps the variables in their domains and leaves locks with
\* the calls that count them.
LEMMA LocksStep ==
  ASSUME IInv, [Next]_vars
  PROVE  TypeOK' /\ HoldersHead' /\ Progress'
  <1> DEFINE P == TypeOK' /\ HoldersHead' /\ Progress'
  <1> USE DEF IInv
  <1>0. \A c \in Calls : held[c] \in 0..2 /\ \A i \in 1..held[c] : Heads(c, LockOrder(c)[i])
    BY DEF TypeOK, HoldersHead
  <1>1. CASE UNCHANGED vars
    BY <1>1 DEF vars, memory, TypeOK, HoldersHead, Progress, Heads
  <1>2. ASSUME NEW c \in Calls, Begin(c) PROVE P
    <2>1. pc[c] = "idle" /\ held[c] = 0 /\ NextLock(c) \in Locks
      BY <1>2, LockOrders DEF Begin, Progress, NextLock
    <2>2. /\ queue' \in [Locks -> Seq(Calls)]
          /\ \A d \in Calls, l \in Locks : Heads(d, l) => Heads(d, l)'
      BY <1>2, <2>1, JoinQueues DEF Begin
    <2>3. TypeOK'
      BY <1>2, <2>2 DEF Begin, TypeOK
    <2>4. HoldersHead'
      BY <1>0, <1>2, <2>2, HoldsLocks DEF Begin, HoldersHead
    <2>5. Progress'
      <3>1. pc'[c] = "locking" /\ held'[c] = 0 /\ Len(LockOrder(c)) \in {1, 2}
        BY <1>2, <2>1, LockOrders DEF Begin, TypeOK
      <3>2. \A d \in Calls \ {c} : pc'[d] = pc[d] /\ held'[d] = held[d]
        BY <1>2 DEF Begin, TypeOK
      <3> QED
        BY <3>1, <3>2 DEF Progress
    <2> QED
      BY <2>3, <2>4, <2>5
  <1>3. ASSUME NEW c \in Calls, TakeLock(c) PROVE P
    <2>1. pc[c] = "locking" /\ Admits(c) /\ held[c] = 0
      <3>1. pc[c] = "locking" /\ held[c] + 1 # Len(LockOrder(c))
        BY <1>3 DEF TakeLock, Granted, LastLock
      <3>2. held[c] \in 0..2 /\ held[c] < Len(LockOrder(c))
        BY <3>1 DEF Progress, TypeOK
      <3>3. Len(LockOrder(c)) # 1
        <4> SUFFICES ASSUME Len(LockOrder(c)) = 1
                     PROVE  FALSE
          OBVIOUS
        <4>1. held[c] \in 0..2 /\ held[c] < 1
          BY <3>2
        <4>2. held[c] = 0
          BY <4>1
        <4> QED
          BY <3>1, <4>2
      <3>4. Admits(c) /\ Len(LockOrder(c)) = 2
        BY <3>3, LockOrders
      <3>5. held[c] = 0
        BY <3>1, <3>2, <3>4
      <3> QED
        BY <3>1, <3>4, <3>5
    <2>2. Heads(c, Global) /\ LockOrder(c)[held[c] + 2] \in Locks
      BY <1>3, <2>1, LockOrders DEF TakeLock, Granted, NextLock, Heads
    <2>3. /\ queue' \in [Locks -> Seq(Calls)]
          /\ \A d \in Calls, l \in Locks : Heads(d, l) => Heads(d, l)'
      BY <1>3, <2>2, JoinQueues DEF TakeLock
    <2>4. /\ held'[c] = 1 /\ held' \in [Calls -> 0..2]
          /\ \A d \in Calls \ {c} : held'[d] = held[d]
      BY <1>3, <2>1 DEF TakeLock, TypeOK
    <2>5. TypeOK'
      BY <1>3, <2>3, <2>4 DEF TakeLock, TypeOK
    <2>6. Heads(c, Global)'
      BY <2>2, <2>3 DEF Locks
    <2>7. ASSUME NEW d \in Calls, NEW i \in 1..held'[d]
          PROVE  Heads(d, LockOrder(d)[i])'
      <3>1. CASE d = c
        BY <2>1, <2>4, <2>6, <2>7, <3>1, LockOrders
      <3>2. CASE d # c
        BY <1>0, <2>3, <2>4, <2>7, <3>2, HoldsLocks
      <3> QED
        BY <3>1, <3>2
    <2>8. Progress'
      BY <1>3, <2>1, <2>4, LockOrders DEF TakeLock, Progress
    <2> QED
      BY <2>5, <2>7, <2>8 DEF HoldersHead
  <1>4. ASSUME NEW c \in Calls, NEW r \in Results, Leave(c, r),
               row' \in [Calls -> {"absent", "active", "ended"}],
               answer' \in [Calls -> Calls \cup {None}],
               UNCHANGED <<alive, restarts>>
        PROVE  P
    <2>1. TypeOK'
      BY <1>4, LeaveQueues DEF TypeOK
    <2>2. HoldersHead'
      BY <1>0, <1>4, LeaveQueues, HoldsLocks DEF HoldersHead
    <2>3. Progress'
      BY <1>4, LeaveQueues DEF Progress
    <2> QED
      BY <2>1, <2>2, <2>3
  <1>5. ASSUME NEW c \in Calls, Admit(c) PROVE P
    <2>1. Outcome(c) \in Results
      BY DEF Outcome, Results
    <2>2. /\ row' \in [Calls -> {"absent", "active", "ended"}]
          /\ answer' \in [Calls -> Calls \cup {None}]
      BY <1>5 DEF Admit, TypeOK
    <2> QED
      BY <1>4, <1>5, <2>1, <2>2 DEF Admit
  <1>6. ASSUME NEW c \in Calls, Refuse(c) \/ OperationReturns(c) \/ Cancel(c)
        PROVE  P
    BY <1>4, <1>6 DEF Refuse, OperationReturns, Cancel, Results, TypeOK
  <1>7. ASSUME NEW c \in Calls, JobEnds(c) \/ ProcessExits(c) PROVE P
    BY <1>7 DEF JobEnds, ProcessExits, memory, TypeOK, HoldersHead, Progress, Heads
  <1>8. ASSUME NEW c \in Calls, Operate(c) PROVE P
    <2>1. held[c] = 0 /\ ~Admits(c) /\ Heads(c, LockOrder(c)[1])
      <3>1. ~Admits(c) /\ held[c] + 1 = Len(LockOrder(c)) /\ Heads(c, NextLock(c))
        BY <1>8 DEF Operate, Granted, LastLock, Heads
      <3>2. Len(LockOrder(c)) = 1 /\ held[c] \in 0..2
        BY <3>1, LockOrders DEF TypeOK
      <3>3. held[c] = 0
        BY <3>1, <3>2
      <3> QED
        BY <3>1, <3>3 DEF NextLock
    <2>2. TypeOK'
      BY <1>8, <2>1 DEF Operate, TypeOK
    <2>3. HoldersHead'
      BY <1>8, <2>1 DEF Operate, HoldersHead, Heads, TypeOK
    <2>4. Progress'
      BY <1>8, <2>1 DEF Operate, Progress, TypeOK
    <2> QED
      BY <2>2, <2>3, <2>4
  <1>9. CASE Restart
    <2>1. << >> \in Seq(Calls) /\ restarts' \in 0..MaxRestarts
      BY <1>9, AdmissionAssumption DEF Restart, TypeOK
    <2>2. TypeOK'
      BY <1>9, <2>1 DEF Restart, TypeOK, Results
    <2>3. HoldersHead' /\ Progress'
      BY <1>9 DEF Restart, HoldersHead, Progress, TypeOK
    <2> QED
      BY <2>2, <2>3
  <1> QED
    BY <1>1, <1>2, <1>3, <1>5, <1>6, <1>7, <1>8, <1>9 DEF Next, CallStep

-----------------------------------------------------------------------------
(* Exclusion. *)

\* Two calls never head one queue.
LEMMA OneHead ==
  ASSUME NEW c, NEW d, NEW l, Heads(c, l), Heads(d, l)
  PROVE  c = d
  BY DEF Heads

\* A call that operates heads the queue of the lock it took.
LEMMA OperatingHolds ==
  ASSUME IInv, NEW c \in Calls, pc[c] = "operating"
  PROVE  /\ Op(c) = "command" => Heads(c, Repo(c))
         /\ Op(c) = "service" => Heads(c, Global)
  BY LockOrders DEF IInv, Progress, HoldersHead

\* A call that admits a job heads both its queues.
LEMMA AdmitHolds ==
  ASSUME IInv, NEW c \in Calls, Admit(c)
  PROVE  Heads(c, Global) /\ Heads(c, Repo(c)) /\ pc[c] = "locking"
  <1>1. pc[c] = "locking" /\ Admits(c) /\ held[c] = 1
    <2>1. pc[c] = "locking" /\ Admits(c) /\ held[c] + 1 = Len(LockOrder(c))
      BY DEF Admit, Granted, LastLock
    <2>2. Len(LockOrder(c)) = 2 /\ held[c] \in 0..2
      BY <2>1, LockOrders DEF IInv, TypeOK
    <2> QED
      BY <2>1, <2>2
  <1>2. Heads(c, Repo(c))
    BY <1>1, LockOrders DEF Admit, Granted, NextLock, Heads
  <1>3. Heads(c, Global)
    BY <1>1, LockOrders DEF IInv, HoldersHead
  <1> QED
    BY <1>1, <1>2, <1>3

\* A step that ends no operation and admits no job only clears the field:
\* rows become inactive, calls stop operating.
LEMMA Quiet ==
  ASSUME IInv, [Next]_vars, \A c \in Calls : ~Admit(c) /\ ~Operate(c),
         NEW d \in Calls
  PROVE  /\ row'[d] = "active" => row[d] = "active"
         /\ pc'[d] = "operating" => pc[d] = "operating"
  <1> DEFINE P == /\ row'[d] = "active" => row[d] = "active"
                  /\ pc'[d] = "operating" => pc[d] = "operating"
  <1> USE DEF IInv, TypeOK
  <1>1. CASE UNCHANGED vars
    BY <1>1 DEF vars, memory
  <1>2. ASSUME NEW c \in Calls, Begin(c) \/ TakeLock(c) PROVE P
    BY <1>2 DEF Begin, TakeLock
  <1>3. ASSUME NEW c \in Calls, Refuse(c) \/ OperationReturns(c) \/ Cancel(c)
        PROVE  P
    BY <1>3 DEF Refuse, OperationReturns, Cancel, Leave
  <1>4. ASSUME NEW c \in Calls, JobEnds(c) \/ ProcessExits(c)
        PROVE  P
    BY <1>4 DEF JobEnds, ProcessExits, memory
  <1>5. CASE Restart
    BY <1>5 DEF Restart
  <1> QED
    BY <1>1, <1>2, <1>3, <1>4, <1>5 DEF Next, CallStep

\* An admission does not add a job beside an operation that bars it, nor does
\* an operation begin beside a job or another operation that bars it.
LEMMA ExclusionStep ==
  ASSUME IInv, [Next]_vars
  PROVE  CommandExclusion' /\ ServiceExclusion'
  <1>1. ASSUME NEW c \in Calls, Admit(c)
        PROVE  CommandExclusion' /\ ServiceExclusion'
    <2>1. /\ \A d \in Calls \ {c} : pc'[d] = pc[d] /\ row'[d] = row[d]
          /\ pc'[c] = "done"
      BY <1>1 DEF Admit, Leave, IInv, TypeOK
    <2>2. \A d \in Calls : pc[d] = "operating" =>
             /\ Op(d) = "command" => Repo(d) # Repo(c)
             /\ Op(d) # "service"
      BY <1>1, AdmitHolds, OperatingHolds, OneHead
    <2> QED
      BY <2>1, <2>2 DEF IInv, CommandExclusion, ServiceExclusion, Operating, ActiveIn
  <1>2. ASSUME NEW c \in Calls, Operate(c)
        PROVE  CommandExclusion' /\ ServiceExclusion'
    <2>1. /\ \A d \in Calls \ {c} : pc'[d] = pc[d]
          /\ row' = row /\ Blockers(c) = {} /\ held[c] = 0
          /\ Heads(c, LockOrder(c)[1]) /\ pc[c] = "locking"
      BY <1>2, LockOrders
      DEF Operate, Granted, LastLock, NextLock, Heads, IInv, TypeOK
    <2>2. \A d \in Calls : pc[d] = "operating" =>
             /\ Op(c) = "command" /\ Op(d) = "command" => Repo(d) # Repo(c)
             /\ ~(Op(c) = "service" /\ Op(d) = "service")
      BY <2>1, OperatingHolds, OneHead, LockOrders
    <2> QED
      BY <2>1, <2>2 DEF IInv, CommandExclusion, ServiceExclusion, Blockers, Operating,
         ActiveIn
  <1>3. CASE \A c \in Calls : ~Admit(c) /\ ~Operate(c)
    <2>1. ASSUME NEW c \in Calls
          PROVE  /\ row'[c] = "active" => row[c] = "active"
                 /\ pc'[c] = "operating" => pc[c] = "operating"
      BY <1>3, Quiet
    <2> QED
      BY <2>1 DEF IInv, CommandExclusion, ServiceExclusion, Operating, ActiveIn
  <1> QED
    BY <1>1, <1>2, <1>3

-----------------------------------------------------------------------------
(* Keys. *)

\* A row appears only where its key is free, and an answer names a row of the
\* caller's key and specification; rows never disappear.
LEMMA KeysStep ==
  ASSUME IInv, [Next]_vars
  PROVE  RetriesShareOneRow'
  <1> USE DEF IInv, TypeOK
  <1>1. ASSUME NEW c \in Calls, Admit(c) PROVE RetriesShareOneRow'
    <2>1. CASE Outcome(c) = "created"
      <3>1. /\ Bound(c) = {} /\ answer' = [answer EXCEPT ![c] = c]
            /\ row' = [row EXCEPT ![c] = "active"]
        BY <1>1, <2>1 DEF Admit, Outcome
      <3>2. \A d \in Calls : row'[d] # "absent" => Bound(d)' \subseteq {d}
        BY <3>1 DEF Bound, RetriesShareOneRow
      <3> QED
        BY <3>1, <3>2 DEF RetriesShareOneRow
    <2>2. CASE Outcome(c) = "existing"
      <3>1. PICK d \in Bound(c) : answer' = [answer EXCEPT ![c] = d]
        BY <1>1, <2>2 DEF Admit
      <3>2. row' = row /\ ~OtherSpec(c)
        BY <1>1, <2>2 DEF Admit, Outcome
      <3>3. /\ d \in Calls /\ row[d] # "absent" /\ Repo(d) = Repo(c)
            /\ Op(c) = "exec" => Request[d].digest = Request[c].digest
        BY <3>1, <3>2 DEF Bound, OtherSpec
      <3>4. \A e \in Calls : Bound(e)' = Bound(e)
        BY <3>2 DEF Bound
      <3> QED
        BY <3>1, <3>2, <3>3, <3>4 DEF RetriesShareOneRow
    <2>3. CASE Outcome(c) \notin {"created", "existing"}
      <3>1. row' = row /\ answer' = [answer EXCEPT ![c] = None]
        BY <1>1, <2>3 DEF Admit
      <3> QED
        BY <3>1 DEF RetriesShareOneRow, Bound
    <2> QED
      BY <2>1, <2>2, <2>3
  <1>2. CASE \A c \in Calls : ~Admit(c)
    <2>1. /\ answer' = answer
          /\ \A c \in Calls : row'[c] = "absent" <=> row[c] = "absent"
      BY <1>2
      DEF Next, CallStep, vars, memory, Begin, TakeLock, Refuse, Operate,
          OperationReturns, Cancel, JobEnds, ProcessExits, Restart
    <2>2. \A c \in Calls : Bound(c)' = Bound(c)
      BY <2>1 DEF Bound
    <2> QED
      BY <2>1, <2>2 DEF RetriesShareOneRow
  <1> QED
    BY <1>1, <1>2

-----------------------------------------------------------------------------
(* The theorems. *)

\* The conjunction that every property below follows from is an invariant.
THEOREM Invariance == Spec => []IInv
  <1>1. IInv /\ [Next]_vars => IInv'
    BY LocksStep, ExclusionStep, KeysStep DEF IInv
  <1> QED
    BY InitIInv, <1>1, PTL DEF Spec

\* Every variable keeps to its domain.
THEOREM TypeCorrect == Spec => []TypeOK
  <1>1. IInv => TypeOK
    BY DEF IInv
  <1> QED
    BY <1>1, Invariance, PTL

\* However many calls queue, and whichever of them are cancelled, no job of a
\* repository is active and no second command runs while run_command is.
THEOREM CommandsExclude == Spec => []CommandExclusion
  <1>1. IInv => CommandExclusion
    BY DEF IInv
  <1> QED
    BY <1>1, Invariance, PTL

\* No job of any repository is active during a service-wide operation.
THEOREM ServicesExclude == Spec => []ServiceExclusion
  <1>1. IInv => ServiceExclusion
    BY DEF IInv
  <1> QED
    BY <1>1, Invariance, PTL

\* A key never has two rows, and an answer never names the job of another
\* specification.
THEOREM KeysAreHonoured == Spec => []RetriesShareOneRow
  <1>1. IInv => RetriesShareOneRow
    BY DEF IInv
  <1> QED
    BY <1>1, Invariance, PTL

\* A retry is not refused because of the job it asks for.
THEOREM RetriesAreAnswered == Spec => RetryNotRefused
  <1>1. IInv /\ [Next]_vars =>
          [\A c \in Calls : Admits(c) /\ result'[c] = "busy" =>
                               result[c] = "busy" \/ Bound(c) = {}]_vars
    <2> SUFFICES ASSUME IInv, [Next]_vars, NEW c \in Calls, Admits(c),
                        result'[c] = "busy", result[c] # "busy"
                 PROVE  Bound(c) = {}
      OBVIOUS
    <2> USE DEF IInv, TypeOK
    <2>1. ASSUME NEW d \in Calls, Admit(d) PROVE Bound(c) = {}
      <3>1. d = c /\ Outcome(c) = "busy"
        BY <2>1 DEF Admit, Leave
      <3> QED
        BY <3>1 DEF Outcome
    <2>2. ASSUME NEW d \in Calls, Refuse(d) PROVE FALSE
      BY <2>2 DEF Refuse, Leave
    <2>3. ASSUME NEW d \in Calls, OperationReturns(d) \/ Cancel(d) PROVE FALSE
      BY <2>3 DEF OperationReturns, Cancel, Leave
    <2>4. CASE Restart
      BY <2>4 DEF Restart
    <2>5. CASE UNCHANGED result
      BY <2>5
    <2> QED
      BY <2>1, <2>2, <2>3, <2>4, <2>5
      DEF Next, CallStep, vars, memory, Begin, TakeLock, Operate, JobEnds,
          ProcessExits
  <1> QED
    BY <1>1, Invariance, PTL DEF Spec, RetryNotRefused
=============================================================================
