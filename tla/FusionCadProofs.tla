--------------------------- MODULE FusionCadProofs ---------------------------
(***************************************************************************)
(* Proofs about the two ways an edit reaches a document, for any kinds of  *)
(* load, numbers of operations and requests: what DesktopRelay promises    *)
(* of a command, what FusionCad records of a transaction, and what         *)
(* HandsProvider tells the client of a guarded edit.                       *)
(***************************************************************************)
EXTENDS FusionCad, HandsProvider, FiniteSetTheorems, TLAPS

-----------------------------------------------------------------------------
(* The relay: its inductive invariant.                                     *)

RelayShape ==
    /\ load \in Loads
    /\ kind \in [Ops -> Kinds \cup {None}]
    /\ row \in [Ops -> Statuses]
    /\ queue \in Seq(Ops)
    /\ pending \subseteq Ops /\ claimed \subseteq Ops /\ late \subseteq Ops
    /\ caller \in [Ops -> {"none", "waiting", "answered", "expired", "gone"}]
    /\ agent \in Ops \cup {None} /\ outbox \in Ops \cup {None}
    /\ answer \in [Ops -> Answers \cup {"none"}]
    /\ ran \in [Ops -> Nat]

OnceEach(s) == \A i, j \in 1..Len(s) : s[i] = s[j] => i = j
Holds(s, o) == \E i \in 1..Len(s) : s[i] = o

\* The queue holds the commands that are open and unclaimed, each once; the
\* agent has a command only while its outbox is empty.
QueueFits ==
    /\ OnceEach(queue)
    /\ \A o \in Ops : Holds(queue, o) <=> o \in pending \ claimed
    /\ agent # None => outbox = None

\* No run of o has begun or can come of what the agent and Fusion hold.
Unrun(o) == ran[o] = 0 /\ agent # o /\ o \notin late

\* One run is all that is left of a command, wherever it is: in the queue, with
\* the agent, given up to Fusion, or run.
OneRun(o) ==
    /\ o \in pending \ claimed => Unrun(o) /\ answer[o] = "none"
    /\ agent = o => ran[o] = 0 /\ o \notin late /\ answer[o] = "none"
    /\ o \in late => ran[o] = 0
    /\ ran[o] <= 1

\* Nothing has happened to an operation that was not created.
Uncreated(o) ==
    kind[o] = None => /\ Unrun(o) /\ answer[o] = "none"
                      /\ o \notin pending /\ o \notin claimed /\ caller[o] = "none"

\* An answer comes of a run, or of one that was given up.
AnswerFits(o) ==
    /\ answer[o] # "none" => ran[o] = 1 \/ o \in late
    /\ outbox = o => answer[o] # "none"
    /\ row[o] \in Terminal => /\ answer[o] # "none"
                              /\ row[o] \in {Settled(o), SettledLate(o)}
    /\ Mutation(o) /\ kind[o] \notin Calls /\ answer[o] # "none" /\ outbox # o =>
          row[o] \in {Settled(o), SettledLate(o), "forgotten"}

\* What the entry and the waiting call say of a command that was not claimed.
EntryFits(o) ==
    /\ row[o] = "queued" => Unrun(o)
    /\ Mutation(o) /\ row[o] \in {"orphaned", "timed_out", "cancelled"} =>
          Unrun(o) /\ o \notin pending \ claimed
    /\ caller[o] \in {"waiting", "answered", "expired"} =>
          kind[o] \in Calls /\ (o \in claimed \/ Unrun(o))

OpFits(o) == OneRun(o) /\ Uncreated(o) /\ AnswerFits(o) /\ EntryFits(o)

RelayInv == RelayShape /\ QueueFits /\ \A o \in Ops : OpFits(o)

-----------------------------------------------------------------------------
(* What the helpers of the relay make of a sequence and of the journal.    *)

\* Taking an element out of a sequence without repetitions leaves the others,
\* once each.
LEMMA WithoutEffect ==
    ASSUME NEW S, NEW s \in Seq(S), NEW o \in S, OnceEach(s)
    PROVE  /\ Without(s, o) \in Seq(S) /\ OnceEach(Without(s, o))
           /\ \A p \in S : Holds(Without(s, o), p) <=> p # o /\ Holds(s, p)
<1> DEFINE w == Without(s, o)
<1>1. CASE o \notin {s[i] : i \in DOMAIN s}
  <2>1. w = s
    BY <1>1 DEF Without
  <2> QED BY <1>1, <2>1 DEF Holds
<1>2. CASE o \in {s[i] : i \in DOMAIN s}
  <2> DEFINE at == CHOOSE i \in DOMAIN s : s[i] = o
             a == SubSeq(s, 1, at - 1)
             b == SubSeq(s, at + 1, Len(s))
  <2>1. at \in 1..Len(s) /\ s[at] = o
    BY <1>2
  <2>2. w = a \o b
    BY <1>2 DEF Without
  <2> HIDE DEF at
  <2>3. /\ a \in Seq(S) /\ Len(a) = at - 1 /\ \A i \in 1..(at - 1) : a[i] = s[i]
        /\ b \in Seq(S) /\ Len(b) = Len(s) - at
        /\ \A i \in 1..(Len(s) - at) : b[i] = s[at + i]
    BY <2>1
  <2> HIDE DEF a, b, w
  <2>4. /\ w \in Seq(S) /\ Len(w) = Len(s) - 1
        /\ \A i \in 1..Len(w) : w[i] = s[IF i < at THEN i ELSE i + 1]
    <3>1. /\ w \in Seq(S) /\ Len(w) = Len(a) + Len(b)
          /\ \A i \in 1..(Len(a) + Len(b)) : w[i] = IF i <= Len(a) THEN a[i] ELSE b[i - Len(a)]
      <4>1. a \in Seq(S) /\ b \in Seq(S)
        BY <2>3
      <4>2. /\ a \o b \in Seq(S) /\ Len(a \o b) = Len(a) + Len(b)
            /\ \A i \in 1..(Len(a) + Len(b)) :
                  (a \o b)[i] = IF i <= Len(a) THEN a[i] ELSE b[i - Len(a)]
        BY <4>1
      <4> QED BY <2>2, <4>2
    <3>2. ASSUME NEW i \in 1..Len(w), i < at
          PROVE  w[i] = s[i]
      <4>1. i <= Len(a) /\ i \in 1..(at - 1) /\ i \in 1..(Len(a) + Len(b))
        BY <2>1, <2>3, <3>1, <3>2
      <4>2. w[i] = a[i]
        BY <3>1, <4>1
      <4>3. a[i] = s[i]
        BY <2>3, <4>1
      <4> QED BY <4>2, <4>3
    <3>3. ASSUME NEW i \in 1..Len(w), ~(i < at)
          PROVE  w[i] = s[i + 1]
      <4>1. /\ ~(i <= Len(a)) /\ i - Len(a) \in 1..(Len(s) - at)
            /\ at + (i - Len(a)) = i + 1
        BY <2>1, <2>3, <3>1, <3>3
      <4>2. w[i] = b[i - Len(a)] /\ b[i - Len(a)] = s[at + (i - Len(a))]
        BY <2>3, <3>1, <3>3, <4>1
      <4> QED BY <4>1, <4>2
    <3> QED BY <2>1, <2>3, <3>1, <3>2, <3>3
  <2>5. ASSUME NEW i \in 1..Len(w), NEW j \in 1..Len(w), w[i] = w[j]
        PROVE  i = j
    <3> DEFINE At(k) == IF k < at THEN k ELSE k + 1
    <3>1. At(i) \in 1..Len(s) /\ At(j) \in 1..Len(s)
      BY <2>1, <2>4
    <3>2. s[At(i)] = s[At(j)]
      BY <2>4, <2>5
    <3>3. At(i) = At(j)
      BY <3>1, <3>2 DEF OnceEach
    <3> QED BY <2>1, <3>3
  <2>6. ASSUME NEW p \in S, NEW i \in 1..Len(w), w[i] = p
        PROVE  p # o /\ Holds(s, p)
    BY <2>1, <2>4, <2>6 DEF OnceEach, Holds
  <2>7. ASSUME NEW p \in S, p # o, NEW j \in 1..Len(s), s[j] = p
        PROVE  Holds(w, p)
    <3>1. CASE j < at
      BY <2>1, <2>4, <2>7, <3>1 DEF Holds
    <3>2. CASE j > at
      <4>1. j - 1 \in 1..Len(w) /\ w[j - 1] = s[j]
        <5>1. j - 1 \in 1..Len(w) /\ ~(j - 1 < at) /\ (j - 1) + 1 = j
          BY <2>1, <2>4, <3>2
        <5> QED BY <2>4, <5>1
      <4> QED BY <4>1, <2>7 DEF Holds
    <3> QED BY <2>1, <2>7, <3>1, <3>2
  <2>8. OnceEach(w)
    BY <2>5 DEF OnceEach
  <2> QED BY <2>4, <2>6, <2>7, <2>8 DEF Holds, w
<1> QED BY <1>1, <1>2

\* The journal writes one entry and may forget another.
LEMMA WriteEffect ==
    ASSUME RelayShape, NEW o \in Ops, NEW s \in Statuses, Write(o, s)
    PROVE  /\ row' \in [Ops -> Statuses] /\ row'[o] \in {s, "forgotten"}
           /\ \A p \in Ops \ {o} : row'[p] \in {row[p], "forgotten"}
  BY DEF RelayShape, Write, Statuses

LEMMA UpdateEffect ==
    ASSUME RelayShape, NEW o \in Ops, NEW s \in Statuses, Update(o, s)
    PROVE  /\ row' \in [Ops -> Statuses] /\ row'[o] \in {s, "forgotten"}
           /\ \A p \in Ops \ {o} : row'[p] \in {row[p], "forgotten"}
<1>1. CASE row[o] = "forgotten"
  BY <1>1 DEF Update, journal, RelayShape
<1>2. CASE row[o] # "forgotten"
  BY <1>2, WriteEffect DEF Update
<1> QED BY <1>1, <1>2

\* The statuses that are written are statuses.
LEMMA SettledTypes ==
    ASSUME NEW o \in Ops
    PROVE  /\ Settled(o) \in {"succeeded", "uncertain", "failed"}
           /\ SettledLate(o) \in {"late_succeeded", "uncertain", "late_failed"}
           /\ Settled(o) \in Statuses /\ SettledLate(o) \in Statuses
           /\ \A why \in {"timed_out", "cancelled"} :
                 LeftAs(o, why) \in {"uncertain", why} /\ LeftAs(o, why) \in Statuses
           /\ Recovered(o) \in Statuses
           /\ {"queued", "claimed"} \subseteq Statuses
  BY DEF Settled, SettledLate, LeftAs, Recovered, Statuses, Terminal, Incomplete

-----------------------------------------------------------------------------
(* Every step of the relay keeps the invariant.                            *)

\* An operation that a step does not touch, but for its entry that may be
\* pushed out of the journal, fits as before.
LEMMA Untouched ==
    ASSUME NEW o \in Ops, OpFits(o), o \in claimed' <=> o \in claimed,
           kind'[o] = kind[o], row'[o] \in {row[o], "forgotten"}, caller'[o] = caller[o],
           o \in pending' => o \in pending, agent' = o => agent = o,
           o \in late' <=> o \in late, outbox' = o <=> outbox = o,
           answer'[o] = answer[o], ran'[o] = ran[o]
    PROVE  OpFits(o)'
<1>1. Unrun(o) => Unrun(o)'
  BY DEF Unrun
<1>2. /\ Settled(o)' = Settled(o) /\ SettledLate(o)' = SettledLate(o)
      /\ Mutation(o)' <=> Mutation(o)
  BY DEF Settled, SettledLate, Mutation
<1>3. OneRun(o)' /\ Uncreated(o)'
  BY <1>1 DEF OpFits, OneRun, Uncreated
<1>4. AnswerFits(o)'
  BY <1>2 DEF OpFits, AnswerFits, Terminal
<1>5. EntryFits(o)'
  BY <1>1, <1>2 DEF OpFits, EntryFits
<1> QED BY <1>3, <1>4, <1>5 DEF OpFits

LEMMA SubmitKeeps ==
    ASSUME RelayInv, NEW o \in Ops, NEW k \in Kinds, Submit(o, k)
    PROVE  RelayInv'
<1>1. RelayShape /\ QueueFits /\ \A p \in Ops : OpFits(p)
  BY DEF RelayInv
<1>2. /\ kind' = [kind EXCEPT ![o] = k] /\ kind[o] = None /\ k # None
      /\ queue' = Append(queue, o) /\ pending' = pending \cup {o}
      /\ caller' = IF k \in Calls THEN [caller EXCEPT ![o] = "waiting"] ELSE caller
      /\ load' = load /\ claimed' = claimed /\ agent' = agent /\ outbox' = outbox
      /\ answer' = answer /\ late' = late /\ ran' = ran
  BY RelayAssumption DEF Submit, workstation, RelayAssumption
<1>3. /\ row' \in [Ops -> Statuses] /\ row'[o] \in {"queued", "forgotten"}
      /\ \A p \in Ops \ {o} : row'[p] \in {row[p], "forgotten"}
  BY <1>1, SettledTypes, WriteEffect DEF Submit
<1>4. Unrun(o) /\ answer[o] = "none" /\ o \notin pending /\ o \notin claimed /\ caller[o] = "none"
  BY <1>1, <1>2 DEF OpFits, Uncreated
<1>5. RelayShape'
  <2>1. kind' \in [Ops -> Kinds \cup {None}] /\ queue' \in Seq(Ops)
    BY <1>1, <1>2 DEF RelayShape
  <2>2. caller' \in [Ops -> {"none", "waiting", "answered", "expired", "gone"}]
    BY <1>1, <1>2 DEF RelayShape
  <2> QED BY <1>1, <1>2, <1>3, <2>1, <2>2 DEF RelayShape
<1>6. QueueFits'
  <2>1. /\ Len(queue') = Len(queue) + 1 /\ Len(queue) \in Nat
        /\ \A i \in 1..Len(queue) : queue'[i] = queue[i]
        /\ queue'[Len(queue) + 1] = o
    BY <1>1, <1>2 DEF RelayShape
  <2>2. \A i \in 1..Len(queue) : queue[i] # o
    BY <1>1, <1>4 DEF QueueFits, Holds
  <2>3. OnceEach(queue')
    BY <1>1, <2>1, <2>2 DEF QueueFits, OnceEach
  <2>4. ASSUME NEW p \in Ops
        PROVE  Holds(queue', p) <=> p \in pending' \ claimed'
    BY <1>1, <1>2, <1>4, <2>1 DEF QueueFits, Holds
  <2> QED BY <1>1, <1>2, <2>3, <2>4 DEF QueueFits
<1>7. ASSUME NEW p \in Ops \ {o}
      PROVE  OpFits(p)'
  BY <1>1, <1>2, <1>3, Untouched DEF RelayShape
<1>8. OpFits(o)'
  <2>1. Unrun(o)' /\ answer'[o] = "none" /\ kind'[o] = k
    BY <1>1, <1>2, <1>4 DEF Unrun, RelayShape
  <2>2. outbox # o /\ row'[o] \notin Terminal
    BY <1>1, <1>3, <1>4 DEF OpFits, AnswerFits, Terminal
  <2>3. OneRun(o)' /\ Uncreated(o)'
    BY <1>2, <2>1 DEF OneRun, Uncreated, Unrun
  <2>4. AnswerFits(o)'
    BY <1>2, <2>1, <2>2 DEF AnswerFits
  <2>5. EntryFits(o)'
    BY <1>1, <1>2, <1>3, <1>4, <2>1 DEF EntryFits, RelayShape
  <2> QED BY <2>3, <2>4, <2>5 DEF OpFits
<1> QED BY <1>5, <1>6, <1>7, <1>8 DEF RelayInv

LEMMA ClaimKeeps ==
    ASSUME RelayInv, NEW o \in Ops, NEW lost \in BOOLEAN, Claim(o, lost)
    PROVE  RelayInv'
<1>1. RelayShape /\ QueueFits /\ \A p \in Ops : OpFits(p)
  BY DEF RelayInv
<1>2. /\ queue # << >> /\ o = Head(queue) /\ agent = None /\ outbox = None
      /\ queue' = Tail(queue) /\ claimed' = claimed \cup {o}
      /\ agent' \in {None, o}
      /\ load' = load /\ kind' = kind /\ pending' = pending /\ caller' = caller
      /\ outbox' = outbox /\ answer' = answer /\ late' = late /\ ran' = ran
  BY DEF Claim, Unclaimed
<1>3. /\ row' \in [Ops -> Statuses] /\ row'[o] \in {"claimed", "forgotten"}
      /\ \A p \in Ops \ {o} : row'[p] \in {row[p], "forgotten"}
  BY <1>1, SettledTypes, UpdateEffect DEF Claim
<1>4. /\ queue[1] = o /\ 1 \in 1..Len(queue) /\ queue' \in Seq(Ops)
      /\ Len(queue') = Len(queue) - 1 /\ Len(queue) \in Nat
      /\ \A i \in 1..Len(queue') : queue'[i] = queue[i + 1]
  BY <1>1, <1>2 DEF RelayShape
<1>5. o \in pending \ claimed
  BY <1>1, <1>4 DEF QueueFits, Holds
<1>6. Unrun(o) /\ answer[o] = "none" /\ kind[o] # None
  BY <1>1, <1>5 DEF OpFits, OneRun, Uncreated
<1>7. RelayShape'
  BY <1>1, <1>2, <1>3, <1>4 DEF RelayShape
<1>8. QueueFits'
  <2>1. OnceEach(queue')
    <3>1. ASSUME NEW i \in 1..Len(queue'), NEW j \in 1..Len(queue'), queue'[i] = queue'[j]
          PROVE  i = j
      <4>1. i + 1 \in 1..Len(queue) /\ j + 1 \in 1..Len(queue) /\ queue[i + 1] = queue[j + 1]
        BY <1>4, <3>1
      <4>2. i + 1 = j + 1
        BY <1>1, <4>1 DEF QueueFits, OnceEach
      <4> QED BY <4>2
    <3> QED BY <3>1 DEF OnceEach
  <2>2. ASSUME NEW p \in Ops
        PROVE  Holds(queue', p) <=> p \in pending' \ claimed'
    <3>1. Holds(queue', p) <=> \E i \in 2..Len(queue) : queue[i] = p
      <4>1. \A i \in 1..Len(queue') : i + 1 \in 2..Len(queue)
        BY <1>4
      <4>2. \A i \in 2..Len(queue) : i - 1 \in 1..Len(queue') /\ queue'[i - 1] = queue[i]
        BY <1>4
      <4> QED BY <1>4, <4>1, <4>2 DEF Holds
    <3>2. (\E i \in 2..Len(queue) : queue[i] = p) <=> p # o /\ Holds(queue, p)
      BY <1>1, <1>4 DEF QueueFits, OnceEach, Holds
    <3> QED BY <1>1, <1>2, <3>1, <3>2 DEF QueueFits
  <2> QED BY <1>2, <2>1, <2>2 DEF QueueFits
<1>9. ASSUME NEW p \in Ops \ {o}
      PROVE  OpFits(p)'
  BY <1>1, <1>2, <1>3, RelayAssumption, Untouched DEF RelayShape, RelayAssumption
<1>10. OpFits(o)'
  <2>1. OneRun(o)' /\ Uncreated(o)'
    BY <1>2, <1>6 DEF OneRun, Uncreated, Unrun
  <2>2. AnswerFits(o)'
    BY <1>1, <1>2, <1>3, <1>6 DEF AnswerFits, OpFits, Terminal
  <2>3. EntryFits(o)'
    BY <1>1, <1>2, <1>3 DEF EntryFits, OpFits
  <2> QED BY <2>1, <2>2, <2>3 DEF OpFits
<1> QED BY <1>7, <1>8, <1>9, <1>10 DEF RelayInv

LEMMA ExpiresKeeps ==
    ASSUME RelayInv, NEW o \in Ops, Expires(o)
    PROVE  RelayInv'
<1>1. RelayShape /\ QueueFits /\ \A p \in Ops : OpFits(p)
  BY DEF RelayInv
<1>2. /\ caller[o] \in {"waiting", "answered"} /\ caller' = [caller EXCEPT ![o] = "expired"]
      /\ load' = load /\ kind' = kind /\ row' = row /\ queue' = queue /\ pending' = pending
      /\ claimed' = claimed /\ agent' = agent /\ outbox' = outbox /\ answer' = answer
      /\ late' = late /\ ran' = ran
  BY DEF Expires, journal, workstation
<1>3. RelayShape' /\ QueueFits'
  BY <1>1, <1>2 DEF RelayShape, QueueFits
<1>4. ASSUME NEW p \in Ops \ {o}
      PROVE  OpFits(p)'
  BY <1>1, <1>2, Untouched DEF RelayShape
<1>5. OpFits(o)'
  BY <1>1, <1>2 DEF RelayShape, OpFits, OneRun, Uncreated, AnswerFits, EntryFits, Unrun,
     Settled, SettledLate, Mutation
<1> QED BY <1>3, <1>4, <1>5 DEF RelayInv

LEMMA ReturnsKeeps ==
    ASSUME RelayInv, NEW o \in Ops, Returns(o)
    PROVE  RelayInv'
<1>1. RelayShape /\ QueueFits /\ \A p \in Ops : OpFits(p)
  BY DEF RelayInv
<1>2. /\ caller[o] = "answered" /\ caller' = [caller EXCEPT ![o] = "gone"]
      /\ load' = load /\ kind' = kind /\ row' = row /\ queue' = queue /\ pending' = pending
      /\ claimed' = claimed /\ agent' = agent /\ outbox' = outbox /\ answer' = answer
      /\ late' = late /\ ran' = ran
  BY DEF Returns, journal, workstation
<1>3. RelayShape' /\ QueueFits'
  BY <1>1, <1>2 DEF RelayShape, QueueFits
<1>4. ASSUME NEW p \in Ops \ {o}
      PROVE  OpFits(p)'
  BY <1>1, <1>2, Untouched DEF RelayShape
<1>5. OpFits(o)'
  BY <1>1, <1>2 DEF RelayShape, OpFits, OneRun, Uncreated, AnswerFits, EntryFits, Unrun,
     Settled, SettledLate, Mutation
<1> QED BY <1>3, <1>4, <1>5 DEF RelayInv

LEMMA AbandonsKeeps ==
    ASSUME RelayInv, NEW o \in Ops, Abandons(o)
    PROVE  RelayInv'
<1>1. RelayShape /\ QueueFits /\ \A p \in Ops : OpFits(p)
  BY DEF RelayInv
<1>2. PICK why \in {"timed_out", "cancelled"} : Update(o, LeftAs(o, why))
  BY DEF Abandons
<1>3. /\ caller[o] = "expired" /\ caller' = [caller EXCEPT ![o] = "gone"]
      /\ pending' = pending \ {o} /\ queue' = Without(queue, o)
      /\ load' = load /\ kind' = kind /\ claimed' = claimed /\ agent' = agent
      /\ outbox' = outbox /\ answer' = answer /\ late' = late /\ ran' = ran
  BY DEF Abandons, workstation
<1>4. /\ row' \in [Ops -> Statuses] /\ row'[o] \in {LeftAs(o, why), "forgotten"}
      /\ \A p \in Ops \ {o} : row'[p] \in {row[p], "forgotten"}
  BY <1>1, <1>2, SettledTypes, UpdateEffect
<1>5. /\ queue' \in Seq(Ops) /\ OnceEach(queue')
      /\ \A p \in Ops : Holds(queue', p) <=> p # o /\ Holds(queue, p)
  BY <1>1, <1>3, WithoutEffect DEF RelayShape, QueueFits
<1>6. RelayShape' /\ QueueFits'
  BY <1>1, <1>3, <1>4, <1>5 DEF RelayShape, QueueFits
<1>7. ASSUME NEW p \in Ops \ {o}
      PROVE  OpFits(p)'
  BY <1>1, <1>3, <1>4, Untouched DEF RelayShape
<1>8. OpFits(o)'
  <2>1. kind[o] \in Calls /\ (o \in claimed \/ Unrun(o))
    BY <1>1, <1>3 DEF OpFits, EntryFits
  <2>2. row'[o] \notin Terminal /\ row'[o] # "queued"
    BY <1>4, SettledTypes DEF Terminal
  <2>3. Mutation(o) /\ row'[o] \in {"orphaned", "timed_out", "cancelled"} => o \notin claimed
    BY <1>4 DEF LeftAs
  <2>4. OneRun(o)' /\ Uncreated(o)'
    BY <1>1, <1>3 DEF OpFits, OneRun, Uncreated, Unrun, RelayShape
  <2>5. AnswerFits(o)'
    BY <1>1, <1>3, <2>1, <2>2 DEF OpFits, AnswerFits
  <2>6. EntryFits(o)'
    BY <1>1, <1>3, <2>1, <2>2, <2>3 DEF OpFits, EntryFits, Unrun, Mutation, RelayShape
  <2> QED BY <2>4, <2>5, <2>6 DEF OpFits
<1> QED BY <1>6, <1>7, <1>8 DEF RelayInv

LEMMA RestartKeeps ==
    ASSUME RelayInv, Restart
    PROVE  RelayInv'
<1>1. RelayShape /\ QueueFits /\ \A p \in Ops : OpFits(p)
  BY DEF RelayInv
<1>2. /\ queue' = << >> /\ pending' = {} /\ claimed' = {}
      /\ caller' = [o \in Ops |-> IF caller[o] = "none" THEN "none" ELSE "gone"]
      /\ row' = [o \in Ops |-> IF row[o] \in Incomplete THEN Recovered(o) ELSE row[o]]
      /\ load' = load /\ kind' = kind /\ agent' = agent /\ outbox' = outbox
      /\ answer' = answer /\ late' = late /\ ran' = ran
  BY DEF Restart, workstation
<1>3. RelayShape'
  BY <1>1, <1>2, SettledTypes DEF RelayShape
<1>4. QueueFits'
  BY <1>1, <1>2 DEF QueueFits, OnceEach, Holds
<1>5. ASSUME NEW o \in Ops
      PROVE  OpFits(o)'
  <2>1. /\ row'[o] = IF row[o] \in Incomplete THEN Recovered(o) ELSE row[o]
        /\ caller'[o] \in {"none", "gone"} /\ (caller[o] = "none" => caller'[o] = "none")
    BY <1>2, <1>5
  <2>2. /\ row'[o] \in Terminal \cup {"queued", "forgotten"} => row'[o] = row[o]
        /\ row'[o] # "queued"
        /\ row[o] \in {Settled(o), SettledLate(o), "forgotten"} => row'[o] = row[o]
    BY <2>1, SettledTypes DEF Recovered, Incomplete, Terminal
  <2>3. OneRun(o)' /\ Uncreated(o)'
    BY <1>1, <1>2, <2>1 DEF OpFits, OneRun, Uncreated, Unrun
  <2>4. AnswerFits(o)'
    BY <1>1, <1>2, <2>2 DEF OpFits, AnswerFits, Settled, SettledLate, Mutation
  <2>5. Mutation(o) /\ row'[o] \in {"orphaned", "timed_out", "cancelled"} => Unrun(o)
    BY <1>1, <2>1 DEF OpFits, EntryFits, Recovered, Incomplete
  <2>6. EntryFits(o)'
    BY <1>2, <2>1, <2>2, <2>5 DEF EntryFits, Unrun, Mutation
  <2> QED BY <2>3, <2>4, <2>6 DEF OpFits
<1> QED BY <1>3, <1>4, <1>5 DEF RelayInv

LEMMA CrashKeeps ==
    ASSUME RelayInv, AgentCrashes
    PROVE  RelayInv'
<1>1. RelayShape /\ QueueFits /\ \A p \in Ops : OpFits(p)
  BY DEF RelayInv
<1>2. /\ agent' = None /\ late' = late \cup {agent} /\ agent # None
      /\ load' = load /\ kind' = kind /\ row' = row /\ queue' = queue
      /\ pending' = pending /\ claimed' = claimed /\ caller' = caller
      /\ outbox' = outbox /\ answer' = answer /\ ran' = ran
  BY DEF AgentCrashes, journal, node
<1>3. RelayShape' /\ QueueFits'
  BY <1>1, <1>2 DEF RelayShape, QueueFits
<1>4. ASSUME NEW p \in Ops, p # agent
      PROVE  OpFits(p)'
  BY <1>1, <1>2, <1>4, RelayAssumption, Untouched DEF RelayAssumption
<1>5. ASSUME NEW p \in Ops, p = agent
      PROVE  OpFits(p)'
  <2>1. agent' # p /\ p \in late' /\ agent = p
    BY <1>2, <1>5, RelayAssumption DEF RelayAssumption
  <2>2. ran[p] = 0 /\ answer[p] = "none" /\ ~Unrun(p)
    BY <1>1, <1>5 DEF OpFits, OneRun, Unrun
  <2> QED BY <1>1, <1>2, <2>1, <2>2 DEF OpFits, OneRun, Uncreated, AnswerFits, EntryFits, Unrun,
             Settled, SettledLate, Mutation
<1> QED BY <1>3, <1>4, <1>5 DEF RelayInv

LEMMA ExecutesKeeps ==
    ASSUME RelayInv, NEW o \in Ops, NEW says \in Answers, Executes(o, says)
    PROVE  RelayInv'
<1>1. RelayShape /\ QueueFits /\ \A p \in Ops : OpFits(p)
  BY DEF RelayInv
<1>2. /\ agent = o /\ agent' = None /\ outbox' = o
      /\ answer' = [answer EXCEPT ![o] = says] /\ ran' = [ran EXCEPT ![o] = @ + 1]
      /\ load' = load /\ kind' = kind /\ row' = row /\ queue' = queue
      /\ pending' = pending /\ claimed' = claimed /\ caller' = caller
      /\ late' = late
  BY DEF Executes, journal, node
<1>3. RelayShape'
  BY <1>1, <1>2 DEF RelayShape
<1>4. None \notin Ops /\ outbox = None
  BY <1>1, <1>2, RelayAssumption DEF QueueFits, RelayAssumption
<1>5. QueueFits'
  BY <1>1, <1>2 DEF QueueFits
<1>6. ASSUME NEW p \in Ops \ {o}
      PROVE  OpFits(p)'
  BY <1>1, <1>2, <1>4, Untouched DEF RelayShape
<1>7. OpFits(o)'
  <2>1. /\ ran[o] = 0 /\ answer[o] = "none" /\ o \notin late /\ ~Unrun(o)
        /\ o \notin pending \ claimed
    BY <1>1, <1>2 DEF OpFits, OneRun, Unrun
  <2>2. ran'[o] = 1 /\ answer'[o] # "none" /\ row[o] \notin Terminal /\ kind[o] # None
    BY <1>1, <1>2, <2>1 DEF RelayShape, Answers, OpFits, AnswerFits, Uncreated
  <2>3. OneRun(o)' /\ Uncreated(o)'
    BY <1>2, <1>4, <2>1, <2>2 DEF OneRun, Uncreated
  <2>4. AnswerFits(o)'
    BY <1>2, <2>2 DEF AnswerFits
  <2>5. EntryFits(o)'
    BY <1>1, <1>2, <2>1 DEF OpFits, EntryFits, Unrun, Mutation
  <2> QED BY <2>3, <2>4, <2>5 DEF OpFits
<1> QED BY <1>3, <1>5, <1>6, <1>7 DEF RelayInv

LEMMA GivesUpKeeps ==
    ASSUME RelayInv, NEW o \in Ops, GivesUp(o)
    PROVE  RelayInv'
<1>1. RelayShape /\ QueueFits /\ \A p \in Ops : OpFits(p)
  BY DEF RelayInv
<1>2. /\ agent = o /\ agent' = None /\ outbox' = o
      /\ answer' = [answer EXCEPT ![o] = "error"] /\ late' = late \cup {o}
      /\ load' = load /\ kind' = kind /\ row' = row /\ queue' = queue
      /\ pending' = pending /\ claimed' = claimed /\ caller' = caller /\ ran' = ran
  BY DEF GivesUp, journal, node
<1>3. RelayShape'
  BY <1>1, <1>2 DEF RelayShape, Answers
<1>4. None \notin Ops /\ outbox = None
  BY <1>1, <1>2, RelayAssumption DEF QueueFits, RelayAssumption
<1>5. QueueFits'
  BY <1>1, <1>2 DEF QueueFits
<1>6. ASSUME NEW p \in Ops \ {o}
      PROVE  OpFits(p)'
  BY <1>1, <1>2, <1>4, Untouched DEF RelayShape
<1>7. OpFits(o)'
  <2>1. /\ ran[o] = 0 /\ answer[o] = "none" /\ ~Unrun(o) /\ o \notin pending \ claimed
    BY <1>1, <1>2 DEF OpFits, OneRun, Unrun
  <2>2. answer'[o] # "none" /\ row[o] \notin Terminal /\ kind[o] # None
    BY <1>1, <1>2, <2>1 DEF RelayShape, OpFits, AnswerFits, Uncreated
  <2>3. OneRun(o)' /\ Uncreated(o)'
    BY <1>2, <1>4, <2>1, <2>2 DEF OneRun, Uncreated
  <2>4. AnswerFits(o)'
    BY <1>2, <2>2 DEF AnswerFits
  <2>5. EntryFits(o)'
    BY <1>1, <1>2, <2>1 DEF OpFits, EntryFits, Unrun, Mutation
  <2> QED BY <2>3, <2>4, <2>5 DEF OpFits
<1> QED BY <1>3, <1>5, <1>6, <1>7 DEF RelayInv

LEMMA ExecutesLateKeeps ==
    ASSUME RelayInv, NEW o \in Ops, ExecutesLate(o)
    PROVE  RelayInv'
<1>1. RelayShape /\ QueueFits /\ \A p \in Ops : OpFits(p)
  BY DEF RelayInv
<1>2. /\ o \in late /\ late' = late \ {o} /\ ran' = [ran EXCEPT ![o] = @ + 1]
      /\ load' = load /\ kind' = kind /\ row' = row /\ queue' = queue
      /\ pending' = pending /\ claimed' = claimed /\ caller' = caller
      /\ agent' = agent /\ outbox' = outbox /\ answer' = answer
  BY DEF ExecutesLate, journal, node
<1>3. RelayShape' /\ QueueFits'
  BY <1>1, <1>2 DEF RelayShape, QueueFits
<1>4. ASSUME NEW p \in Ops \ {o}
      PROVE  OpFits(p)'
  BY <1>1, <1>2, Untouched DEF RelayShape
<1>5. OpFits(o)'
  <2>1. ran[o] = 0 /\ ~Unrun(o) /\ agent # o /\ o \notin pending \ claimed /\ ran'[o] = 1
    BY <1>1, <1>2 DEF OpFits, OneRun, Unrun, RelayShape
  <2>2. OneRun(o)' /\ Uncreated(o)'
    BY <1>1, <1>2, <2>1 DEF OpFits, OneRun, Uncreated
  <2>3. AnswerFits(o)'
    BY <1>1, <1>2, <2>1 DEF OpFits, AnswerFits, Settled, SettledLate, Mutation
  <2>4. EntryFits(o)'
    BY <1>1, <1>2, <2>1 DEF OpFits, EntryFits, Unrun, Mutation
  <2> QED BY <2>2, <2>3, <2>4 DEF OpFits
<1> QED BY <1>3, <1>4, <1>5 DEF RelayInv

LEMMA PostKeeps ==
    ASSUME RelayInv, NEW o \in Ops, NEW lost \in BOOLEAN, Post(o, lost)
    PROVE  RelayInv'
<1>1. RelayShape /\ QueueFits /\ \A p \in Ops : OpFits(p)
  BY DEF RelayInv
<1>2. /\ outbox = o /\ outbox' \in {o, None} /\ Record(o)
      /\ load' = load /\ kind' = kind /\ queue' = queue /\ claimed' = claimed
      /\ agent' = agent /\ answer' = answer /\ late' = late /\ ran' = ran
  BY DEF Post
<1>3. answer[o] # "none" /\ None \notin Ops /\ ~(Unrun(o)) /\ o \notin pending \ claimed
  BY <1>1, <1>2, RelayAssumption DEF OpFits, AnswerFits, OneRun, Unrun, RelayAssumption
<1>4. /\ pending' \in {pending, pending \ {o}}
      /\ caller' \in {caller, [caller EXCEPT ![o] = "answered"]}
      /\ caller' # caller => caller[o] = "waiting"
  BY <1>2 DEF Record
<1>5. /\ row' \in [Ops -> Statuses]
      /\ row'[o] \in {Settled(o), SettledLate(o), "forgotten"}
      /\ \A p \in Ops \ {o} : row'[p] \in {row[p], "forgotten"}
  <2>1. CASE o \in pending
    BY <1>1, <1>2, <2>1, SettledTypes, UpdateEffect DEF Record
  <2>2. CASE o \notin pending /\ TakesLate(o)
    BY <1>1, <1>2, <2>2, SettledTypes, WriteEffect DEF Record
  <2>3. CASE o \notin pending /\ ~TakesLate(o)
    <3>1. row' = row /\ row[o] \in Terminal \cup {"forgotten"}
      BY <1>2, <2>3 DEF Record, TakesLate, journal
    <3> QED BY <1>1, <3>1 DEF OpFits, AnswerFits, RelayShape
  <2> QED BY <2>1, <2>2, <2>3
<1>6. RelayShape'
  BY <1>1, <1>2, <1>4, <1>5 DEF RelayShape
<1>7. QueueFits'
  BY <1>1, <1>2, <1>3, <1>4 DEF QueueFits, RelayShape
<1>8. ASSUME NEW p \in Ops \ {o}
      PROVE  OpFits(p)'
  BY <1>1, <1>2, <1>3, <1>4, <1>5, Untouched DEF RelayShape
<1>9. OpFits(o)'
  <2>1. row'[o] # "queued" /\ row'[o] \notin {"orphaned", "timed_out", "cancelled"}
    BY <1>5, SettledTypes
  <2>2. Settled(o)' = Settled(o) /\ SettledLate(o)' = SettledLate(o)
    BY <1>2 DEF Settled, SettledLate, Mutation
  <2>3. OneRun(o)' /\ Uncreated(o)'
    BY <1>1, <1>2, <1>3, <1>4 DEF OpFits, OneRun, Uncreated, Unrun
  <2>4. AnswerFits(o)'
    BY <1>1, <1>2, <1>3, <1>5, <2>2 DEF OpFits, AnswerFits, Terminal
  <2>5. EntryFits(o)'
    <3>1. caller[o] = "none" \/ caller[o] = "gone" => caller' = caller
      BY <1>4
    <3>2. caller'[o] \in {"waiting", "answered", "expired"} =>
             kind[o] \in Calls /\ o \in claimed
      BY <1>1, <1>3, <1>4 DEF OpFits, EntryFits, RelayShape
    <3> QED BY <1>2, <2>1, <3>2 DEF EntryFits
  <2> QED BY <2>3, <2>4, <2>5 DEF OpFits
<1> QED BY <1>6, <1>7, <1>8, <1>9 DEF RelayInv
-----------------------------------------------------------------------------
(* FusionCad moves the relay by its own steps only, so the invariant holds *)
(* of it, and what the relay promises of a command.                        *)

LEMMA RelayStartsFit == RelayInit => RelayInv
<1> SUFFICES ASSUME RelayInit PROVE RelayInv
  OBVIOUS
<1>1. None \notin Ops
  BY RelayAssumption DEF RelayAssumption
<1>2. RelayShape /\ QueueFits
  BY <1>1 DEF RelayInit, RelayShape, QueueFits, OnceEach, Holds, Statuses, Answers
<1>3. ASSUME NEW o \in Ops
      PROVE  OpFits(o)
  BY <1>1 DEF RelayInit, OpFits, OneRun, Uncreated, AnswerFits, EntryFits, Unrun, Terminal
<1> QED BY <1>2, <1>3 DEF RelayInv

LEMMA RelayStays == RelayInv /\ UNCHANGED relayVars => RelayInv'
  BY DEF RelayInv, relayVars, journal, node, workstation, RelayShape, QueueFits, OpFits,
     OneRun, Uncreated, AnswerFits, EntryFits, Unrun, Settled, SettledLate, Mutation

LEMMA RegistersKeeps ==
    ASSUME RelayInv, Registers
    PROVE  RelayInv'
  BY DEF Registers, RelayInv, journal, node, workstation, RelayShape, QueueFits, OpFits,
     OneRun, Uncreated, AnswerFits, EntryFits, Unrun, Settled, SettledLate, Mutation

LEMMA RelayKeeps == RelayInv /\ [RelayNext]_relayVars => RelayInv'
<1> SUFFICES ASSUME RelayInv, RelayNext
             PROVE  RelayInv'
  BY RelayStays
<1>1. CASE Restart \/ Registers \/ AgentCrashes
  BY <1>1, RestartKeeps, RegistersKeeps, CrashKeeps
<1>2. CASE \E o \in Ops : \E k \in Kinds : Submit(o, k)
  BY <1>2, SubmitKeeps
<1>3. CASE \E o \in Ops : \E lost \in BOOLEAN : Claim(o, lost) \/ Post(o, lost)
  BY <1>3, ClaimKeeps, PostKeeps
<1>4. CASE \E o \in Ops : Expires(o) \/ Abandons(o) \/ Returns(o)
  BY <1>4, ExpiresKeeps, AbandonsKeeps, ReturnsKeeps
<1>5. CASE \E o \in Ops : (\E says \in Answers : Executes(o, says)) \/ GivesUp(o) \/ ExecutesLate(o)
  BY <1>5, ExecutesKeeps, GivesUpKeeps, ExecutesLateKeeps
<1> QED BY <1>1, <1>2, <1>3, <1>4, <1>5 DEF RelayNext

\* A step of the service, of Fusion or of the owner moves the relay as one of
\* its own steps would, or not at all.
LEMMA MovesTheRelay == [Next]_vars => [RelayNext]_relayVars
<1> SUFFICES ASSUME Next
             PROVE  RelayNext \/ UNCHANGED relayVars
  BY DEF vars
<1>1. CASE \E o \in Ops : Ask(o)
  <2>1. PICK o \in Ops : Ask(o)
    BY <1>1
  <2>2. \E k \in AllKinds : Submit(o, k)
    BY <2>1 DEF Ask, AskPlain, AskStage, AskPreview, AskCommit, AskAbort, AskSet, Send, AllKinds
  <2> QED BY <2>2, CadAssumption DEF CadAssumption, RelayNext
<1>2. CASE \E o \in Ops : Run(o) \/ RunLate(o)
  <2>1. PICK o \in Ops : Run(o) \/ RunLate(o)
    BY <1>2
  <2>2. (\E says \in Answers : Executes(o, says)) \/ ExecutesLate(o)
    BY <2>1 DEF Run, RunLate, Answers
  <2> QED BY <2>2 DEF RelayNext
<1>3. CASE \E o \in Ops : Finish(o)
  BY <1>3 DEF Finish, FinishBegin, FinishStage, FinishPreview, FinishCommit, FinishAbort,
     FinishSet, Poll
<1>4. CASE \E o \in Ops : ReturnRead(o)
  BY <1>4 DEF ReturnRead, RelayNext
<1>5. CASE StrandCommit \/ OwnerEdits \/ OwnerUndoes
  BY <1>5 DEF StrandCommit, OwnerEdits, OwnerUndoes
<1>6. CASE RestartAll
  BY <1>6 DEF RestartAll, RelayNext
<1>7. CASE RelayStep
  BY <1>7 DEF RelayStep, RelayNext
<1> QED BY <1>1, <1>2, <1>3, <1>4, <1>5, <1>6, <1>7 DEF Next

\* The service drives the relay as the relay allows, whatever it asks for.
THEOREM ObeysTheRelay == Spec => RelayInit /\ [][RelayNext]_relayVars
<1>1. Init => RelayInit
  BY DEF Init
<1> QED BY <1>1, MovesTheRelay, PTL DEF Spec

\* Where a command is, what its entry says of it and what became of its answer
\* fit together, whatever is lost, given up, evicted or restarted.
THEOREM RelayFits == Spec => []RelayInv
  BY ObeysTheRelay, RelayStartsFit, RelayKeeps, PTL

\* Fusion runs no command twice: whatever is lost, given up or restarted, a
\* command is in one place (claim, submit_result_safely).
THEOREM RunsOnce == Spec => []RunsAtMostOnce
<1>1. RelayInv => RunsAtMostOnce
  BY DEF RelayInv, OpFits, OneRun, RunsAtMostOnce
<1> QED BY <1>1, RelayFits, PTL

\* A mutation whose entry says that it was never claimed has not run and will
\* not (_recover_incomplete_operations, the handlers of call).
THEOREM UnclaimedIsUnrun == Spec => []NeverRanWhenToldSo
<1>1. RelayInv => NeverRanWhenToldSo
  BY DEF RelayInv, OpFits, EntryFits, Unrun, NeverRanWhenToldSo, Mutating
<1> QED BY <1>1, RelayFits, PTL

\* The result of a submitted mutation reaches its entry, over lost answers and
\* restarts, or the entry was pushed out of the journal (submit_result).
THEOREM ResultsStay == Spec => []ResultsAreKept
<1>1. RelayInv => ResultsAreKept
  BY DEF RelayInv, OpFits, AnswerFits, ResultsAreKept, Mutating
<1> QED BY <1>1, RelayFits, PTL

-----------------------------------------------------------------------------
(* What the journal says of a settled operation.                           *)

\* A command that is still open has not been settled.
OpenIsUnsettled == \A o \in pending : row[o] \notin Terminal

\* The status of a settled entry is never written over: the entry is forgotten
\* at most.  Only a call that was cancelled while its answer was already there
\* writes its own entry once more (the handlers of call).
SettledStands ==
    \A o \in Ops : row[o] \in Terminal /\ caller[o] # "expired" =>
        row'[o] \in {row[o], "forgotten"}

\* What a step does to an entry when it leaves that entry alone.
LEMMA LeftAlone ==
    ASSUME NEW o \in Ops, row'[o] \in {row[o], "forgotten"},
           o \in pending' => o \in pending /\ row[o] \notin Terminal
    PROVE  /\ row[o] \in Terminal => row'[o] \in {row[o], "forgotten"}
           /\ o \in pending' => row'[o] \notin Terminal
  BY DEF Terminal

\* A step of the relay settles no open command and unsettles no settled one.
LEMMA EntriesStand ==
    ASSUME RelayInv, OpenIsUnsettled, RelayNext
    PROVE  SettledStands /\ OpenIsUnsettled'
<1>1. RelayShape /\ QueueFits /\ \A o \in Ops : OpFits(o)
  BY DEF RelayInv
<1>2. pending \subseteq Ops /\ \A o \in pending : row[o] \notin Terminal
  BY <1>1 DEF OpenIsUnsettled, RelayShape
<1>3. ASSUME NEW o \in Ops, NEW k \in Kinds, Submit(o, k)
      PROVE  SettledStands /\ OpenIsUnsettled'
  <2>1. kind[o] = None /\ Write(o, "queued") /\ pending' = pending \cup {o}
    BY <1>3 DEF Submit
  <2>2. /\ row'[o] \in {"queued", "forgotten"}
        /\ \A p \in Ops \ {o} : row'[p] \in {row[p], "forgotten"}
    BY <1>1, <2>1, SettledTypes, WriteEffect
  <2>3. row[o] \notin Terminal /\ row'[o] \notin Terminal
    BY <1>1, <2>1, <2>2 DEF OpFits, Uncreated, AnswerFits, Terminal
  <2> QED BY <1>2, <2>1, <2>2, <2>3, LeftAlone DEF SettledStands, OpenIsUnsettled
<1>4. ASSUME NEW o \in Ops, NEW lost \in BOOLEAN, Claim(o, lost)
      PROVE  SettledStands /\ OpenIsUnsettled'
  <2>1. queue # << >> /\ o = Head(queue) /\ Update(o, "claimed") /\ pending' = pending
    BY <1>4 DEF Claim
  <2>2. /\ row'[o] \in {"claimed", "forgotten"}
        /\ \A p \in Ops \ {o} : row'[p] \in {row[p], "forgotten"}
    BY <1>1, <2>1, SettledTypes, UpdateEffect
  <2>3. o \in pending
    <3>1. queue \in Seq(Ops)
      BY <1>1 DEF RelayShape
    <3>2. Holds(queue, o)
      BY <2>1, <3>1 DEF Holds
    <3> QED BY <1>1, <3>2 DEF QueueFits
  <2>4. row[o] \notin Terminal /\ row'[o] \notin Terminal
    BY <1>2, <2>2, <2>3 DEF Terminal
  <2> QED BY <1>2, <2>1, <2>2, <2>4, LeftAlone DEF SettledStands, OpenIsUnsettled
<1>5. ASSUME NEW o \in Ops, NEW lost \in BOOLEAN, Post(o, lost)
      PROVE  SettledStands /\ OpenIsUnsettled'
  <2>1. CASE o \in pending
    <3>1. Update(o, Settled(o)) /\ pending' = pending \ {o}
      BY <1>5, <2>1 DEF Post, Record
    <3>2. \A p \in Ops \ {o} : row'[p] \in {row[p], "forgotten"}
      BY <1>1, <3>1, SettledTypes, UpdateEffect
    <3>3. row[o] \notin Terminal
      BY <1>2, <2>1
    <3> QED BY <1>2, <3>1, <3>2, <3>3, LeftAlone DEF SettledStands, OpenIsUnsettled
  <2>2. CASE o \notin pending /\ TakesLate(o)
    <3>1. Write(o, SettledLate(o)) /\ pending' = pending
      BY <1>5, <2>2 DEF Post, Record
    <3>2. \A p \in Ops \ {o} : row'[p] \in {row[p], "forgotten"}
      BY <1>1, <3>1, SettledTypes, WriteEffect
    <3>3. row[o] \notin Terminal
      BY <2>2 DEF TakesLate
    <3> QED BY <1>2, <2>2, <3>1, <3>2, <3>3, LeftAlone DEF SettledStands, OpenIsUnsettled
  <2>3. CASE o \notin pending /\ ~TakesLate(o)
    <3>1. row' = row /\ pending' = pending
      BY <1>5, <2>3 DEF Post, Record, journal
    <3> QED BY <1>2, <3>1 DEF SettledStands, OpenIsUnsettled
  <2> QED BY <2>1, <2>2, <2>3
<1>6. ASSUME NEW o \in Ops, Abandons(o)
      PROVE  SettledStands /\ OpenIsUnsettled'
  <2>1. PICK why \in {"timed_out", "cancelled"} : Update(o, LeftAs(o, why))
    BY <1>6 DEF Abandons
  <2>2. caller[o] = "expired" /\ pending' = pending \ {o}
    BY <1>6 DEF Abandons
  <2>3. \A p \in Ops \ {o} : row'[p] \in {row[p], "forgotten"}
    BY <1>1, <2>1, SettledTypes, UpdateEffect
  <2> QED BY <1>2, <2>2, <2>3, LeftAlone DEF SettledStands, OpenIsUnsettled
<1>7. ASSUME Restart
      PROVE  SettledStands /\ OpenIsUnsettled'
  <2>1. /\ pending' = {}
        /\ row' = [o \in Ops |-> IF row[o] \in Incomplete THEN Recovered(o) ELSE row[o]]
    BY <1>7 DEF Restart
  <2> QED BY <2>1 DEF SettledStands, OpenIsUnsettled, Incomplete, Terminal
<1>8. ASSUME row' = row, pending' = pending
      PROVE  SettledStands /\ OpenIsUnsettled'
  BY <1>2, <1>8 DEF SettledStands, OpenIsUnsettled
<1>9. CASE Registers \/ AgentCrashes
  BY <1>8, <1>9 DEF Registers, AgentCrashes, journal, node
<1>10. CASE \E o \in Ops : Expires(o) \/ Returns(o)
  BY <1>8, <1>10 DEF Expires, Returns, journal
<1>11. CASE \E o \in Ops : (\E says \in Answers : Executes(o, says)) \/ GivesUp(o) \/ ExecutesLate(o)
  BY <1>8, <1>11 DEF Executes, GivesUp, ExecutesLate, journal, node
<1> QED BY <1>3, <1>4, <1>5, <1>6, <1>7, <1>9, <1>10, <1>11 DEF RelayNext

\* A result that is in the journal stays what it is, whatever is claimed, posted
\* again, answered late or restarted (submit_result, update, _trim_memory), but
\* for the entry of a call that is cancelled over its own answer.
THEOREM SettledEntriesStand == Spec => [][SettledStands]_vars
<1>1. RelayInit => OpenIsUnsettled
  BY DEF RelayInit, OpenIsUnsettled
<1>2. RelayInv /\ OpenIsUnsettled /\ [RelayNext]_relayVars => OpenIsUnsettled'
  <2>1. UNCHANGED relayVars /\ OpenIsUnsettled => OpenIsUnsettled'
    BY DEF relayVars, journal, node, OpenIsUnsettled
  <2> QED BY <2>1, EntriesStand
<1>3. RelayInv /\ OpenIsUnsettled /\ [Next]_vars => [SettledStands]_vars
  <2> SUFFICES ASSUME RelayInv, OpenIsUnsettled, Next
               PROVE  SettledStands
    OBVIOUS
  <2>1. CASE RelayNext
    BY <2>1, EntriesStand
  <2>2. CASE UNCHANGED relayVars
    BY <2>2 DEF relayVars, journal, SettledStands
  <2> QED BY <2>1, <2>2, MovesTheRelay
<1> QED BY <1>1, <1>2, <1>3, RelayFits, ObeysTheRelay, PTL DEF Spec
-----------------------------------------------------------------------------
(* The transaction: its inductive invariant.                               *)

TxShape == [st : {"none", "new", "staged", "committing", "committed", "aborted"},
            base : Contents, rev : Nat, plan : Nat, preview : Nat, based : BOOLEAN]
CadRequest == [fp : Contents, plan : Nat]

CadShape ==
    /\ hist \in Seq(Contents) /\ tx \in TxShape
    /\ req \in [Ops -> CadRequest] /\ result \in [Ops -> Contents]
    /\ native \in Seq(Contents) /\ native # << >> /\ edits \in Contents
    /\ seen \subseteq ((Nat \ {0}) \X Contents) /\ applied \subseteq (Ops \X Contents)

\* The outcome of the begin was polled in this boot or an earlier one.
Begun == \E b \in Ops : kind[b] = "begin" /\ b \in final

\* There is one begin, and whatever rests on the record comes after its poll.
OneTransaction ==
    /\ \A a, b \in Ops : kind[a] = "begin" /\ kind[b] = "begin" => a = b
    /\ tx.st # "none" \/ tx.based => Begun
    /\ (\E o \in Ops : kind[o] \in {"preview", "commit"}) => Begun

\* The preview that the record accepted ran on the baseline.
PreviewFits == tx.preview # 0 => <<tx.preview, tx.base>> \in previews

\* o changed the document; o may still be run.
Took(o) == \E c \in Contents : <<o, c>> \in applied
Flies(o) == o \in pending \ claimed \/ agent = o \/ o \in late
Live(o) == kind[o] = "commit" /\ (Took(o) \/ Flies(o))

\* Of all commits that were sent, one at most counts for the document.
OneCommit == \A a, b \in Ops : Live(a) /\ Live(b) => a = b

RecordFits ==
    /\ tx.st \in {"new", "staged", "aborted"} => \A o \in Ops : ~Live(o)
    /\ tx.st = "committed" => /\ \E o \in Ops : kind[o] = "commit" /\ Took(o)
                              /\ \A o \in Ops : kind[o] = "commit" => ~Flies(o)

\* A change comes of a run; a success proves the effect; and a request was
\* built from what was previewed, at the baseline of its transaction.
CadFits(o) ==
    /\ Took(o) => ran[o] = 1
    /\ kind[o] = "commit" /\ answer[o] = "ok" => Took(o)
    /\ kind[o] = "preview" /\ answer[o] = "ok" => <<req[o].plan, req[o].fp>> \in previews
    /\ kind[o] = "preview" /\ tx.st # "none" => req[o].fp = tx.base
    /\ kind[o] = "commit" => <<req[o].plan, req[o].fp>> \in previews
    /\ kind[o] = "commit" => \A c \in Contents : <<o, c>> \in applied => c = req[o].fp

CadInv == /\ CadShape /\ OneTransaction /\ PreviewFits /\ OneCommit /\ RecordFits
          /\ \A o \in Ops : CadFits(o)

IInv == RelayInv /\ CadInv
-----------------------------------------------------------------------------
(* What the steps leave of the transaction.                                *)

\* The state of the document is one of its contents.
LEMMA ContentTypes ==
    ASSUME CadShape
    PROVE  /\ Content \in Contents /\ Len(native) \in Nat /\ Len(native) > 0
           /\ 0 \in Contents /\ Contents \subseteq Nat
  BY CadAssumption DEF CadShape, Content, Contents, CadAssumption

LEMMA EditShape ==
    ASSUME RelayInv, CadShape, Edit
    PROVE  /\ native' \in Seq(Contents) /\ native' # << >> /\ edits' \in Contents
           /\ edits + 1 \in Contents
<1>1. load.edits \in Nat /\ load.edits <= MaxEdits /\ edits < load.edits /\ MaxEdits \in Nat
  BY RelayAssumption, CadAssumption DEF RelayAssumption, CadAssumption, RelayInv, RelayShape, Edit
<1>2. edits + 1 \in Contents
  BY <1>1 DEF CadShape, Contents
<1> QED BY <1>2 DEF Edit, CadShape

\* Observing a content keeps the contents observed contents.
LEMMA ObservedShape ==
    ASSUME CadShape, NEW c \in Contents
    PROVE  Observed(c) \in Seq(Contents) /\ Len(Observed(c)) \in Nat \ {0}
  BY DEF CadShape, Observed, Current

\* A step that sends nothing, runs nothing and leaves the record alone keeps the
\* transaction: what may still be run can only become less.
LEMMA NothingNew ==
    ASSUME CadInv, CadShape', kind' = kind, ran' = ran, tx' = tx, req' = req,
           final' = final, previews' = previews, applied' = applied,
           \A o \in Ops : (Flies(o)' => Flies(o)) /\ (answer'[o] = "ok" => answer[o] = "ok")
    PROVE  CadInv'
<1>1. \A o \in Ops : (Took(o)' <=> Took(o)) /\ (Live(o)' => Live(o))
  BY DEF Took, Live
<1>2. OneTransaction' /\ PreviewFits'
  BY DEF CadInv, OneTransaction, PreviewFits, Begun
<1>3. OneCommit'
  BY <1>1 DEF CadInv, OneCommit
<1>4. RecordFits'
  BY <1>1 DEF CadInv, RecordFits
<1>5. ASSUME NEW o \in Ops
      PROVE  CadFits(o)'
  BY <1>1 DEF CadInv, CadFits
<1> QED BY <1>2, <1>3, <1>4, <1>5 DEF CadInv

\* An operation that was not created is not live, and has changed nothing.
LEMMA UncreatedIsQuiet ==
    ASSUME RelayInv, CadInv, NEW o \in Ops, kind[o] = None
    PROVE  ~Took(o) /\ ~Flies(o) /\ answer[o] = "none"
<1>1. Unrun(o) /\ answer[o] = "none" /\ o \notin pending
  BY DEF RelayInv, OpFits, Uncreated
<1>2. ~Took(o)
  <2>1. Took(o) => ran[o] = 1
    BY DEF CadInv, CadFits
  <2>2. ran[o] = 0
    BY <1>1 DEF Unrun
  <2> QED BY <2>1, <2>2
<1> QED BY <1>1, <1>2 DEF Unrun, Flies

LEMMA SendEffect ==
    ASSUME RelayInv, CadInv, NEW o \in Ops, NEW k \in Kinds, NEW r, Send(o, k, r)
    PROVE  /\ kind[o] = None /\ kind' \in [Ops -> Kinds \cup {None}] /\ kind'[o] = k
           /\ \A p \in Ops \ {o} : kind'[p] = kind[p] /\ req'[p] = req[p]
                                   /\ (Flies(p)' => Flies(p))
           /\ req'[o] = r /\ (r \in CadRequest => req' \in [Ops -> CadRequest])
           /\ ran' = ran /\ answer' = answer /\ applied' = applied /\ previews' = previews
           /\ native' = native /\ edits' = edits /\ result' = result
<1>1. kind \in [Ops -> Kinds \cup {None}] /\ req \in [Ops -> CadRequest]
  BY DEF RelayInv, RelayShape, CadInv, CadShape
<1>2. /\ kind[o] = None /\ kind' = [kind EXCEPT ![o] = k] /\ req' = [req EXCEPT ![o] = r]
      /\ pending' = pending \cup {o} /\ claimed' = claimed /\ agent' = agent /\ late' = late
      /\ ran' = ran /\ answer' = answer /\ applied' = applied /\ previews' = previews
      /\ native' = native /\ edits' = edits /\ result' = result
  BY DEF Send, Submit, workstation, document
<1> QED BY <1>1, <1>2 DEF Flies

\* There is one begin: a second is not sent.
LEMMA SendsOneBegin ==
    ASSUME RelayInv, NEW o \in Ops, Send(o, "begin", Plain)
    PROVE  \A p \in Ops : kind[p] # "begin"
<1> DEFINE B == {p \in Ops : kind[p] = "begin"}
<1>1. IsFiniteSet(B) /\ Cardinality(B) \in Nat
  <2>1. IsFiniteSet(Ops)
    BY FS_Interval, RelayAssumption DEF Ops, RelayAssumption
  <2>2. IsFiniteSet(B)
    BY <2>1, FS_Subset
  <2> QED BY <2>2, FS_CardinalityType
<1>2. Cardinality(B) < 1
  <2>1. load \in Loads /\ "begin" \in Kinds
    BY CadAssumption DEF RelayInv, RelayShape, CadAssumption, AllKinds
  <2>2. load.asks["begin"] <= 1 /\ load.asks["begin"] \in Nat
    BY <2>1, OneBegin, RelayAssumption DEF OneBegin, RelayAssumption
  <2>3. Cardinality(B) < load.asks["begin"]
    BY DEF Send, Submit
  <2> QED BY <1>1, <2>2, <2>3
<1>3. B = {}
  BY <1>1, <1>2, FS_EmptySet
<1> QED BY <1>3

\* Sending anything but a commit leaves the transaction as it is.
LEMMA SendKeeps ==
    ASSUME RelayInv, CadInv, NEW o \in Ops, NEW k \in Kinds \ {"commit"},
           NEW r \in CadRequest, Send(o, k, r), UNCHANGED service,
           k = "begin" => \A p \in Ops : kind[p] # "begin",
           k = "preview" => tx.based /\ r.fp = tx.base
    PROVE  CadInv'
<1>1. tx' = tx /\ hist' = hist /\ final' = final /\ seen' = seen
  BY DEF service
<1>2. CadShape'
  BY <1>1, SendEffect DEF CadInv, CadShape
<1>3. \A p \in Ops : (Took(p)' <=> Took(p)) /\ (Live(p)' => Live(p))
  BY SendEffect DEF Took, Live
<1>4. OneTransaction'
  <2>1. Begun => Begun'
    <3>1. \A b \in Ops : kind[b] = "begin" => kind'[b] = "begin"
      BY SendEffect, RelayAssumption, CadAssumption DEF RelayAssumption, CadAssumption, AllKinds
    <3> QED BY <1>1, <3>1 DEF Begun
  <2>2. \A a, b \in Ops : kind'[a] = "begin" /\ kind'[b] = "begin" => a = b
    BY SendEffect DEF CadInv, OneTransaction
  <2>3. (\E p \in Ops : kind'[p] \in {"preview", "commit"}) => Begun
    BY SendEffect DEF CadInv, OneTransaction
  <2> QED BY <1>1, <2>1, <2>2, <2>3 DEF CadInv, OneTransaction
<1>5. PreviewFits' /\ OneCommit'
  BY <1>1, <1>3, SendEffect DEF CadInv, PreviewFits, OneCommit
<1>6. RecordFits'
  <2>1. \A p \in Ops : kind'[p] = "commit" => kind[p] = "commit" /\ (Flies(p)' => Flies(p))
    BY SendEffect
  <2>2. \A p \in Ops : kind[p] = "commit" => kind'[p] = "commit"
    BY SendEffect, RelayAssumption, CadAssumption DEF RelayAssumption, CadAssumption, AllKinds
  <2> QED BY <1>1, <1>3, <2>1, <2>2 DEF CadInv, RecordFits
<1>7. ASSUME NEW p \in Ops \ {o}
      PROVE  CadFits(p)'
  BY <1>1, <1>3, SendEffect DEF CadInv, CadFits
<1>8. CadFits(o)'
  BY <1>1, <1>3, SendEffect, UncreatedIsQuiet DEF CadFits
<1> QED BY <1>2, <1>4, <1>5, <1>6, <1>7, <1>8 DEF CadInv

LEMMA AskCommitKeeps ==
    ASSUME RelayInv, CadInv, NEW o \in Ops, AskCommit(o)
    PROVE  CadInv'
<1>1. /\ tx.st = "staged" /\ tx.plan = 1 /\ tx.preview = 1 /\ tx.based
      /\ Send(o, "commit", Replay)
      /\ tx' = [tx EXCEPT !.st = "committing"] /\ hist' = hist /\ final' = final /\ seen' = seen
  BY DEF AskCommit, MayCommit, Replayable, Fresh
<1>2. "commit" \in Kinds
  BY CadAssumption DEF CadAssumption, AllKinds
<1>3. tx \in TxShape
  BY DEF CadInv, CadShape
<1>4. /\ tx' \in TxShape /\ tx'.st = "committing" /\ tx'.base = tx.base
      /\ tx'.preview = tx.preview /\ tx'.based = tx.based
  BY <1>1, <1>3 DEF TxShape
<1>5. Replay \in CadRequest /\ Replay.fp = tx.base /\ Replay.plan = tx.preview
  BY <1>1, <1>3 DEF TxShape, Replay, CadRequest
<1>6. CadShape'
  BY <1>1, <1>2, <1>4, <1>5, SendEffect DEF CadInv, CadShape
<1>7. \A p \in Ops : (Took(p)' <=> Took(p)) /\ (Live(p)' => p = o)
  <2>1. applied' = applied /\ \A p \in Ops \ {o} : kind'[p] = kind[p] /\ (Flies(p)' => Flies(p))
    BY <1>1, <1>2, SendEffect
  <2>2. \A p \in Ops : ~Live(p)
    BY <1>1 DEF CadInv, RecordFits
  <2>3. \A p \in Ops : Took(p)' <=> Took(p)
    BY <2>1 DEF Took
  <2> QED BY <2>1, <2>2, <2>3 DEF Live
<1>8. OneTransaction'
  <2>1. Begun => Begun'
    <3>1. \A b \in Ops : kind[b] = "begin" => kind'[b] = "begin"
      BY <1>1, <1>2, SendEffect, RelayAssumption, CadAssumption
      DEF RelayAssumption, CadAssumption, AllKinds
    <3> QED BY <1>1, <3>1 DEF Begun
  <2>2. \A a, b \in Ops : kind'[a] = "begin" /\ kind'[b] = "begin" => a = b
    BY <1>1, <1>2, SendEffect DEF CadInv, OneTransaction
  <2> QED BY <1>1, <2>1, <2>2 DEF CadInv, OneTransaction
<1>9. PreviewFits' /\ OneCommit' /\ RecordFits'
  BY <1>1, <1>2, <1>4, <1>7, SendEffect DEF CadInv, PreviewFits, OneCommit, RecordFits
<1>10. ASSUME NEW p \in Ops \ {o}
       PROVE  CadFits(p)'
  BY <1>1, <1>2, <1>4, <1>7, SendEffect DEF CadInv, CadFits
<1>11. CadFits(o)'
  <2>1. ~Took(o) /\ answer[o] = "none" /\ kind[o] = None
    BY <1>1, <1>2, SendEffect, UncreatedIsQuiet
  <2>2. /\ kind'[o] = "commit" /\ req'[o] = Replay /\ answer' = answer
        /\ previews' = previews /\ applied' = applied
    BY <1>1, <1>2, SendEffect
  <2>3. <<Replay.plan, Replay.fp>> \in previews
    BY <1>1, <1>5 DEF CadInv, PreviewFits
  <2> QED BY <1>7, <2>1, <2>2, <2>3 DEF CadFits, Took
<1> QED BY <1>6, <1>8, <1>9, <1>10, <1>11 DEF CadInv

LEMMA AskKeeps ==
    ASSUME RelayInv, CadInv, NEW o \in Ops, Ask(o)
    PROVE  CadInv'
<1>1. /\ Plain \in CadRequest /\ Replay \in CadRequest /\ Replay.fp = tx.base
      /\ AllKinds \ {"commit"} \subseteq Kinds \ {"commit"}
  BY ContentTypes, CadAssumption DEF CadInv, CadShape, TxShape, Plain, Replay, CadRequest, CadAssumption
<1>2. CASE AskPlain(o)
  <2>1. PICK k \in {"begin", "read", "raw"} : Send(o, k, Plain)
    BY <1>2 DEF AskPlain
  <2> QED BY <1>1, <1>2, <2>1, SendsOneBegin, SendKeeps DEF AskPlain, AllKinds
<1>3. CASE AskStage(o)
  BY <1>1, <1>3, SendKeeps DEF AskStage, AllKinds
<1>4. CASE AskPreview(o)
  BY <1>1, <1>4, SendKeeps DEF AskPreview, AllKinds, Replayable, Fresh
<1>5. CASE AskCommit(o)
  BY <1>5, AskCommitKeeps
<1>6. CASE AskAbort(o)
  BY <1>1, <1>6, SendKeeps DEF AskAbort, AllKinds
<1>7. CASE AskSet(o)
  <2>1. PICK v \in seen : v[1] = Current /\ Send(o, "set", [fp |-> hist[Current], plan |-> v[2]])
    BY <1>7 DEF AskSet
  <2>2. v[1] \in Nat \ {0} /\ v[2] \in Contents /\ hist \in Seq(Contents)
    BY <2>1 DEF CadInv, CadShape
  <2>3. hist[Current] \in Contents /\ v[2] \in Nat
    BY <2>1, <2>2, ContentTypes DEF Current, CadInv
  <2>4. [fp |-> hist[Current], plan |-> v[2]] \in CadRequest
    BY <2>3 DEF CadRequest
  <2> QED BY <1>1, <1>7, <2>1, <2>4, SendKeeps DEF AskSet, AllKinds
<1> QED BY <1>2, <1>3, <1>4, <1>5, <1>6, <1>7 DEF Ask

\* The reservation of a commit that the relay refused changes the record only.
LEMMA StrandKeeps ==
    ASSUME CadInv, StrandCommit
    PROVE  CadInv'
<1>1. /\ tx.st = "staged" /\ tx' = [tx EXCEPT !.st = "committing"]
      /\ hist' = hist /\ final' = final /\ seen' = seen /\ req' = req /\ result' = result
      /\ kind' = kind /\ ran' = ran /\ answer' = answer /\ pending' = pending
      /\ claimed' = claimed /\ agent' = agent /\ late' = late /\ native' = native
      /\ edits' = edits /\ previews' = previews /\ applied' = applied
  BY DEF StrandCommit, MayCommit, Replayable, relayVars, node, workstation, document
<1>2. /\ tx' \in TxShape /\ tx'.st = "committing" /\ tx'.base = tx.base
      /\ tx'.preview = tx.preview /\ tx'.based = tx.based
  BY <1>1 DEF CadInv, CadShape, TxShape
<1>3. \A p \in Ops : (Took(p)' <=> Took(p)) /\ (Live(p)' => Live(p))
  BY <1>1 DEF Took, Live, Flies
<1>4. CadShape' /\ OneTransaction' /\ PreviewFits'
  BY <1>1, <1>2 DEF CadInv, CadShape, OneTransaction, Begun, PreviewFits
<1>5. OneCommit' /\ RecordFits'
  BY <1>2, <1>3 DEF CadInv, OneCommit, RecordFits
<1>6. ASSUME NEW p \in Ops
      PROVE  CadFits(p)'
  BY <1>1, <1>2, <1>3 DEF CadInv, CadFits
<1> QED BY <1>4, <1>5, <1>6 DEF CadInv

-----------------------------------------------------------------------------
(* Runs.                                                                   *)

\* What a run of o may do to the document, and what it then answers.
Effect(o) ==
    \/ applied' = applied
    \/ /\ applied' = applied \cup {<<o, Content>>} /\ ran'[o] = 1
       /\ kind[o] = "commit" => req[o].fp = Content
Evidence(o) ==
    answer'[o] = "ok" =>
        /\ kind[o] = "commit" => answer[o] = "ok" \/ <<o, Content>> \in applied'
        /\ kind[o] = "preview" => answer[o] = "ok" \/ <<req[o].plan, req[o].fp>> \in previews'

LEMMA RunFits ==
    ASSUME RelayInv, CadInv, CadShape', NEW o \in Ops, Flies(o), Effect(o), Evidence(o),
           kind' = kind, tx' = tx, req' = req, final' = final, previews \subseteq previews',
           \A p \in Ops : Flies(p)' => Flies(p),
           \A p \in Ops \ {o} : ran'[p] = ran[p] /\ answer'[p] = answer[p]
    PROVE  CadInv'
<1>1. Content \in Contents
  BY ContentTypes DEF CadInv
<1>2. ~Took(o)
  <2>1. Took(o) => ran[o] = 1
    BY DEF CadInv, CadFits
  <2>2. ran[o] = 0
    BY DEF RelayInv, OpFits, OneRun, Unrun, Flies
  <2> QED BY <2>1, <2>2
<1>3. \A p \in Ops \ {o} : Took(p)' <=> Took(p)
  <2> SUFFICES ASSUME NEW p \in Ops \ {o}
               PROVE  Took(p)' <=> Took(p)
    OBVIOUS
  <2>1. \A c : <<p, c>> \in applied' <=> <<p, c>> \in applied
    BY DEF Effect
  <2> QED BY <2>1 DEF Took
<1>4. /\ Took(o)' => ran'[o] = 1
      /\ \A c \in Contents : <<o, c>> \in applied' =>
             c = Content /\ (kind[o] = "commit" => req[o].fp = Content)
  BY <1>1, <1>2 DEF Took, Effect
<1>5. \A p \in Ops : Live(p)' => Live(p)
  BY <1>3 DEF Live
<1>6. OneTransaction' /\ PreviewFits' /\ OneCommit'
  BY <1>5 DEF CadInv, OneTransaction, PreviewFits, OneCommit, Begun
<1>7. RecordFits'
  <2>1. \A p \in Ops : Took(p) => Took(p)'
    BY <1>2, <1>3
  <2> QED BY <1>5, <2>1 DEF CadInv, RecordFits
<1>8. ASSUME NEW p \in Ops \ {o}
      PROVE  CadFits(p)'
  <2>1. \A c \in Contents : <<p, c>> \in applied' => <<p, c>> \in applied
    BY DEF Effect
  <2> QED BY <1>3, <2>1 DEF CadInv, CadFits
<1>9. CadFits(o)'
  <2>1. CadFits(o)
    BY DEF CadInv
  <2>2. kind[o] = "commit" /\ answer'[o] = "ok" => Took(o)'
    BY <1>1, <1>2, <2>1 DEF Evidence, Took, CadFits
  <2>3. kind[o] = "preview" /\ answer'[o] = "ok" => <<req[o].plan, req[o].fp>> \in previews'
    BY <2>1 DEF Evidence, CadFits
  <2> QED BY <1>4, <2>1, <2>2, <2>3 DEF CadFits
<1> QED BY <1>6, <1>7, <1>8, <1>9 DEF CadInv

LEMMA LooksEffect ==
    ASSUME RelayInv, CadInv, NEW o \in Ops, Looks(o)
    PROVE  /\ native' = native /\ edits' = edits /\ applied' = applied
           /\ result' \in [Ops -> Contents] /\ previews \subseteq previews' /\ kind[o] # "commit"
           /\ kind[o] = "preview" => <<req[o].plan, req[o].fp>> \in previews'
  BY ContentTypes DEF Looks, CadInv, CadShape

LEMMA ChangesEffect ==
    ASSUME RelayInv, CadInv, NEW o \in Ops, Changes(o)
    PROVE  /\ native' \in Seq(Contents) /\ native' # << >> /\ edits' \in Contents
           /\ applied' = applied \cup {<<o, Content>>} /\ applied' \subseteq (Ops \X Contents)
           /\ result' \in [Ops -> Contents] /\ previews' = previews /\ kind[o] # "preview"
           /\ kind[o] = "commit" => req[o].fp = Content
<1>1. CadShape /\ Content \in Contents
  BY ContentTypes DEF CadInv
<1>2. /\ native' \in Seq(Contents) /\ native' # << >> /\ edits' \in Contents
      /\ edits + 1 \in Contents
  BY <1>1, EditShape DEF Changes
<1> QED BY <1>1, <1>2 DEF Changes, CadShape

LEMMA RunKeeps ==
    ASSUME RelayInv, CadInv, NEW o \in Ops, Run(o)
    PROVE  CadInv'
<1>1. /\ tx' = tx /\ hist' = hist /\ final' = final /\ seen' = seen /\ req' = req
  BY DEF Run, service
<1>2. PICK says \in Answers : Executes(o, says)
  BY DEF Run, Answers
<1>3. /\ agent = o /\ agent' = None /\ answer' = [answer EXCEPT ![o] = says]
      /\ ran' = [ran EXCEPT ![o] = @ + 1] /\ kind' = kind /\ late' = late
      /\ pending' = pending /\ claimed' = claimed
  BY <1>2 DEF Executes, node
<1>4. None \notin Ops /\ ran[o] = 0 /\ RelayShape
  BY <1>3, RelayAssumption DEF RelayAssumption, RelayInv, OpFits, OneRun
<1>5. /\ Flies(o) /\ \A p \in Ops : Flies(p)' => Flies(p)
      /\ ran'[o] = 1 /\ answer'[o] = says
      /\ \A p \in Ops \ {o} : ran'[p] = ran[p] /\ answer'[p] = answer[p]
  BY <1>3, <1>4 DEF Flies, RelayShape
<1>6. \/ Looks(o) \/ Changes(o)
      \/ NoEffect /\ Executes(o, "error")
      \/ NoEffect /\ Executes(o, "uncertain")
  BY DEF Run
<1>7. CASE Looks(o)
  <2>1. CadShape' /\ Effect(o) /\ Evidence(o)
    BY <1>1, <1>7, LooksEffect DEF CadInv, CadShape, Effect, Evidence
  <2> QED BY <1>1, <1>3, <1>5, <1>7, <2>1, LooksEffect, RunFits
<1>8. CASE Changes(o)
  <2>1. CadShape'
    BY <1>1, <1>8, ChangesEffect DEF CadInv, CadShape
  <2>2. Effect(o) /\ Evidence(o)
    BY <1>5, <1>8, ChangesEffect DEF Effect, Evidence
  <2> QED BY <1>1, <1>3, <1>5, <1>8, <2>1, <2>2, ChangesEffect, RunFits
<1>9. CASE NoEffect /\ (Executes(o, "error") \/ Executes(o, "uncertain"))
  <2>1. CadShape' /\ applied' = applied /\ previews' = previews
    BY <1>1, <1>9 DEF NoEffect, document, CadInv, CadShape
  <2>2. answer'[o] # "ok"
    BY <1>4, <1>9 DEF Executes, RelayShape
  <2>3. Effect(o) /\ Evidence(o)
    BY <2>1, <2>2 DEF Effect, Evidence
  <2> QED BY <1>1, <1>3, <1>5, <2>1, <2>3, RunFits
<1> QED BY <1>6, <1>7, <1>8, <1>9

LEMMA RunLateKeeps ==
    ASSUME RelayInv, CadInv, NEW o \in Ops, RunLate(o)
    PROVE  CadInv'
<1>1. /\ tx' = tx /\ hist' = hist /\ final' = final /\ seen' = seen /\ req' = req
  BY DEF RunLate, service
<1>2. /\ o \in late /\ late' = late \ {o} /\ ran' = [ran EXCEPT ![o] = @ + 1]
      /\ kind' = kind /\ agent' = agent /\ answer' = answer
      /\ pending' = pending /\ claimed' = claimed
  BY DEF RunLate, ExecutesLate, node
<1>3. ran[o] = 0 /\ RelayShape
  BY <1>2 DEF RelayInv, OpFits, OneRun
<1>4. /\ Flies(o) /\ \A p \in Ops : Flies(p)' => Flies(p)
      /\ ran'[o] = 1
      /\ \A p \in Ops \ {o} : ran'[p] = ran[p] /\ answer'[p] = answer[p]
  BY <1>2, <1>3 DEF Flies, RelayShape
<1>5. Changes(o) \/ NoEffect
  BY DEF RunLate
<1>6. Evidence(o)
  BY <1>2 DEF Evidence
<1>7. CASE Changes(o)
  <2>1. CadShape'
    BY <1>1, <1>7, ChangesEffect DEF CadInv, CadShape
  <2>2. Effect(o)
    BY <1>4, <1>7, ChangesEffect DEF Effect
  <2> QED BY <1>1, <1>2, <1>4, <1>6, <1>7, <2>1, <2>2, ChangesEffect, RunFits
<1>8. CASE NoEffect
  <2>1. CadShape' /\ applied' = applied /\ previews' = previews
    BY <1>1, <1>8 DEF NoEffect, document, CadInv, CadShape
  <2>2. Effect(o)
    BY <2>1 DEF Effect
  <2> QED BY <1>1, <1>2, <1>4, <1>6, <2>1, <2>2, RunFits
<1> QED BY <1>5, <1>7, <1>8
-----------------------------------------------------------------------------
(* Outcomes.                                                               *)

LEMMA PollEffect ==
    ASSUME RelayInv, CadInv, NEW o \in Ops, NEW k, Poll(o, k)
    PROVE  /\ kind[o] = k /\ answer[o] = "ok" /\ o \notin final
           /\ final' = final \cup {o} /\ hist' \in Seq(Contents) /\ Len(hist') \in Nat \ {0}
           /\ kind' = kind /\ ran' = ran /\ answer' = answer /\ applied' = applied
           /\ previews' = previews /\ req' = req /\ result' = result /\ seen' = seen
           /\ native' = native /\ edits' = edits /\ result[o] \in Contents
           /\ \A p \in Ops : (Flies(p)' <=> Flies(p)) /\ (Took(p)' <=> Took(p))
                           /\ (Live(p)' <=> Live(p))
<1>1. /\ kind[o] = k /\ row[o] \in {"succeeded", "late_succeeded"} /\ o \notin final
      /\ hist' = Observed(result[o]) /\ final' = final \cup {o}
      /\ kind' = kind /\ ran' = ran /\ answer' = answer /\ applied' = applied
      /\ previews' = previews /\ req' = req /\ result' = result /\ seen' = seen
      /\ native' = native /\ edits' = edits
      /\ pending' = pending /\ claimed' = claimed /\ agent' = agent /\ late' = late
  BY DEF Poll, Unfinalized, relayVars, node, workstation, document
<1>2. row[o] \in {Settled(o), SettledLate(o)}
  BY <1>1 DEF RelayInv, OpFits, AnswerFits, Terminal
<1>3. answer[o] = "ok"
  BY <1>1, <1>2 DEF Settled, SettledLate
<1>4. result[o] \in Contents /\ hist' \in Seq(Contents) /\ Len(hist') \in Nat \ {0}
  BY <1>1, ObservedShape DEF CadInv, CadShape
<1> QED BY <1>1, <1>3, <1>4 DEF Flies, Took, Live

\* The outcome of anything but a begin: a step of the record that keeps its
\* baseline, and accepts only a preview that ran on it.
LEMMA FinishFits ==
    ASSUME RelayInv, CadInv, NEW o \in Ops, NEW k, k # "begin", Poll(o, k),
           tx' \in TxShape, tx'.base = tx.base,
           tx'.st # "none" <=> tx.st # "none", tx'.based => tx.based,
           tx'.preview \in {0, tx.preview} \/ <<tx'.preview, tx.base>> \in previews,
           RecordFits'
    PROVE  CadInv'
<1>1. CadShape'
  BY PollEffect DEF CadInv, CadShape
<1>2. OneTransaction'
  <2>1. Begun => Begun'
    BY PollEffect DEF Begun
  <2> QED BY <2>1, PollEffect DEF CadInv, OneTransaction
<1>3. PreviewFits' /\ OneCommit'
  BY PollEffect DEF CadInv, PreviewFits, OneCommit
<1>4. ASSUME NEW p \in Ops
      PROVE  CadFits(p)'
  <2>1. /\ CadFits(p) /\ kind' = kind /\ ran' = ran /\ answer' = answer /\ req' = req
        /\ applied' = applied /\ previews' = previews /\ (Took(p)' <=> Took(p))
    BY PollEffect DEF CadInv
  <2> QED BY <2>1 DEF CadFits
<1> QED BY <1>1, <1>2, <1>3, <1>4 DEF CadInv

LEMMA FinishBeginKeeps ==
    ASSUME RelayInv, CadInv, NEW o \in Ops, FinishBegin(o)
    PROVE  CadInv'
<1>1. /\ Poll(o, "begin") /\ tx.st = "none"
      /\ tx' = [st |-> "new", base |-> result[o], rev |-> Len(hist'), plan |-> 0,
                preview |-> 0, based |-> TRUE]
  BY DEF FinishBegin
<1>2. /\ tx' \in TxShape /\ tx'.st = "new" /\ tx'.preview = 0
  BY <1>1, PollEffect DEF TxShape
<1>3. CadShape'
  BY <1>1, <1>2, PollEffect DEF CadInv, CadShape
<1>4. ~Begun /\ \A p \in Ops : kind[p] \notin {"preview", "commit"}
  BY <1>1, PollEffect DEF CadInv, OneTransaction, Begun
<1>5. OneTransaction'
  <2>1. Begun'
    BY <1>1, PollEffect DEF Begun
  <2> QED BY <1>1, <2>1, PollEffect DEF CadInv, OneTransaction
<1>6. PreviewFits' /\ OneCommit' /\ RecordFits'
  BY <1>1, <1>2, <1>4, PollEffect DEF CadInv, PreviewFits, OneCommit, RecordFits, Live
<1>7. ASSUME NEW p \in Ops
      PROVE  CadFits(p)'
  BY <1>1, <1>4, PollEffect DEF CadInv, CadFits
<1> QED BY <1>3, <1>5, <1>6, <1>7 DEF CadInv

LEMMA FinishStageKeeps ==
    ASSUME RelayInv, CadInv, NEW o \in Ops, FinishStage(o)
    PROVE  CadInv'
<1>1. /\ Poll(o, "stage") /\ tx.st \in {"new", "staged"} /\ tx \in TxShape
      /\ tx' = [tx EXCEPT !.st = "staged", !.plan = @ + 1, !.preview = 0]
  BY DEF FinishStage, MayExtend, CadInv, CadShape
<1>2. /\ tx' \in TxShape /\ tx'.st = "staged" /\ tx'.base = tx.base /\ tx'.preview = 0
      /\ tx'.based = tx.based
  <2>1. /\ tx.base \in Contents /\ tx.rev \in Nat /\ tx.plan + 1 \in Nat /\ tx.based \in BOOLEAN
        /\ tx = [st |-> tx.st, base |-> tx.base, rev |-> tx.rev, plan |-> tx.plan,
                 preview |-> tx.preview, based |-> tx.based]
    BY <1>1 DEF TxShape
  <2>2. tx' = [st |-> "staged", base |-> tx.base, rev |-> tx.rev, plan |-> tx.plan + 1,
               preview |-> 0, based |-> tx.based]
    BY <1>1, <2>1
  <2> QED BY <2>1, <2>2 DEF TxShape
<1>3. RecordFits'
  BY <1>1, <1>2, PollEffect DEF CadInv, RecordFits
<1> QED BY <1>1, <1>2, <1>3, FinishFits

LEMMA FinishPreviewKeeps ==
    ASSUME RelayInv, CadInv, NEW o \in Ops, FinishPreview(o)
    PROVE  CadInv'
<1>1. Poll(o, "preview") /\ tx \in TxShape
  BY DEF FinishPreview, CadInv, CadShape
<1>2. CASE tx' = tx
  <2>1. RecordFits'
    BY <1>1, <1>2, PollEffect DEF CadInv, RecordFits
  <2> QED BY <1>1, <1>2, <2>1, FinishFits
<1>3. CASE tx.st = "staged" /\ tx' = [tx EXCEPT !.preview = req[o].plan]
  <2>1. req[o] \in CadRequest
    BY DEF CadInv, CadShape
  <2>2. /\ tx' \in TxShape /\ tx'.st = "staged" /\ tx'.base = tx.base
        /\ tx'.preview = req[o].plan /\ tx'.based = tx.based
    BY <1>1, <1>3, <2>1 DEF TxShape, CadRequest
  <2>3. <<req[o].plan, tx.base>> \in previews
    BY <1>1, <1>3, PollEffect DEF CadInv, CadFits
  <2>4. RecordFits'
    BY <1>1, <1>3, <2>2, PollEffect DEF CadInv, RecordFits
  <2> QED BY <1>1, <1>3, <2>2, <2>3, <2>4, FinishFits
<1> QED BY <1>2, <1>3 DEF FinishPreview

LEMMA FinishCommitKeeps ==
    ASSUME RelayInv, CadInv, NEW o \in Ops, FinishCommit(o)
    PROVE  CadInv'
<1>1. /\ Poll(o, "commit") /\ tx \in TxShape /\ tx.based
      /\ tx.plan > 0 => tx.st = "committing"
      /\ tx' = [tx EXCEPT !.st = IF tx.plan > 0 THEN "committed" ELSE @, !.based = FALSE]
  BY DEF FinishCommit, CadInv, CadShape
<1>2. /\ tx' \in TxShape /\ tx'.base = tx.base /\ tx'.preview = tx.preview /\ ~tx'.based
      /\ tx'.st = IF tx.plan > 0 THEN "committed" ELSE tx.st
  BY <1>1 DEF TxShape
<1>3. kind[o] = "commit" /\ Took(o) /\ Live(o)
  BY <1>1, PollEffect DEF CadInv, CadFits, Live
<1>4. ~Flies(o)
  <2>1. ran[o] = 1
    BY <1>3 DEF CadInv, CadFits
  <2> QED BY <2>1 DEF RelayInv, OpFits, OneRun, Unrun, Flies
<1>5. \A p \in Ops : kind[p] = "commit" => ~Flies(p)
  BY <1>3, <1>4 DEF CadInv, OneCommit, Live
<1>6. RecordFits'
  BY <1>1, <1>2, <1>3, <1>5, PollEffect DEF CadInv, RecordFits
<1>7. tx'.st # "none" <=> tx.st # "none"
  BY <1>1, <1>2
<1> QED BY <1>1, <1>2, <1>6, <1>7, FinishFits

LEMMA FinishAbortKeeps ==
    ASSUME RelayInv, CadInv, NEW o \in Ops, FinishAbort(o)
    PROVE  CadInv'
<1>1. /\ Poll(o, "abort") /\ tx \in TxShape /\ tx.st \notin {"committing", "committed", "aborted"}
      /\ tx' = [tx EXCEPT !.st = IF @ = "none" THEN @ ELSE "aborted", !.based = FALSE]
  BY DEF FinishAbort, MayAbort, CadInv, CadShape
<1>2. /\ tx' \in TxShape /\ tx'.base = tx.base /\ tx'.preview = tx.preview /\ ~tx'.based
      /\ tx'.st = IF tx.st = "none" THEN "none" ELSE "aborted"
  BY <1>1 DEF TxShape
<1>3. tx.st = "none" \/ tx.st \in {"new", "staged"}
  BY <1>1 DEF TxShape
<1>4. RecordFits'
  BY <1>1, <1>2, <1>3, PollEffect DEF CadInv, RecordFits
<1>5. tx'.st # "none" <=> tx.st # "none"
  BY <1>2
<1> QED BY <1>1, <1>2, <1>4, <1>5, FinishFits

LEMMA FinishSetKeeps ==
    ASSUME RelayInv, CadInv, NEW o \in Ops, FinishSet(o)
    PROVE  CadInv'
<1>1. Poll(o, "set") /\ tx' = tx /\ tx \in TxShape
  BY DEF FinishSet, CadInv, CadShape
<1>2. RecordFits'
  BY <1>1, PollEffect DEF CadInv, RecordFits
<1> QED BY <1>1, <1>2, FinishFits

LEMMA ReturnReadKeeps ==
    ASSUME RelayInv, CadInv, NEW o \in Ops, ReturnRead(o)
    PROVE  CadInv'
<1>1. /\ kind' = kind /\ ran' = ran /\ answer' = answer /\ pending' = pending
      /\ claimed' = claimed /\ agent' = agent /\ late' = late
      /\ tx' = tx /\ final' = final /\ req' = req /\ result' = result
      /\ native' = native /\ edits' = edits /\ previews' = previews /\ applied' = applied
  BY DEF ReturnRead, Returns, workstation, document
<1>2. hist' \in Seq(Contents) /\ seen' \subseteq ((Nat \ {0}) \X Contents)
  <2>1. CASE kind[o] = "read" /\ answer[o] = "ok"
    <3>1. result[o] \in Contents
      BY DEF CadInv, CadShape
    <3>2. hist' \in Seq(Contents) /\ Len(hist') \in Nat \ {0}
      BY <2>1, <3>1, ObservedShape DEF ReturnRead, CadInv
    <3> QED BY <2>1, <3>1, <3>2 DEF ReturnRead, CadInv, CadShape
  <2>2. CASE ~(kind[o] = "read" /\ answer[o] = "ok")
    BY <2>2 DEF ReturnRead, CadInv, CadShape
  <2> QED BY <2>1, <2>2
<1>3. CadShape'
  BY <1>1, <1>2 DEF CadInv, CadShape
<1> QED BY <1>1, <1>3, NothingNew DEF Flies

-----------------------------------------------------------------------------
(* The relay's own steps, the owner and the restart.                       *)

LEMMA RelayStepKeeps ==
    ASSUME RelayInv, CadInv, RelayStep
    PROVE  CadInv'
<1>1. /\ tx' = tx /\ hist' = hist /\ final' = final /\ seen' = seen /\ req' = req
      /\ result' = result /\ native' = native /\ edits' = edits /\ previews' = previews
      /\ applied' = applied
  BY DEF RelayStep, cadVars, service, document
<1>2. CadShape'
  BY <1>1 DEF CadInv, CadShape
<1>3. RelayShape /\ None \notin Ops
  BY RelayAssumption DEF RelayInv, RelayAssumption
<1>4. CASE Registers
  BY <1>1, <1>2, <1>4, NothingNew DEF Registers, node, workstation, Flies
<1>5. CASE AgentCrashes
  BY <1>1, <1>2, <1>3, <1>5, NothingNew DEF AgentCrashes, node, Flies
<1>6. ASSUME NEW o \in Ops, NEW lost \in BOOLEAN, Claim(o, lost)
      PROVE  CadInv'
  <2>1. /\ queue # << >> /\ o = Head(queue) /\ claimed' = claimed \cup {o} /\ agent' \in {None, o}
        /\ agent = None /\ kind' = kind /\ ran' = ran /\ answer' = answer /\ late' = late
        /\ pending' = pending
    BY <1>6 DEF Claim
  <2>2. Holds(queue, o)
    BY <1>3, <2>1 DEF RelayShape, Holds
  <2>3. o \in pending \ claimed
    BY <2>2 DEF RelayInv, QueueFits
  <2> QED BY <1>1, <1>2, <1>3, <2>1, <2>3, NothingNew DEF Flies
<1>7. ASSUME NEW o \in Ops, NEW lost \in BOOLEAN, Post(o, lost)
      PROVE  CadInv'
  <2>1. /\ pending' \subseteq pending /\ claimed' = claimed /\ kind' = kind /\ ran' = ran
        /\ answer' = answer /\ late' = late /\ agent' = agent
    BY <1>7 DEF Post, Record
  <2> QED BY <1>1, <1>2, <2>1, NothingNew DEF Flies
<1>8. ASSUME NEW o \in Ops, Expires(o) \/ Abandons(o)
      PROVE  CadInv'
  <2>1. /\ pending' \subseteq pending /\ claimed' = claimed /\ kind' = kind /\ ran' = ran
        /\ answer' = answer /\ late' = late /\ agent' = agent
    BY <1>8 DEF Expires, Abandons, workstation
  <2> QED BY <1>1, <1>2, <2>1, NothingNew DEF Flies
<1>9. ASSUME NEW o \in Ops, GivesUp(o)
      PROVE  CadInv'
  <2>1. /\ pending' = pending /\ claimed' = claimed /\ kind' = kind /\ ran' = ran
        /\ answer' = [answer EXCEPT ![o] = "error"] /\ late' = late \cup {o}
        /\ agent = o /\ agent' = None
    BY <1>9 DEF GivesUp, node
  <2> QED BY <1>1, <1>2, <1>3, <2>1, NothingNew DEF Flies, RelayShape
<1> QED BY <1>4, <1>5, <1>6, <1>7, <1>8, <1>9 DEF RelayStep

LEMMA OwnerKeeps ==
    ASSUME RelayInv, CadInv, OwnerEdits \/ OwnerUndoes
    PROVE  CadInv'
<1>1. /\ tx' = tx /\ hist' = hist /\ final' = final /\ seen' = seen /\ req' = req
      /\ result' = result /\ previews' = previews /\ applied' = applied
      /\ kind' = kind /\ ran' = ran /\ answer' = answer /\ pending' = pending
      /\ claimed' = claimed /\ agent' = agent /\ late' = late
  BY DEF OwnerEdits, OwnerUndoes, service, relayVars, node, workstation
<1>2. native' \in Seq(Contents) /\ native' # << >> /\ edits' \in Contents
  <2>1. CASE OwnerEdits
    BY <2>1, EditShape DEF OwnerEdits, CadInv
  <2>2. CASE OwnerUndoes
    <3>1. /\ native \in Seq(Contents) /\ Len(native) > 1 /\ Len(native) \in Nat
          /\ native' = SubSeq(native, 1, Len(native) - 1) /\ edits' = edits
      BY <2>2 DEF OwnerUndoes, CadInv, CadShape
    <3>2. native' \in Seq(Contents) /\ Len(native') = Len(native) - 1
      BY <3>1
    <3>3. edits' \in Contents
      BY <3>1 DEF CadInv, CadShape
    <3>4. Len(native') > 0
      BY <3>1, <3>2
    <3>5. native' # << >>
      BY <3>4
    <3> QED BY <3>2, <3>3, <3>5
  <2> QED BY <2>1, <2>2
<1>3. CadShape'
  BY <1>1, <1>2 DEF CadInv, CadShape
<1> QED BY <1>1, <1>3, NothingNew DEF Flies

\* After a restart there is no record; what was sent stays sent.
LEMMA RestartAllKeeps ==
    ASSUME RelayInv, CadInv, RestartAll
    PROVE  CadInv'
<1>1. /\ kind' = kind /\ ran' = ran /\ answer' = answer /\ pending' = {} /\ claimed' = {}
      /\ agent' = agent /\ late' = late /\ tx' = NoTx /\ hist' = << >>
      /\ final' = final /\ seen' = seen /\ req' = req /\ result' = result
      /\ native' = native /\ edits' = edits /\ previews' = previews /\ applied' = applied
  BY DEF RestartAll, Restart, workstation, document
<1>2. /\ tx' \in TxShape /\ tx'.st = "none" /\ ~tx'.based /\ tx'.preview = 0
  BY <1>1, ContentTypes DEF NoTx, TxShape, CadInv
<1>3. \A p \in Ops : (Took(p)' <=> Took(p)) /\ (Live(p)' => Live(p))
  BY <1>1 DEF Took, Live, Flies
<1>4. CadShape' /\ OneTransaction' /\ PreviewFits'
  BY <1>1, <1>2 DEF CadInv, CadShape, OneTransaction, Begun, PreviewFits
<1>5. OneCommit' /\ RecordFits'
  BY <1>2, <1>3 DEF CadInv, OneCommit, RecordFits
<1>6. ASSUME NEW p \in Ops
      PROVE  CadFits(p)'
  BY <1>1, <1>2, <1>3 DEF CadInv, CadFits
<1> QED BY <1>4, <1>5, <1>6 DEF CadInv

-----------------------------------------------------------------------------
LEMMA CadStartsFit == Init => CadInv
<1> SUFFICES ASSUME Init PROVE CadInv
  OBVIOUS
<1>1. MaxEdits \in Nat /\ 0 \in Contents /\ None \notin AllKinds /\ None \notin Ops
  BY CadAssumption, RelayAssumption DEF CadAssumption, RelayAssumption, Contents
<1>2. CadShape
  BY <1>1 DEF Init, CadShape, NoTx, TxShape, CadRequest
<1>3. \A o \in Ops : ~Took(o) /\ kind[o] \notin AllKinds /\ answer[o] = "none"
  BY <1>1 DEF Init, RelayInit, Took
<1>4. OneTransaction /\ PreviewFits /\ OneCommit /\ RecordFits
  BY <1>3 DEF Init, OneTransaction, PreviewFits, OneCommit, RecordFits, NoTx, Live, AllKinds
<1>5. \A o \in Ops : CadFits(o)
  BY <1>3 DEF CadFits, AllKinds
<1> QED BY <1>2, <1>4, <1>5 DEF CadInv

LEMMA CadStays == CadInv /\ UNCHANGED vars => CadInv'
<1> SUFFICES ASSUME CadInv, UNCHANGED vars PROVE CadInv'
  OBVIOUS
<1>1. /\ tx' = tx /\ hist' = hist /\ final' = final /\ seen' = seen /\ req' = req
      /\ result' = result /\ previews' = previews /\ applied' = applied
      /\ native' = native /\ edits' = edits
      /\ kind' = kind /\ ran' = ran /\ answer' = answer /\ pending' = pending
      /\ claimed' = claimed /\ agent' = agent /\ late' = late
  BY DEF vars, cadVars, service, document, relayVars, node, workstation
<1>2. CadShape'
  BY <1>1 DEF CadInv, CadShape
<1> QED BY <1>1, <1>2, NothingNew DEF Flies

LEMMA CadKeeps == RelayInv /\ CadInv /\ [Next]_vars => CadInv'
<1> SUFFICES ASSUME RelayInv, CadInv, Next
             PROVE  CadInv'
  BY CadStays
<1>1. CASE \E o \in Ops : Ask(o)
  BY <1>1, AskKeeps
<1>2. CASE \E o \in Ops : Run(o) \/ RunLate(o)
  BY <1>2, RunKeeps, RunLateKeeps
<1>3. CASE \E o \in Ops : Finish(o)
  BY <1>3, FinishBeginKeeps, FinishStageKeeps, FinishPreviewKeeps, FinishCommitKeeps,
     FinishAbortKeeps, FinishSetKeeps DEF Finish
<1>4. CASE \E o \in Ops : ReturnRead(o)
  BY <1>4, ReturnReadKeeps
<1>5. CASE StrandCommit \/ OwnerEdits \/ OwnerUndoes
  BY <1>5, StrandKeeps, OwnerKeeps
<1>6. CASE RestartAll \/ RelayStep
  BY <1>6, RestartAllKeeps, RelayStepKeeps
<1> QED BY <1>1, <1>2, <1>3, <1>4, <1>5, <1>6 DEF Next

\* The record of the transaction, the commits that were sent and the contents of
\* the document fit together.
THEOREM TransactionFits == Spec => []CadInv
<1>1. Init => CadInv
  BY CadStartsFit
<1> QED BY <1>1, CadKeeps, RelayFits, PTL DEF Spec

\* What the record says of the document is true, over late answers, late polls
\* and restarts (transactions.py, finalize_terminal_operation).
THEOREM RecordIsTrue == Spec => []CommitTruth
<1>1. CadInv => CommitTruth
  <2> SUFFICES ASSUME CadInv PROVE CommitTruth
    OBVIOUS
  <2>1. \A o : o \in Applied <=> o \in Ops /\ kind[o] = "commit" /\ Took(o)
    BY DEF Applied, Commits, Took
  <2>2. \A o : o \in InFlight <=> o \in Ops /\ kind[o] = "commit" /\ Flies(o)
    BY DEF InFlight, Commits, Flies
  <2>3. tx.st \in {"new", "staged", "aborted"} => Applied \cup InFlight = {}
    BY <2>1, <2>2 DEF CadInv, RecordFits, Live
  <2>4. ASSUME tx.st = "committed"
        PROVE  Cardinality(Applied) = 1 /\ InFlight = {}
    <3>1. PICK o \in Ops : kind[o] = "commit" /\ Took(o)
      BY <2>4 DEF CadInv, RecordFits
    <3>2. Applied = {o}
      BY <2>1, <3>1 DEF CadInv, OneCommit, Live
    <3>3. InFlight = {}
      BY <2>2, <2>4 DEF CadInv, RecordFits
    <3> QED BY <3>2, <3>3, FS_Singleton
  <2> QED BY <2>3, <2>4 DEF CommitTruth
<1> QED BY <1>1, TransactionFits, PTL

\* A commit that changed the document replayed the plan of a preview, on the
\* content that preview ran on (begin_commit, the scripts' guards).
THEOREM CommitsArePreviewed == Spec => []CommitIsPreviewed
<1>1. CadInv => CommitIsPreviewed
  BY DEF CadInv, CadFits, CommitIsPreviewed, Commits
<1> QED BY <1>1, TransactionFits, PTL
-----------------------------------------------------------------------------
(* The rich provider: its inductive invariant.                             *)

CallShape ==
    [at : Places, mode : {"commit", "preview"}, rev : Nat, gen : Nat, guard : Nat,
     seen : Nat, post : Nat, reply : {"none", "conflict", "rejected", "uncertain", "applied"},
     told : Told, live : BOOLEAN, on : Nat \cup {Nothing}, made : Nat, ranIn : Nat]
State == [content : Nat, guard : Nat]
Bond == [guard : Nat, session : Nat]

HandsShape ==
    /\ design \in Seq(State) /\ design # << >> /\ stamps \in Nat
    /\ undoer \in Requests \cup {Nothing}
    /\ session \in Nat \ {0} /\ qualified \in Nat /\ vouched \subseteq Nat
    /\ revisions \in Seq(Nat) /\ guards \in Seq(Bond \cup {Nothing})
    /\ Len(guards) = Len(revisions)
    /\ call \in [Requests -> CallShape]

\* What was read under the guard g was c, and g is not given out again: if the
\* document has that guard, it has that content.
Sure(g, c) == g <= stamps /\ (Now.guard = g => Now.content = c)

\* Contents and guards were given out before; while an undo is queued, the
\* document is as the preview left it.
DesignFits ==
    /\ \A i \in 1..Len(design) : design[i].content <= stamps
    /\ Now.guard <= stamps
    /\ \A r \in Requests : undoer = r =>
          /\ Len(design) > 1 /\ call[r].on # Nothing /\ Now.content = call[r].made
    /\ qualified # 0 => qualified \in vouched

\* The guard bound to a revision is one of its content.
BindingsFit ==
    \A v \in 1..Len(revisions) : guards[v] # Nothing => Sure(guards[v].guard, revisions[v])

Before == {"idle", "guard_a", "observe", "observed", "guard_b", "queued", "claimed"}
AfterPreview == {"undo_guard", "reread", "reread_done"}
AfterCommit == {"readback", "readback_done", "guard_c"}
Revision(v) == v \in 1..Len(revisions)

\* An edit of r that took place found what was named, and left a content of its
\* own; one to come is sent with a guard of what was named.
EditFits(c) ==
    /\ c.at \notin {"idle", "done"} \/ c.live \/ c.on # Nothing => Revision(c.rev)
    /\ c.at \in Before => c.on = Nothing /\ ~c.live /\ c.told = "none"
    /\ c.live => c.at = "done" /\ c.told = "uncertain"
    /\ c.at \in {"queued", "claimed"} \/ c.live =>
          c.on = Nothing /\ Sure(c.guard, revisions[c.rev])
    /\ c.on # Nothing =>
          c.at # "idle" /\ c.on = revisions[c.rev] /\ c.on < c.made /\ Sure(c.made, c.made)

\* What a request has read on its way, and where it may be.
ReadsFit(r, c) ==
    /\ c.at \in {"observe", "observed", "guard_b", "reread", "reread_done"} => c.guard <= stamps
    /\ c.at = "observed" => Sure(c.guard, c.seen)
    /\ c.at = "guard_b" => Revision(c.post) /\ Sure(c.guard, revisions[c.post])
    /\ c.at = "ran" => (c.reply = "applied" => c.on # Nothing)
                       /\ (c.reply \in {"conflict", "rejected"} => c.on = Nothing)
    /\ c.at \in AfterPreview => c.mode = "preview" /\ c.on # Nothing
    /\ c.at = "reread_done" => Sure(c.guard, c.seen) /\ (undoer = r => c.seen = c.made)
    /\ c.at \in AfterCommit => c.mode = "commit" /\ c.on # Nothing /\ c.ranIn = c.gen
    /\ c.at = "readback_done" => (Now.guard = c.made => c.seen = c.made)
    /\ c.at = "guard_c" =>
          Revision(c.post) /\ (Now.guard = c.made => revisions[c.post] = c.made)

\* A request goes on in a session that was qualified; its edit ran in that one or
\* a later one.
SessionFits(c) ==
    c.at \notin {"idle", "done"} =>
        /\ c.gen \in vouched /\ c.gen <= session
        /\ c.on # Nothing => c.gen <= c.ranIn /\ c.ranIn <= session

\* What the client is told.
ToldFits(r, c) ==
    /\ c.told # "none" => c.at = "done"
    /\ c.told = "committed" => /\ c.on # Nothing /\ c.ranIn \in vouched
                               /\ Revision(c.post) /\ revisions[c.post] = c.made
    /\ c.told = "previewed" => undoer # r
    /\ c.mode = "commit" /\ c.told \in {"conflict", "failed", "not_run", "rejected"} =>
          c.on = Nothing /\ ~c.live

Fits(r, c) == EditFits(c) /\ ReadsFit(r, c) /\ SessionFits(c) /\ ToldFits(r, c)

HandsInv == /\ HandsShape /\ DesignFits /\ BindingsFit
            /\ \A r \in Requests : Fits(r, call[r])
-----------------------------------------------------------------------------
LEMMA CallFields ==
    ASSUME NEW c \in CallShape
    PROVE  /\ c.at \in Places /\ c.mode \in {"commit", "preview"} /\ c.rev \in Nat /\ c.gen \in Nat
           /\ c.guard \in Nat /\ c.seen \in Nat /\ c.post \in Nat
           /\ c.reply \in {"none", "conflict", "rejected", "uncertain", "applied"}
           /\ c.told \in Told /\ c.live \in BOOLEAN /\ c.on \in Nat \cup {Nothing}
           /\ c.made \in Nat /\ c.ranIn \in Nat
  BY DEF CallShape

\* What of a request is about its edit.
SameEdit(d, c) == /\ d.mode = c.mode /\ d.rev = c.rev /\ d.post = c.post /\ d.live = c.live
                  /\ d.on = c.on /\ d.made = c.made /\ d.ranIn = c.ranIn

\* The end of a request leaves its edit.
LEMMA EndsEffect ==
    ASSUME HandsShape, NEW r \in Requests, NEW told \in Told, Ends(r, told)
    PROVE  \E d \in CallShape :
              /\ call' = [call EXCEPT ![r] = d] /\ SameEdit(d, call[r])
              /\ d.at = "done" /\ d.told = told
<1> DEFINE d == [call[r] EXCEPT !.at = "done", !.told = told, !.reply = "none",
                                !.gen = 0, !.guard = 0, !.seen = 0]
<1>1. call[r] \in CallShape
  BY DEF HandsShape
<1>2. d \in CallShape /\ SameEdit(d, call[r]) /\ d.at = "done" /\ d.told = told
  BY <1>1 DEF CallShape, SameEdit, Places
<1> QED BY <1>2 DEF Ends, Goes

\* The document and the tracker only move on.
World ==
    /\ stamps <= stamps'
    /\ Now' = Now \/ \A g \in 0..stamps : Now'.guard # g
    /\ Len(revisions) <= Len(revisions')
    /\ \A v \in 1..Len(revisions) : revisions'[v] = revisions[v]
    /\ vouched \subseteq vouched' /\ session <= session'

LEMMA NowTypes ==
    ASSUME HandsShape
    PROVE  /\ Now \in State /\ Now.content \in Nat /\ Now.guard \in Nat
           /\ Len(design) \in Nat /\ Len(design) > 0 /\ Now = design[Len(design)]
           /\ Len(revisions) \in Nat /\ \A v \in 1..Len(revisions) : revisions[v] \in Nat
<1>1. Len(design) \in 1..Len(design) /\ Len(design) \in Nat /\ Len(design) > 0
  BY DEF HandsShape
<1>2. Now \in State
  BY <1>1 DEF HandsShape, Now
<1> QED BY <1>1, <1>2 DEF State, Now, HandsShape

LEMMA SureStays ==
    ASSUME HandsShape, HandsShape', World, NEW g \in Nat, NEW c \in Nat, Sure(g, c)
    PROVE  Sure(g, c)'
<1>1. Now.guard \in Nat /\ stamps \in Nat /\ stamps' \in Nat
  BY NowTypes DEF HandsShape
<1> QED BY <1>1 DEF Sure, World

\* What a request knows and was told stays true while others work.
LEMMA FitsStay ==
    ASSUME HandsShape, HandsShape', World, NEW r \in Requests, NEW c \in CallShape,
           Fits(r, c), undoer' = r => undoer = r
    PROVE  Fits(r, c)'
<1>1. \A v : Revision(v) => Revision(v)' /\ revisions[v] \in Nat /\ revisions'[v] = revisions[v]
  BY NowTypes DEF Revision, World, HandsShape
<1>2. \A g, e \in Nat : Sure(g, e) => Sure(g, e)'
  BY SureStays
<1>3. /\ c.guard \in Nat /\ c.seen \in Nat /\ c.made \in Nat /\ c.gen \in Nat /\ c.ranIn \in Nat
      /\ stamps \in Nat /\ stamps' \in Nat /\ session \in Nat /\ session' \in Nat
      /\ stamps <= stamps' /\ session <= session' /\ vouched \subseteq vouched'
  BY CallFields DEF HandsShape, World
<1>4. EditFits(c)'
  BY <1>1, <1>2, <1>3 DEF Fits, EditFits
<1>5. c.on # Nothing => (Now'.guard = c.made => Now.guard = c.made)
  <2>1. c.on # Nothing => c.made \in 0..stamps
    BY <1>3 DEF Fits, EditFits, Sure
  <2> QED BY <2>1 DEF World
<1>6. ReadsFit(r, c)'
  BY <1>1, <1>2, <1>3, <1>5 DEF Fits, ReadsFit, AfterCommit
<1>7. SessionFits(c)'
  BY <1>3 DEF Fits, SessionFits
<1>8. ToldFits(r, c)'
  BY <1>1, <1>3 DEF Fits, ToldFits
<1> QED BY <1>4, <1>6, <1>7, <1>8 DEF Fits

\* The bindings that a step leaves stay good; what it binds anew must be.
LEMMA BindingsStay ==
    ASSUME HandsShape, HandsShape', World, BindingsFit,
           \A v \in 1..Len(revisions') :
              \/ guards'[v] = Nothing
              \/ v \in 1..Len(revisions) /\ guards'[v] = guards[v]
              \/ Sure(guards[v].guard, revisions[v])'
    PROVE  BindingsFit'
<1> SUFFICES ASSUME NEW v \in 1..Len(revisions), guards'[v] = guards[v], guards[v] # Nothing
             PROVE  Sure(guards[v].guard, revisions[v])'
  BY DEF BindingsFit
<1>1. v \in 1..Len(guards) /\ guards[v] \in Bond
  BY DEF HandsShape
<1>2. guards[v].guard \in Nat /\ revisions[v] \in Nat /\ revisions'[v] = revisions[v]
  BY <1>1, NowTypes DEF Bond, World
<1>3. Sure(guards[v].guard, revisions[v])
  BY DEF BindingsFit
<1>4. \A g, e \in Nat : Sure(g, e) => Sure(g, e)'
  BY SureStays
<1> QED BY <1>2, <1>3, <1>4 DEF Sure
-----------------------------------------------------------------------------
(* Steps of a request that leave the document, the node and the revisions. *)

Still == UNCHANGED <<fusion, operator, revisions>>

\* Such a step keeps the invariant if what it makes of its request fits, and
\* what it binds is good.
LEMMA StillKeeps ==
    ASSUME HandsInv, NEW r \in Requests, NEW d \in CallShape, Still,
           call' = [call EXCEPT ![r] = d], Fits(r, d),
           undoer = r => d.on = call[r].on /\ d.made = call[r].made,
           guards' \in Seq(Bond \cup {Nothing}), Len(guards') = Len(guards),
           \A v \in 1..Len(revisions) :
              guards'[v] \in {guards[v], Nothing} \/ Sure(guards'[v].guard, revisions[v])
    PROVE  HandsInv'
<1>1. /\ design' = design /\ stamps' = stamps /\ undoer' = undoer /\ session' = session
      /\ qualified' = qualified /\ vouched' = vouched /\ revisions' = revisions /\ plan' = plan
  BY DEF Still, fusion, operator
<1>2. HandsShape
  BY DEF HandsInv
<1>3. HandsShape'
  BY <1>1, <1>2 DEF HandsShape
<1>4. World
  BY <1>1, <1>2 DEF World, Now, HandsShape
<1>5. DesignFits'
  BY <1>1, <1>2 DEF HandsInv, DesignFits, Now, HandsShape
<1>6. BindingsFit'
  BY <1>1 DEF HandsInv, BindingsFit, Sure, Now
<1>7. ASSUME NEW p \in Requests
      PROVE  Fits(p, call[p])'
  <2>1. CASE p = r
    <3>1. Fits(p, d)'
      BY <1>1, <1>2, <1>3, <1>4, <2>1, FitsStay
    <3> QED BY <1>2, <2>1, <3>1 DEF HandsShape
  <2>2. CASE p # r
    <3>1. PICK c \in CallShape : c = call[p]
      BY <1>2 DEF HandsShape
    <3>2. Fits(p, c)'
      BY <1>1, <1>2, <1>3, <1>4, <3>1, FitsStay DEF HandsInv
    <3>3. call'[p] = c
      BY <1>2, <2>2, <3>1 DEF HandsShape
    <3> QED BY <3>2, <3>3
  <2> QED BY <2>1, <2>2
<1> QED BY <1>3, <1>5, <1>6, <1>7 DEF HandsInv

\* A request that ends with a code that its edit allows fits.
LEMMA EndedFits ==
    ASSUME NEW r \in Requests, NEW c \in CallShape, NEW d \in CallShape, Fits(r, c),
           c.at # "done", SameEdit(d, c), d.at = "done",
           d.told \notin {"committed", "previewed"},
           c.mode = "commit" /\ d.told \in {"conflict", "failed", "not_run", "rejected"} =>
              c.on = Nothing
    PROVE  Fits(r, d)
<1>1. ~c.live /\ ~d.live
  BY DEF Fits, EditFits, SameEdit
<1>2. EditFits(d)
  BY <1>1 DEF Fits, EditFits, SameEdit, Before
<1>3. ReadsFit(r, d) /\ SessionFits(d)
  BY DEF ReadsFit, SessionFits, AfterPreview, AfterCommit
<1>4. ToldFits(r, d)
  BY <1>1 DEF ToldFits, SameEdit
<1> QED BY <1>2, <1>3, <1>4 DEF Fits

\* What Dropped does to the bindings.
LEMMA DroppedEffect ==
    ASSUME HandsShape, NEW v \in Nat, Dropped(v) \/ UNCHANGED guards
    PROVE  /\ guards' \in Seq(Bond \cup {Nothing}) /\ Len(guards') = Len(guards)
           /\ \A w \in 1..Len(revisions) : guards'[w] \in {guards[w], Nothing}
<1>1. guards \in Seq(Bond \cup {Nothing}) /\ Len(guards) = Len(revisions)
  BY DEF HandsShape
<1> QED BY <1>1 DEF Dropped

LEMMA EndingKeeps ==
    ASSUME HandsInv, NEW r \in Requests, NEW told \in Told \ {"committed", "previewed"}, Still,
           Ends(r, told), call[r].at # "done",
           Dropped(call[r].rev) \/ UNCHANGED guards,
           call[r].mode = "commit" /\ told \in {"conflict", "failed", "not_run", "rejected"} =>
              call[r].on = Nothing
    PROVE  HandsInv'
<1>1. HandsShape /\ call[r] \in CallShape /\ Fits(r, call[r]) /\ call[r].rev \in Nat
  BY CallFields DEF HandsInv, HandsShape
<1>2. PICK d \in CallShape :
         /\ call' = [call EXCEPT ![r] = d] /\ SameEdit(d, call[r]) /\ d.at = "done" /\ d.told = told
  BY <1>1, EndsEffect
<1>3. Fits(r, d)
  BY <1>1, <1>2, EndedFits
<1>4. undoer = r => d.on = call[r].on /\ d.made = call[r].made
  BY <1>2 DEF SameEdit
<1>5. /\ guards' \in Seq(Bond \cup {Nothing}) /\ Len(guards') = Len(guards)
      /\ \A w \in 1..Len(revisions) : guards'[w] \in {guards[w], Nothing}
  BY <1>1, DroppedEffect
<1> QED BY <1>2, <1>3, <1>4, <1>5, StillKeeps

\* A request that goes on, and binds nothing.
LEMMA GoingKeeps ==
    ASSUME HandsInv, NEW r \in Requests, NEW d \in CallShape, Still, Goes(r, d),
           Dropped(call[r].rev) \/ Dropped(Latest) \/ UNCHANGED guards,
           d.on = call[r].on, d.made = call[r].made, Fits(r, d)
    PROVE  HandsInv'
<1>1. HandsShape /\ call[r].rev \in Nat /\ Latest \in Nat
  BY CallFields, NowTypes DEF HandsInv, HandsShape, Latest
<1>2. /\ guards' \in Seq(Bond \cup {Nothing}) /\ Len(guards') = Len(guards)
      /\ \A w \in 1..Len(revisions) : guards'[w] \in {guards[w], Nothing}
  BY <1>1, DroppedEffect
<1> QED BY <1>2, StillKeeps DEF Goes
\* A request goes on with what is not about a read.
Onward(d, c) == /\ d.mode = c.mode /\ d.rev = c.rev /\ d.gen = c.gen /\ d.told = c.told
                /\ d.live = c.live /\ d.on = c.on /\ d.made = c.made /\ d.ranIn = c.ranIn

LEMMA ReadsGuardAKeeps ==
    ASSUME HandsInv, NEW r \in Requests, ReadsGuardA(r)
    PROVE  HandsInv'
<1> DEFINE d == [call[r] EXCEPT !.at = "observe", !.guard = Now.guard]
<1>1. HandsShape /\ call[r] \in CallShape /\ Fits(r, call[r]) /\ call[r].at = "guard_a"
  BY DEF HandsInv, HandsShape, ReadsGuardA
<1>2. Now.guard \in Nat /\ Now.guard <= stamps
  BY <1>1, NowTypes DEF HandsInv, DesignFits
<1>3. d \in CallShape /\ Onward(d, call[r]) /\ d.at = "observe" /\ d.guard = Now.guard
  BY <1>1, <1>2 DEF CallShape, Onward, Places
<1>4. Goes(r, d) /\ Still /\ UNCHANGED guards
  BY DEF ReadsGuardA, Still, tracked
<1> HIDE DEF d
<1>5. Fits(r, d)
  BY <1>1, <1>2, <1>3 DEF Fits, EditFits, ReadsFit, SessionFits, ToldFits, Onward, Before,
     AfterPreview, AfterCommit
<1> QED BY <1>3, <1>4, <1>5, GoingKeeps DEF Onward

LEMMA ReadsModelKeeps ==
    ASSUME HandsInv, NEW r \in Requests, NEW from, NEW to, ReadsModel(r, from, to),
           <<from, to>> \in {<<"observe", "observed">>, <<"reread", "reread_done">>,
                             <<"readback", "readback_done">>}
    PROVE  HandsInv'
<1> DEFINE d == [call[r] EXCEPT !.at = to, !.seen = Now.content]
<1>1. HandsShape /\ call[r] \in CallShape /\ Fits(r, call[r]) /\ call[r].at = from
  BY DEF HandsInv, HandsShape, ReadsModel
<1>2. Now.content \in Nat /\ Now.guard \in Nat
  BY <1>1, NowTypes
<1>3. d \in CallShape /\ Onward(d, call[r]) /\ d.at = to /\ d.seen = Now.content
      /\ d.guard = call[r].guard /\ d.post = call[r].post
  BY <1>1, <1>2 DEF CallShape, Onward, Places
<1>4. Goes(r, d) /\ Still /\ UNCHANGED guards
  BY DEF ReadsModel, Still, tracked
<1>5. undoer = r => Now.content = call[r].made
  BY DEF HandsInv, DesignFits
<1>6. call[r].on # Nothing => (Now.guard = call[r].made => Now.content = call[r].made)
  BY <1>1 DEF Fits, EditFits, Sure
<1> HIDE DEF d
<1>7. Fits(r, d)
  <2>1. EditFits(d) /\ SessionFits(d) /\ ToldFits(r, d)
    BY <1>1, <1>3 DEF Fits, EditFits, SessionFits, ToldFits, Onward, Before
  <2>2. ReadsFit(r, d)
    BY <1>1, <1>3, <1>5, <1>6 DEF Fits, ReadsFit, Sure, Onward, AfterPreview, AfterCommit
  <2> QED BY <2>1, <2>2 DEF Fits
<1> QED BY <1>3, <1>4, <1>7, GoingKeeps DEF Onward

LEMMA ClaimsKeeps ==
    ASSUME HandsInv, NEW r \in Requests, Claims(r)
    PROVE  HandsInv'
<1> DEFINE d == [call[r] EXCEPT !.at = "claimed"]
<1>1. HandsShape /\ call[r] \in CallShape /\ Fits(r, call[r]) /\ call[r].at = "queued"
  BY DEF HandsInv, HandsShape, Claims
<1>2. d \in CallShape /\ Onward(d, call[r]) /\ d.at = "claimed" /\ d.guard = call[r].guard
  BY <1>1 DEF CallShape, Onward, Places
<1>3. Goes(r, d) /\ Still /\ UNCHANGED guards
  BY DEF Claims, Still, tracked
<1> HIDE DEF d
<1>4. Fits(r, d)
  BY <1>1, <1>2 DEF Fits, EditFits, ReadsFit, SessionFits, ToldFits, Onward, Before,
     AfterPreview, AfterCommit
<1> QED BY <1>2, <1>3, <1>4, GoingKeeps DEF Onward

LEMMA HandshakeFailsKeeps ==
    ASSUME HandsInv, NEW r \in Requests, HandshakeFails(r)
    PROVE  HandsInv'
<1>1. call[r].at \in {"guard_a", "observe", "guard_b"} /\ Ends(r, "failed") /\ Still /\ UNCHANGED guards
  BY DEF HandshakeFails, Still, tracked
<1>2. call[r].on = Nothing
  BY <1>1 DEF HandsInv, Fits, EditFits, Before
<1> QED BY <1>1, <1>2, EndingKeeps DEF Told

LEMMA RefusedKeeps ==
    ASSUME HandsInv, NEW r \in Requests, Refused(r)
    PROVE  HandsInv'
<1>1. call[r].at = "queued" /\ Ends(r, "not_run") /\ Still
      /\ (Dropped(call[r].rev) \/ UNCHANGED guards)
  BY DEF Refused, Still
<1>2. call[r].on = Nothing
  BY <1>1 DEF HandsInv, Fits, EditFits, Before
<1> QED BY <1>1, <1>2, EndingKeeps DEF Told

LEMMA GivesUpOnKeeps ==
    ASSUME HandsInv, NEW r \in Requests, GivesUpOn(r)
    PROVE  HandsInv'
<1>1. HandsShape /\ call[r] \in CallShape /\ Fits(r, call[r]) /\ Dropped(call[r].rev) /\ Still
  BY DEF HandsInv, HandsShape, GivesUpOn, Still
<1>2. CASE call[r].at = "ran" /\ Ends(r, "uncertain")
  BY <1>1, <1>2, EndingKeeps DEF Told
<1>3. CASE call[r].at = "claimed"
           /\ Goes(r, [call[r] EXCEPT !.at = "done", !.told = "uncertain", !.live = TRUE])
  <2> DEFINE d == [call[r] EXCEPT !.at = "done", !.told = "uncertain", !.live = TRUE]
  <2>1. d \in CallShape /\ d.at = "done" /\ d.told = "uncertain" /\ d.live /\ d.mode = call[r].mode
        /\ d.rev = call[r].rev /\ d.on = call[r].on /\ d.made = call[r].made
        /\ d.guard = call[r].guard
    BY <1>1 DEF CallShape, Places, Told
  <2> HIDE DEF d
  <2>2. call[r].on = Nothing /\ Revision(call[r].rev) /\ Sure(call[r].guard, revisions[call[r].rev])
    BY <1>1, <1>3 DEF Fits, EditFits
  <2>3. Fits(r, d)
    BY <2>1, <2>2 DEF Fits, EditFits, ReadsFit, SessionFits, ToldFits, Before,
       AfterPreview, AfterCommit
  <2> QED BY <1>1, <1>3, <2>1, <2>3, GoingKeeps DEF d
<1> QED BY <1>2, <1>3 DEF GivesUpOn, Lost

LEMMA AnsweredKeeps ==
    ASSUME HandsInv, NEW r \in Requests, Answered(r)
    PROVE  HandsInv'
<1>1. HandsShape /\ call[r] \in CallShape /\ Fits(r, call[r]) /\ Still
      /\ call[r].at = "ran" /\ call[r].reply # "applied" /\ Ends(r, call[r].reply)
      /\ (Dropped(call[r].rev) \/ UNCHANGED guards)
  BY DEF HandsInv, HandsShape, Answered, Still
<1>2. call[r].reply \in Told \ {"committed", "previewed"}
  BY <1>1, CallFields DEF Told
<1>3. call[r].reply \in {"conflict", "rejected"} => call[r].on = Nothing
  BY <1>1 DEF Fits, ReadsFit
<1>4. call[r].reply \notin {"failed", "not_run"}
  BY <1>1, CallFields
<1> QED BY <1>1, <1>2, <1>3, <1>4, EndingKeeps

LEMMA PreviewAnsweredKeeps ==
    ASSUME HandsInv, NEW r \in Requests, PreviewAnswered(r)
    PROVE  HandsInv'
<1>1. HandsShape /\ call[r] \in CallShape /\ Fits(r, call[r]) /\ Still
      /\ call[r].at = "ran" /\ call[r].reply = "applied" /\ call[r].mode = "preview"
  BY DEF HandsInv, HandsShape, PreviewAnswered, Still
<1>2. CASE SameSession(r)
  <2> DEFINE d == [call[r] EXCEPT !.at = "undo_guard"]
  <2>1. d \in CallShape /\ Onward(d, call[r]) /\ d.at = "undo_guard"
    BY <1>1 DEF CallShape, Onward, Places
  <2>2. Goes(r, d) /\ UNCHANGED guards
    BY <1>2 DEF PreviewAnswered
  <2> HIDE DEF d
  <2>3. Fits(r, d)
    BY <1>1, <2>1 DEF Fits, EditFits, ReadsFit, SessionFits, ToldFits, Onward, Before,
       AfterPreview, AfterCommit
  <2> QED BY <1>1, <2>1, <2>2, <2>3, GoingKeeps DEF Onward
<1>3. CASE ~SameSession(r)
  BY <1>1, <1>3, EndingKeeps DEF PreviewAnswered, Told
<1> QED BY <1>2, <1>3

LEMMA UndoGuardFailsKeeps ==
    ASSUME HandsInv, NEW r \in Requests, UndoGuardFails(r)
    PROVE  HandsInv'
<1>1. PICK told \in {"not_run", "uncertain"} : Ends(r, told)
  BY DEF UndoGuardFails, Unexplained
<1>2. call[r].at = "undo_guard" /\ Still /\ (Dropped(call[r].rev) \/ UNCHANGED guards)
  BY DEF UndoGuardFails, Still
<1>3. call[r].mode = "preview"
  BY <1>2 DEF HandsInv, Fits, ReadsFit, AfterPreview
<1> QED BY <1>1, <1>2, <1>3, EndingKeeps DEF Told

LEMMA ReadsUndoGuardKeeps ==
    ASSUME HandsInv, NEW r \in Requests, ReadsUndoGuard(r)
    PROVE  HandsInv'
<1>1. HandsShape /\ call[r] \in CallShape /\ Fits(r, call[r]) /\ Still /\ call[r].at = "undo_guard"
  BY DEF HandsInv, HandsShape, ReadsUndoGuard, Still
<1>2. CASE SameSession(r)
  <2> DEFINE d == [call[r] EXCEPT !.at = "reread", !.guard = Now.guard]
  <2>1. Now.guard \in Nat /\ Now.guard <= stamps
    BY <1>1, NowTypes DEF HandsInv, DesignFits
  <2>2. d \in CallShape /\ Onward(d, call[r]) /\ d.at = "reread" /\ d.guard = Now.guard
    BY <1>1, <2>1 DEF CallShape, Onward, Places
  <2>3. Goes(r, d) /\ UNCHANGED guards
    BY <1>2 DEF ReadsUndoGuard
  <2> HIDE DEF d
  <2>4. Fits(r, d)
    BY <1>1, <2>1, <2>2 DEF Fits, EditFits, ReadsFit, SessionFits, ToldFits, Onward, Before,
       AfterPreview, AfterCommit
  <2> QED BY <1>1, <2>2, <2>3, <2>4, GoingKeeps DEF Onward
<1>3. CASE ~SameSession(r)
  BY <1>1, <1>3, EndingKeeps DEF ReadsUndoGuard, Told
<1> QED BY <1>2, <1>3

LEMMA CommitAnsweredKeeps ==
    ASSUME HandsInv, NEW r \in Requests, CommitAnswered(r)
    PROVE  HandsInv'
<1>1. HandsShape /\ call[r] \in CallShape /\ Fits(r, call[r]) /\ Still /\ Dropped(call[r].rev)
      /\ call[r].at = "ran" /\ call[r].reply = "applied" /\ call[r].mode = "commit"
  BY DEF HandsInv, HandsShape, CommitAnswered, Still
<1>2. CASE SameSession(r)
  <2> DEFINE d == [call[r] EXCEPT !.at = "readback"]
  <2>1. d \in CallShape /\ Onward(d, call[r]) /\ d.at = "readback"
    BY <1>1 DEF CallShape, Onward, Places
  <2>2. Goes(r, d)
    BY <1>2 DEF CommitAnswered
  <2>3. call[r].on # Nothing /\ call[r].ranIn = call[r].gen
    <3>1. call[r].on # Nothing
      BY <1>1 DEF Fits, ReadsFit
    <3>2. call[r].gen <= call[r].ranIn /\ call[r].ranIn <= session /\ session = call[r].gen
      BY <1>1, <1>2, <3>1 DEF Fits, SessionFits, SameSession
    <3> QED BY <1>1, <3>1, <3>2, CallFields DEF HandsShape
  <2> HIDE DEF d
  <2>4. Fits(r, d)
    BY <1>1, <2>1, <2>3 DEF Fits, EditFits, ReadsFit, SessionFits, ToldFits, Onward, Before,
       AfterPreview, AfterCommit
  <2> QED BY <1>1, <2>1, <2>2, <2>4, GoingKeeps DEF Onward
<1>3. CASE ~SameSession(r)
  BY <1>1, <1>3, EndingKeeps DEF CommitAnswered, Told
<1> QED BY <1>2, <1>3

LEMMA ReadFailsKeeps ==
    ASSUME HandsInv, NEW r \in Requests, ReadFails(r)
    PROVE  HandsInv'
  BY EndingKeeps DEF ReadFails, Still, Told

\* Bindings that may replace those of now.
Good(gs) ==
    /\ gs \in Seq(Bond \cup {Nothing}) /\ Len(gs) = Len(guards)
    /\ \A v \in 1..Len(revisions) : gs[v] # Nothing => Sure(gs[v].guard, revisions[v])

LEMMA GoodNow ==
    ASSUME HandsInv
    PROVE  Good(guards)
  BY DEF HandsInv, HandsShape, BindingsFit, Good

\* A revision is bound to the guard of its content.
LEMMA BoundIsGood ==
    ASSUME HandsInv, NEW v \in Nat, Revision(v), NEW g \in Nat, Sure(g, revisions[v]),
           NEW gs, gs = [guards EXCEPT ![v] = Binding(g, session)]
    PROVE  Good(gs)
<1>1. Good(guards)
  BY GoodNow
<1>2. HandsShape
  BY DEF HandsInv
<1>3. /\ guards \in Seq(Bond \cup {Nothing}) /\ v \in 1..Len(guards)
      /\ Len(guards) = Len(revisions) /\ Len(guards) \in Nat
  BY <1>2 DEF HandsShape, Revision
<1>4. Binding(g, session) \in Bond /\ Binding(g, session).guard = g
  BY <1>2 DEF Binding, Bond, HandsShape
<1> DEFINE b == Binding(g, session)
<1>5. /\ gs \in Seq(Bond \cup {Nothing}) /\ Len(gs) = Len(guards)
      /\ gs[v] = b /\ \A w \in 1..Len(guards) : w # v => gs[w] = guards[w]
  <2> HIDE DEF b
  <2>1. gs = [guards EXCEPT ![v] = b] /\ b \in Bond
    BY <1>4 DEF b
  <2> QED BY <1>3, <2>1
<1>6. gs[v].guard = g
  BY <1>4, <1>5
<1> HIDE DEF b
<1>7. ASSUME NEW w \in 1..Len(revisions), gs[w] # Nothing
      PROVE  Sure(gs[w].guard, revisions[w])
  BY <1>1, <1>3, <1>5, <1>6, <1>7 DEF Good
<1> QED BY <1>5, <1>7 DEF Good

LEMMA BindingKeeps ==
    ASSUME HandsInv, NEW r \in Requests, NEW d \in CallShape, Still,
           call' = [call EXCEPT ![r] = d], Fits(r, d),
           undoer = r => d.on = call[r].on /\ d.made = call[r].made,
           NEW gs, Good(gs), guards' = gs
    PROVE  HandsInv'
<1>1. /\ guards' \in Seq(Bond \cup {Nothing}) /\ Len(guards') = Len(guards)
      /\ \A v \in 1..Len(revisions) :
            guards'[v] \in {guards[v], Nothing} \/ Sure(guards'[v].guard, revisions[v])
  BY DEF Good
<1> QED BY <1>1, StillKeeps

\* An edit is sent with the guard of the revision it names.
LEMMA SendsKeeps ==
    ASSUME HandsInv, NEW r \in Requests, NEW c \in CallShape, Still,
           NEW gs, Good(gs), guards' = gs, Sends(r, c, gs), Bound(gs, c.rev),
           Revision(c.rev), session \in vouched, call[r].at \in Before,
           c.told = "none", c.on = Nothing, ~c.live
    PROVE  HandsInv'
<1>1. HandsShape /\ call[r] \in CallShape /\ Fits(r, call[r])
  BY DEF HandsInv, HandsShape
<1>2. call[r].on = Nothing /\ undoer # r
  BY <1>1 DEF HandsInv, DesignFits, Fits, EditFits
<1>3. CASE NotCompiled(r)
  <2>1. PICK d \in CallShape :
           /\ call' = [call EXCEPT ![r] = d] /\ SameEdit(d, call[r]) /\ d.at = "done" /\ d.told = "failed"
    BY <1>1, <1>3, EndsEffect DEF NotCompiled, Told
  <2>2. Fits(r, d)
    BY <1>1, <1>2, <2>1, EndedFits DEF Before
  <2> QED BY <1>2, <2>1, <2>2, BindingKeeps
<1>4. CASE Goes(r, [c EXCEPT !.at = "queued", !.guard = gs[c.rev].guard, !.gen = gs[c.rev].session])
  <2> DEFINE d == [c EXCEPT !.at = "queued", !.guard = gs[c.rev].guard, !.gen = gs[c.rev].session]
  <2>1. /\ gs[c.rev] \in Bond /\ gs[c.rev].session = session
        /\ Sure(gs[c.rev].guard, revisions[c.rev])
    <3>1. c.rev \in 1..Len(gs)
      BY <1>1 DEF Good, Revision, HandsShape
    <3> QED BY <3>1 DEF Good, Revision, Bound
  <2>2. gs[c.rev].guard \in Nat /\ session \in Nat
    BY <1>1, <2>1 DEF Bond, HandsShape
  <2>3. /\ d \in CallShape /\ d.at = "queued" /\ d.guard = gs[c.rev].guard /\ d.gen = session
        /\ d.rev = c.rev /\ d.told = "none" /\ d.on = Nothing /\ ~d.live
    BY <2>1, <2>2 DEF CallShape, Places
  <2>4. call' = [call EXCEPT ![r] = d]
    BY <1>4 DEF Goes
  <2> HIDE DEF d
  <2>5. Fits(r, d)
    BY <2>1, <2>2, <2>3 DEF Fits, EditFits, ReadsFit, SessionFits, ToldFits, Before,
       AfterPreview, AfterCommit
  <2> QED BY <1>2, <2>3, <2>4, <2>5, BindingKeeps
<1> QED BY <1>3, <1>4 DEF Sends

LEMMA EndingBinds ==
    ASSUME HandsInv, NEW r \in Requests, Still, Ends(r, "conflict"), call[r].at \in Before \ {"idle"},
           NEW gs, Good(gs), guards' = gs
    PROVE  HandsInv'
<1>1. HandsShape /\ call[r] \in CallShape /\ Fits(r, call[r])
  BY DEF HandsInv, HandsShape
<1>2. PICK d \in CallShape :
         /\ call' = [call EXCEPT ![r] = d] /\ SameEdit(d, call[r]) /\ d.at = "done" /\ d.told = "conflict"
  BY <1>1, EndsEffect DEF Told
<1>3. call[r].on = Nothing
  BY <1>1 DEF Fits, EditFits
<1>4. Fits(r, d)
  BY <1>1, <1>2, <1>3, EndedFits DEF Before
<1> QED BY <1>2, <1>4, BindingKeeps DEF SameEdit

LEMMA AsksHandsKeeps ==
    ASSUME HandsInv, NEW r \in Requests, NEW mode \in {"commit", "preview"}, AsksHands(r, mode)
    PROVE  HandsInv'
<1> DEFINE c == [call[r] EXCEPT !.mode = mode, !.rev = Latest, !.gen = session]
<1>1. HandsShape /\ call[r] \in CallShape /\ Fits(r, call[r]) /\ call[r].at = "idle" /\ Still
  BY DEF HandsInv, HandsShape, AsksHands, Still
<1>2. Latest \in Nat /\ Revision(Latest) /\ session \in Nat
  BY <1>1 DEF AsksHands, HandsShape, Latest, Revision
<1>3. session \in vouched
  BY <1>1 DEF AsksHands, Capable, Qualified, HandsInv, DesignFits, HandsShape
<1>4. /\ c \in CallShape /\ c.mode = mode /\ c.rev = Latest /\ c.gen = session /\ c.at = "idle"
      /\ c.told = "none" /\ c.on = Nothing /\ ~c.live
  BY <1>1, <1>2 DEF CallShape, Fits, EditFits, Before
<1>5. CASE Bound(guards, Latest)
  <2>1. Sends(r, c, guards) /\ guards' = guards
    BY <1>5 DEF AsksHands
  <2> HIDE DEF c
  <2> QED BY <1>1, <1>2, <1>3, <1>4, <1>5, <2>1, GoodNow, SendsKeeps DEF Before
<1>6. CASE ~Bound(guards, Latest)
  <2> DEFINE d == [c EXCEPT !.at = "guard_a"]
  <2>1. Goes(r, d) /\ Dropped(Latest)
    BY <1>6 DEF AsksHands
  <2> HIDE DEF c
  <2>2. /\ d \in CallShape /\ d.at = "guard_a" /\ d.told = "none" /\ d.on = Nothing /\ ~d.live
        /\ d.rev = Latest /\ d.gen = session
    BY <1>4 DEF CallShape, Places
  <2>3. Dropped(Latest) \/ UNCHANGED guards
    BY <2>1
  <2> HIDE DEF d
  <2>4. Fits(r, d)
    BY <1>2, <1>3, <2>2 DEF Fits, EditFits, ReadsFit, SessionFits, ToldFits, Before,
       AfterPreview, AfterCommit
  <2>5. undoer # r
    BY <1>1 DEF HandsInv, DesignFits, Fits, EditFits, Before
  <2>6. /\ guards' \in Seq(Bond \cup {Nothing}) /\ Len(guards') = Len(guards)
        /\ \A w \in 1..Len(revisions) : guards'[w] \in {guards[w], Nothing}
    BY <1>1, <1>2, <2>3, DroppedEffect
  <2> QED BY <1>1, <2>1, <2>2, <2>4, <2>5, <2>6, StillKeeps DEF Goes
<1> QED BY <1>5, <1>6

LEMMA ReadsGuardBKeeps ==
    ASSUME HandsInv, NEW r \in Requests, ReadsGuardB(r)
    PROVE  HandsInv'
<1> DEFINE gs == [guards EXCEPT ![call[r].post] = Binding(Now.guard, session)]
<1>1. HandsShape /\ call[r] \in CallShape /\ Fits(r, call[r]) /\ call[r].at = "guard_b" /\ Still
  BY DEF HandsInv, HandsShape, ReadsGuardB, Still
<1>2. CASE ~Coherent(r)
  <2>1. Ends(r, "conflict") /\ guards' = guards
    BY <1>2 DEF ReadsGuardB
  <2> QED BY <1>1, <2>1, GoodNow, EndingBinds DEF Before
<1>3. CASE Coherent(r)
  <2>1. /\ call[r].post \in Nat /\ Revision(call[r].post) /\ Now.guard \in Nat
        /\ Sure(Now.guard, revisions[call[r].post])
    BY <1>1, <1>3, CallFields, NowTypes DEF Coherent, Fits, ReadsFit
  <2>2. Good(gs)
    BY <2>1, BoundIsGood
  <2>3. \/ Sends(r, call[r], gs) /\ guards' = gs /\ call[r].rev = Latest /\ Bound(gs, Latest)
        \/ Ends(r, "conflict") /\ guards' = gs
    BY <1>3 DEF ReadsGuardB
  <2>4. /\ session \in vouched /\ Revision(call[r].rev)
        /\ call[r].told = "none" /\ call[r].on = Nothing /\ ~call[r].live
    BY <1>1, <1>3 DEF Fits, EditFits, SessionFits, Coherent, SameSession, Before
  <2> HIDE DEF gs
  <2>5. CASE Ends(r, "conflict") /\ guards' = gs
    BY <1>1, <2>2, <2>5, EndingBinds DEF Before
  <2>6. CASE Sends(r, call[r], gs) /\ guards' = gs /\ call[r].rev = Latest /\ Bound(gs, Latest)
    BY <1>1, <2>2, <2>4, <2>6, SendsKeeps DEF Before
  <2> QED BY <2>3, <2>5, <2>6
<1> QED BY <1>2, <1>3

LEMMA CommitEndsKeeps ==
    ASSUME HandsInv, NEW r \in Requests, CommitEnds(r)
    PROVE  HandsInv'
<1>1. HandsShape /\ call[r] \in CallShape /\ Fits(r, call[r]) /\ call[r].at = "guard_c" /\ Still
  BY DEF HandsInv, HandsShape, CommitEnds, Still
<1>2. CASE Ends(r, "uncertain") /\ UNCHANGED guards
  BY <1>1, <1>2, EndingKeeps DEF Told
<1>3. CASE Proven(r) /\ Ends(r, "committed")
           /\ guards' = [guards EXCEPT ![call[r].post] = Binding(Now.guard, session)]
  <2> DEFINE gs == [guards EXCEPT ![call[r].post] = Binding(Now.guard, session)]
  <2>1. /\ call[r].post \in Nat /\ Revision(call[r].post) /\ Now.guard \in Nat
        /\ revisions[call[r].post] = call[r].made /\ call[r].on # Nothing
        /\ call[r].ranIn = call[r].gen /\ Now.guard = call[r].made
    BY <1>1, <1>3, CallFields, NowTypes DEF Proven, Fits, ReadsFit, AfterCommit
  <2>2. Sure(Now.guard, revisions[call[r].post])
    BY <1>1, <2>1 DEF Fits, EditFits
  <2>3. Good(gs)
    BY <2>1, <2>2, BoundIsGood
  <2>4. PICK d \in CallShape :
           /\ call' = [call EXCEPT ![r] = d] /\ SameEdit(d, call[r]) /\ d.at = "done" /\ d.told = "committed"
    BY <1>1, <1>3, EndsEffect DEF Told
  <2>5. call[r].ranIn \in vouched
    BY <1>1, <2>1 DEF Fits, SessionFits
  <2>6. Fits(r, d)
    <3>1. EditFits(d)
      BY <1>1, <2>4 DEF Fits, EditFits, SameEdit, Before
    <3>2. ReadsFit(r, d) /\ SessionFits(d)
      BY <2>4 DEF ReadsFit, SessionFits, AfterPreview, AfterCommit
    <3>3. ToldFits(r, d)
      BY <2>1, <2>4, <2>5 DEF ToldFits, SameEdit
    <3> QED BY <3>1, <3>2, <3>3 DEF Fits
  <2> HIDE DEF gs
  <2> QED BY <1>1, <1>3, <2>3, <2>4, <2>6, BindingKeeps DEF SameEdit, gs
<1> QED BY <1>2, <1>3 DEF CommitEnds
-----------------------------------------------------------------------------
(* Steps that move the tracker, the document or the node on.               *)

\* Such a step keeps the invariant if the document, the bindings and its request
\* fit afterwards; the others' requests follow.
LEMMA WorldKeeps ==
    ASSUME HandsInv, HandsShape', World, DesignFits', BindingsFit',
           NEW r \in Requests, NEW d \in CallShape, call' = [call EXCEPT ![r] = d],
           undoer' \in {undoer, r, Nothing}, Fits(r, d)'
    PROVE  HandsInv'
<1>1. HandsShape
  BY DEF HandsInv
<1>2. ASSUME NEW p \in Requests
      PROVE  Fits(p, call[p])'
  <2>1. CASE p = r
    BY <1>1, <2>1 DEF HandsShape
  <2>2. CASE p # r
    <3>1. PICK c \in CallShape : c = call[p]
      BY <1>1 DEF HandsShape
    <3>2. undoer' = p => undoer = p
      BY <2>2, NothingAssumption
    <3>3. Fits(p, c)'
      BY <1>1, <3>1, <3>2, FitsStay DEF HandsInv
    <3>4. call'[p] = c
      BY <1>1, <2>2, <3>1 DEF HandsShape
    <3> QED BY <3>3, <3>4
  <2> QED BY <2>1, <2>2
<1> QED BY <1>2 DEF HandsInv

LEMMA WorldAloneKeeps ==
    ASSUME HandsInv, HandsShape', World, DesignFits', BindingsFit', call' = call,
           undoer' \in {undoer, Nothing}
    PROVE  HandsInv'
<1>1. HandsShape
  BY DEF HandsInv
<1>2. ASSUME NEW p \in Requests
      PROVE  Fits(p, call[p])'
  <2>1. PICK c \in CallShape : c = call[p]
    BY <1>1 DEF HandsShape
  <2>2. undoer' = p => undoer = p
    BY NothingAssumption
  <2>3. Fits(p, c)'
    BY <1>1, <2>1, <2>2, FitsStay DEF HandsInv
  <2> QED BY <2>1, <2>3
<1> QED BY <1>2 DEF HandsInv

\* What an observation appends; what is bound along with it must be good.
Longer(c) ==
    /\ revisions' \in Seq(Nat) /\ guards' \in Seq(Bond \cup {Nothing})
    /\ Len(guards') = Len(revisions') /\ Len(revisions) <= Len(revisions')
    /\ \A v \in 1..Len(revisions) : revisions'[v] = revisions[v]
    /\ Len(revisions') \in Nat \ {0} /\ revisions'[Len(revisions')] = c
    /\ \A v \in 1..Len(revisions') :
          \/ guards'[v] = Nothing
          \/ v \in 1..Len(revisions) /\ guards'[v] = guards[v]
          \/ Sure(guards[v].guard, revisions[v])'

LEMMA ObservesEffect ==
    ASSUME HandsShape, NEW c \in Nat, Observes(c)
    PROVE  Longer(c)
<1>1. /\ revisions \in Seq(Nat) /\ guards \in Seq(Bond \cup {Nothing})
      /\ Len(guards) = Len(revisions) /\ Len(revisions) \in Nat
  BY DEF HandsShape
<1>2. CASE revisions # << >> /\ revisions[Latest] = c
  <2>1. revisions' = revisions /\ guards' = guards /\ Len(revisions) # 0
    BY <1>1, <1>2 DEF Observes, tracked
  <2>2. \A v \in 1..Len(revisions') : v \in 1..Len(revisions) /\ guards'[v] = guards[v]
    BY <2>1
  <2>3. Len(revisions') \in Nat \ {0} /\ revisions'[Len(revisions')] = c
    BY <1>1, <1>2, <2>1 DEF Latest
  <2> QED BY <1>1, <2>1, <2>2, <2>3 DEF Longer
<1>3. CASE ~(revisions # << >> /\ revisions[Latest] = c)
  <2>1. revisions' = Append(revisions, c) /\ guards' = Append(guards, Nothing)
    BY <1>3 DEF Observes
  <2>2. /\ revisions' \in Seq(Nat) /\ Len(revisions') = Len(revisions) + 1
        /\ \A v \in 1..Len(revisions) : revisions'[v] = revisions[v]
        /\ revisions'[Len(revisions) + 1] = c
    BY <1>1, <2>1
  <2>3. /\ guards' \in Seq(Bond \cup {Nothing}) /\ Len(guards') = Len(guards) + 1
        /\ \A v \in 1..Len(guards) : guards'[v] = guards[v]
        /\ guards'[Len(guards) + 1] = Nothing
    BY <1>1, <2>1
  <2>4. ASSUME NEW v \in 1..Len(revisions')
        PROVE  guards'[v] = Nothing \/ (v \in 1..Len(revisions) /\ guards'[v] = guards[v])
    <3>1. v = Len(guards) + 1 \/ v \in 1..Len(guards)
      BY <1>1, <2>2
    <3> QED BY <1>1, <2>3, <3>1
  <2>5. /\ Len(revisions) <= Len(revisions') /\ Len(revisions') \in Nat \ {0}
        /\ Len(guards') = Len(revisions') /\ revisions'[Len(revisions')] = c
    BY <1>1, <2>2, <2>3
  <2> QED BY <2>2, <2>3, <2>4, <2>5 DEF Longer
<1> QED BY <1>2, <1>3

LEMMA LongerWorld ==
    ASSUME HandsInv, NEW c, Longer(c), UNCHANGED <<fusion, operator>>,
           call' \in [Requests -> CallShape],
           \A r \in Requests : undoer = r => call'[r].on = call[r].on /\ call'[r].made = call[r].made
    PROVE  HandsShape' /\ World /\ DesignFits' /\ BindingsFit'
<1>1. /\ design' = design /\ stamps' = stamps /\ undoer' = undoer /\ session' = session
      /\ qualified' = qualified /\ vouched' = vouched /\ plan' = plan
  BY DEF fusion, operator
<1>2. HandsShape
  BY DEF HandsInv
<1>3. HandsShape'
  BY <1>1, <1>2 DEF HandsShape, Longer
<1>4. World
  BY <1>1, <1>2 DEF World, Now, HandsShape, Longer
<1>5. DesignFits'
  BY <1>1, <1>2 DEF HandsInv, DesignFits, Now
<1>6. BindingsFit'
  <2>1. \A v \in 1..Len(revisions') :
           \/ guards'[v] = Nothing
           \/ v \in 1..Len(revisions) /\ guards'[v] = guards[v]
           \/ Sure(guards[v].guard, revisions[v])'
    BY DEF Longer
  <2> QED BY <1>2, <1>3, <1>4, <2>1, BindingsStay DEF HandsInv
<1> QED BY <1>3, <1>4, <1>5, <1>6

LEMMA OthersReadKeeps ==
    ASSUME HandsInv, OthersRead
    PROVE  HandsInv'
<1>1. HandsShape /\ Now.content \in Nat
  BY NowTypes DEF HandsInv
<1>2. UNCHANGED <<fusion, operator>> /\ call' = call /\ undoer' = undoer
  BY DEF OthersRead, fusion
<1>3. Longer(Now.content)
  BY <1>1, ObservesEffect DEF OthersRead
<1>4. call' \in [Requests -> CallShape]
  BY <1>1, <1>2 DEF HandsShape
<1>5. HandsShape' /\ World /\ DesignFits' /\ BindingsFit'
  BY <1>2, <1>3, <1>4, LongerWorld
<1> QED BY <1>2, <1>5, WorldAloneKeeps

\* A request that observes goes on, or ends.
LEMMA ObservingKeeps ==
    ASSUME HandsInv, NEW r \in Requests, NEW c \in Nat, Observes(c), UNCHANGED <<fusion, operator>>,
           NEW d \in CallShape, call' = [call EXCEPT ![r] = d],
           d.on = call[r].on, d.made = call[r].made,
           World /\ HandsShape' => Fits(r, d)'
    PROVE  HandsInv'
<1>1. HandsShape
  BY DEF HandsInv
<1>2. Longer(c)
  BY <1>1, ObservesEffect
<1>3. call' \in [Requests -> CallShape]
  BY <1>1 DEF HandsShape
<1>4. \A p \in Requests : undoer = p => call'[p].on = call[p].on /\ call'[p].made = call[p].made
  BY <1>1 DEF HandsShape
<1>5. HandsShape' /\ World /\ DesignFits' /\ BindingsFit'
  BY <1>2, <1>3, <1>4, LongerWorld
<1>6. undoer' = undoer
  BY DEF fusion
<1> QED BY <1>5, <1>6, WorldKeeps

LEMMA ObservesModelKeeps ==
    ASSUME HandsInv, NEW r \in Requests, ObservesModel(r)
    PROVE  HandsInv'
<1>1. HandsShape /\ call[r] \in CallShape /\ Fits(r, call[r]) /\ call[r].at = "observed"
  BY DEF HandsInv, HandsShape, ObservesModel
<1>2. Observes(call[r].seen) /\ UNCHANGED <<fusion, operator>> /\ call[r].seen \in Nat
  BY <1>1, CallFields DEF ObservesModel
<1>3. undoer' = undoer
  BY <1>2 DEF fusion
<1>4. call[r].on = Nothing
  BY <1>1 DEF Fits, EditFits, Before
<1>5. CASE ~SameSession(r)
  <2>1. PICK d \in CallShape :
           /\ call' = [call EXCEPT ![r] = d] /\ SameEdit(d, call[r]) /\ d.at = "done" /\ d.told = "failed"
    BY <1>1, <1>5, EndsEffect DEF ObservesModel, Told
  <2>2. Fits(r, d)
    BY <1>1, <1>4, <2>1, EndedFits
  <2>3. World /\ HandsShape' => Fits(r, d)'
    BY <1>1, <1>3, <2>2, FitsStay
  <2> QED BY <1>2, <2>1, <2>3, ObservingKeeps DEF SameEdit
<1>6. CASE SameSession(r)
  <2>1. Longer(call[r].seen)
    BY <1>1, <1>2, ObservesEffect
  <2>2. PICK n \in Nat : n = Len(revisions')
    BY <2>1 DEF Longer
  <2>3. PICK c \in CallShape : c = call[r]
    BY <1>1
  <2> DEFINE d == [c EXCEPT !.at = "guard_b", !.post = n]
  <2>4. d \in CallShape /\ Onward(d, c) /\ d.at = "guard_b" /\ d.post = n /\ d.guard = c.guard
    <3>1. "guard_b" \in Places
      BY DEF Places
    <3> QED BY ONLY <3>1 DEF CallShape, Onward
  <2>5. call' = [call EXCEPT ![r] = d]
    BY <1>6, <2>2, <2>3 DEF ObservesModel, Goes
  <2> HIDE DEF d
  <2>6. ASSUME World, HandsShape' PROVE Fits(r, d)'
    <3>1. Fits(r, c)'
      BY <1>1, <1>3, <2>3, <2>6, FitsStay
    <3>2. Revision(n)' /\ revisions'[n] = c.seen
      BY <2>1, <2>2, <2>3 DEF Longer, Revision
    <3>3. Sure(c.guard, c.seen)'
      <4>1. c.guard \in Nat /\ c.seen \in Nat /\ Sure(c.guard, c.seen)
        BY <1>1, <2>3, CallFields DEF Fits, ReadsFit
      <4> QED BY <1>1, <2>6, <4>1, SureStays
    <3>4. c.at = "observed" /\ c.guard <= stamps'
      BY <1>1, <2>3, <3>3 DEF Sure
    <3>5. EditFits(d)'
      BY <2>4, <3>1, <3>4 DEF Fits, EditFits, Onward, Before
    <3>6. ReadsFit(r, d)'
      BY <2>4, <3>2, <3>3, <3>4 DEF ReadsFit, Onward, AfterPreview, AfterCommit
    <3>7. SessionFits(d)' /\ ToldFits(r, d)'
      BY <2>4, <3>1, <3>4 DEF Fits, EditFits, SessionFits, ToldFits, Onward, Before
    <3> QED BY <3>5, <3>6, <3>7 DEF Fits
  <2> QED BY <1>2, <2>3, <2>4, <2>5, <2>6, ObservingKeeps DEF Onward
<1> QED BY <1>5, <1>6

LEMMA ObservesCommitKeeps ==
    ASSUME HandsInv, NEW r \in Requests, ObservesCommit(r)
    PROVE  HandsInv'
<1>1. HandsShape /\ call[r] \in CallShape /\ Fits(r, call[r]) /\ call[r].at = "readback_done"
  BY DEF HandsInv, HandsShape, ObservesCommit
<1>2. Observes(call[r].seen) /\ UNCHANGED <<fusion, operator>> /\ call[r].seen \in Nat
  BY <1>1, CallFields DEF ObservesCommit
<1>3. undoer' = undoer /\ Now' = Now
  BY <1>2 DEF fusion, Now
<1>4. CASE ~SameSession(r)
  <2>1. PICK d \in CallShape :
           /\ call' = [call EXCEPT ![r] = d] /\ SameEdit(d, call[r]) /\ d.at = "done" /\ d.told = "uncertain"
    BY <1>1, <1>4, EndsEffect DEF ObservesCommit, Told
  <2>2. Fits(r, d)
    BY <1>1, <2>1, EndedFits
  <2>3. World /\ HandsShape' => Fits(r, d)'
    BY <1>1, <1>3, <2>2, FitsStay
  <2> QED BY <1>2, <2>1, <2>3, ObservingKeeps DEF SameEdit
<1>5. CASE SameSession(r)
  <2>1. Longer(call[r].seen)
    BY <1>1, <1>2, ObservesEffect
  <2>2. PICK n \in Nat : n = Len(revisions')
    BY <2>1 DEF Longer
  <2>3. PICK c \in CallShape : c = call[r]
    BY <1>1
  <2> DEFINE d == [c EXCEPT !.at = "guard_c", !.post = n]
  <2>4. d \in CallShape /\ Onward(d, c) /\ d.at = "guard_c" /\ d.post = n
    <3>1. "guard_c" \in Places
      BY DEF Places
    <3> QED BY ONLY <3>1 DEF CallShape, Onward
  <2>5. call' = [call EXCEPT ![r] = d]
    BY <1>5, <2>2, <2>3 DEF ObservesCommit, Goes
  <2> HIDE DEF d
  <2>6. ASSUME World, HandsShape' PROVE Fits(r, d)'
    <3>1. Fits(r, c)'
      BY <1>1, <1>3, <2>3, <2>6, FitsStay
    <3>2. Revision(n)' /\ revisions'[n] = c.seen
      BY <2>1, <2>2, <2>3 DEF Longer, Revision
    <3>3. c.at = "readback_done" /\ (Now'.guard = c.made => c.seen = c.made)
          /\ c.mode = "commit" /\ c.on # Nothing /\ c.ranIn = c.gen
      BY <1>1, <1>3, <2>3 DEF Fits, ReadsFit, AfterCommit
    <3>5. EditFits(d)'
      BY <2>4, <3>1, <3>3 DEF Fits, EditFits, Onward, Before
    <3>6. ReadsFit(r, d)'
      BY <2>4, <3>2, <3>3 DEF ReadsFit, Onward, AfterPreview, AfterCommit
    <3>7. SessionFits(d)' /\ ToldFits(r, d)'
      BY <2>4, <3>1, <3>3 DEF Fits, EditFits, SessionFits, ToldFits, Onward, Before
    <3> QED BY <3>5, <3>6, <3>7 DEF Fits
  <2> QED BY <1>2, <2>3, <2>4, <2>5, <2>6, ObservingKeeps DEF Onward
<1> QED BY <1>4, <1>5

LEMMA PreviewEndsKeeps ==
    ASSUME HandsInv, NEW r \in Requests, PreviewEnds(r)
    PROVE  HandsInv'
<1>1. HandsShape /\ call[r] \in CallShape /\ Fits(r, call[r]) /\ call[r].at = "reread_done"
      /\ UNCHANGED <<fusion, operator>>
  BY DEF HandsInv, HandsShape, PreviewEnds
<1>2. PICK c \in CallShape : c = call[r]
  BY <1>1
<1>3. /\ c.rev \in Nat /\ c.seen \in Nat /\ c.guard \in Nat /\ c.made \in Nat /\ Revision(c.rev)
      /\ c.on = revisions[c.rev] /\ c.on < c.made /\ c.on # Nothing
      /\ Sure(c.guard, c.seen) /\ (undoer = r => c.seen = c.made) /\ c.mode = "preview"
  BY <1>1, <1>2, CallFields DEF Fits, EditFits, ReadsFit, AfterPreview
<1>4. UNCHANGED <<design, stamps, undoer>>
  BY <1>1 DEF fusion
<1> DEFINE gs == IF revisions[Latest] = c.seen THEN guards ELSE Append(guards, Nothing)
           told == IF Restored(r) THEN "previewed" ELSE "uncertain"
           b == IF Restored(r) THEN Binding(c.guard, session) ELSE Nothing
<1>5. guards' = [gs EXCEPT ![c.rev] = b] /\ Ends(r, told)
  BY <1>2 DEF PreviewEnds
<1>6. b \in Bond \cup {Nothing} /\ (b # Nothing => b.guard = c.guard /\ Len(revisions') = c.rev)
  BY <1>1, <1>2, <1>3 DEF Restored, Binding, Bond, HandsShape
<1>7. /\ revisions \in Seq(Nat) /\ guards \in Seq(Bond \cup {Nothing})
      /\ Len(guards) = Len(revisions) /\ Len(revisions) \in Nat
  BY <1>1 DEF HandsShape
<1>8. /\ revisions' \in Seq(Nat) /\ gs \in Seq(Bond \cup {Nothing})
      /\ Len(gs) = Len(revisions') /\ Len(revisions) <= Len(revisions')
      /\ \A v \in 1..Len(revisions) : revisions'[v] = revisions[v]
      /\ Len(revisions') \in Nat \ {0} /\ revisions'[Len(revisions')] = c.seen
      /\ \A v \in 1..Len(revisions') : gs[v] = Nothing \/ (v \in 1..Len(revisions) /\ gs[v] = guards[v])
  <2>1. CASE revisions[Latest] = c.seen
    <3>1. revisions' = revisions /\ gs = guards
      BY <1>2, <2>1 DEF PreviewEnds
    <3>2. Len(revisions) # 0
      BY <1>3, <1>7 DEF Revision
    <3> QED BY <1>7, <2>1, <3>1, <3>2 DEF Latest
  <2>2. CASE revisions[Latest] # c.seen
    <3>1. revisions' = Append(revisions, c.seen) /\ gs = Append(guards, Nothing)
      BY <1>2, <2>2 DEF PreviewEnds
    <3>2. /\ revisions' \in Seq(Nat) /\ Len(revisions') = Len(revisions) + 1
          /\ \A v \in 1..Len(revisions) : revisions'[v] = revisions[v]
          /\ revisions'[Len(revisions) + 1] = c.seen
      BY <1>3, <1>7, <3>1
    <3>3. /\ gs \in Seq(Bond \cup {Nothing}) /\ Len(gs) = Len(guards) + 1
          /\ \A v \in 1..Len(guards) : gs[v] = guards[v]
          /\ gs[Len(guards) + 1] = Nothing
      BY <1>7, <3>1
    <3>4. ASSUME NEW v \in 1..Len(revisions')
          PROVE  gs[v] = Nothing \/ (v \in 1..Len(revisions) /\ gs[v] = guards[v])
      <4>1. v = Len(guards) + 1 \/ v \in 1..Len(guards)
        BY <1>7, <3>2
      <4> QED BY <1>7, <3>3, <4>1
    <3> QED BY <1>7, <3>2, <3>3, <3>4
  <2> QED BY <2>1, <2>2
<1> HIDE DEF gs, b
<1>9. /\ guards' \in Seq(Bond \cup {Nothing}) /\ Len(guards') = Len(revisions')
      /\ \A v \in 1..Len(revisions') : guards'[v] = IF v = c.rev THEN b ELSE gs[v]
  <2>1. c.rev \in 1..Len(gs) /\ Len(gs) \in Nat /\ gs \in Seq(Bond \cup {Nothing})
        /\ b \in Bond \cup {Nothing} /\ Len(gs) = Len(revisions')
    BY <1>3, <1>6, <1>7, <1>8 DEF Revision
  <2>2. guards' \in Seq(Bond \cup {Nothing}) /\ Len(guards') = Len(gs)
    BY <1>5, <2>1
  <2>3. \A v \in 1..Len(gs) : guards'[v] = IF v = c.rev THEN b ELSE gs[v]
    BY <1>5, <2>1
  <2> QED BY <2>1, <2>2, <2>3
<1>10. Sure(c.guard, c.seen)'
  BY <1>3, <1>4 DEF Sure, Now
<1>11. Longer(c.seen)
  <2>1. ASSUME NEW v \in 1..Len(revisions')
        PROVE  \/ guards'[v] = Nothing
               \/ v \in 1..Len(revisions) /\ guards'[v] = guards[v]
               \/ Sure(guards[v].guard, revisions[v])'
    <3>1. CASE v = c.rev
      BY <1>6, <1>8, <1>9, <1>10, <3>1 DEF Sure
    <3>2. CASE v # c.rev
      BY <1>8, <1>9, <3>2
    <3> QED BY <3>1, <3>2
  <2> QED BY <1>8, <1>9, <2>1 DEF Longer
<1>12. PICK d \in CallShape :
          /\ call' = [call EXCEPT ![r] = d] /\ SameEdit(d, c) /\ d.at = "done" /\ d.told = told
  <2>1. told \in Told
    BY DEF Told
  <2> HIDE DEF told
  <2> QED BY <1>1, <1>2, <1>5, <2>1, EndsEffect
<1>13. Fits(r, d)
  <2>1. Restored(r) => undoer # r
    <3>1. Restored(r) => revisions'[c.rev] = c.seen
      BY <1>2, <1>8 DEF Restored
    <3>2. revisions'[c.rev] = c.on
      BY <1>3, <1>8 DEF Revision
    <3> QED BY <1>3, <3>1, <3>2, CallFields
  <2>2. EditFits(d)
    BY <1>1, <1>2, <1>12 DEF Fits, EditFits, SameEdit, Before
  <2>3. ReadsFit(r, d) /\ SessionFits(d)
    BY <1>12 DEF ReadsFit, SessionFits, AfterPreview, AfterCommit
  <2>4. ToldFits(r, d)
    BY <1>3, <1>12, <2>1 DEF ToldFits, SameEdit
  <2> QED BY <2>2, <2>3, <2>4 DEF Fits
<1>14. call' \in [Requests -> CallShape]
  BY <1>1, <1>12 DEF HandsShape
<1>15. \A p \in Requests : undoer = p => call'[p].on = call[p].on /\ call'[p].made = call[p].made
  BY <1>1, <1>2, <1>12 DEF HandsShape, SameEdit
<1>16. HandsShape' /\ World /\ DesignFits' /\ BindingsFit'
  BY <1>1, <1>11, <1>14, <1>15, LongerWorld
<1>17. Fits(r, d)'
  BY <1>1, <1>4, <1>13, <1>16, FitsStay
<1> QED BY <1>4, <1>12, <1>16, <1>17, WorldKeeps

\* Another session, a qualification or a probe.
LEMMA NodeKeeps ==
    ASSUME HandsInv, UNCHANGED <<fusion, tracked, call>>, session' \in Nat, session <= session',
           vouched \subseteq vouched', vouched' \subseteq Nat, qualified' \in Nat,
           qualified' # 0 => qualified' \in vouched'
    PROVE  HandsInv'
<1>1. /\ design' = design /\ stamps' = stamps /\ undoer' = undoer
      /\ revisions' = revisions /\ guards' = guards /\ call' = call
  BY DEF fusion, tracked
<1>2. HandsShape
  BY DEF HandsInv
<1>3. HandsShape'
  BY <1>1, <1>2 DEF HandsShape
<1>4. World
  BY <1>1, <1>2 DEF World, Now, HandsShape
<1>5. DesignFits' /\ BindingsFit'
  BY <1>1 DEF HandsInv, DesignFits, BindingsFit, Now, Sure
<1> QED BY <1>1, <1>3, <1>4, <1>5, WorldAloneKeeps

LEMMA NodeStepKeeps ==
    ASSUME HandsInv, NewSession \/ Qualifies \/ Probes
    PROVE  HandsInv'
<1>1. session \in Nat \ {0} /\ qualified \in Nat /\ vouched \subseteq Nat
      /\ (qualified # 0 => qualified \in vouched)
  BY DEF HandsInv, HandsShape, DesignFits
<1>2. CASE NewSession
  BY <1>1, <1>2, NodeKeeps DEF NewSession
<1>3. CASE Qualifies
  BY <1>1, <1>3, NodeKeeps DEF Qualifies
<1>4. CASE Probes
  BY <1>1, <1>4, NodeKeeps DEF Probes
<1> QED BY <1>2, <1>3, <1>4
-----------------------------------------------------------------------------
\* The document gets a guard that was never given out.
Moved ==
    /\ design' \in Seq(State) /\ design' # << >> /\ stamps' = stamps + 1
    /\ Now'.guard = stamps + 1
    /\ \A i \in 1..Len(design') : design'[i].content <= stamps'

LEMMA ReshapedMoves ==
    ASSUME HandsInv, Reshaped
    PROVE  Moved /\ Len(design') > 1 /\ Now'.content = stamps + 1
<1>1. /\ design \in Seq(State) /\ Len(design) \in Nat /\ Len(design) > 0 /\ stamps \in Nat
      /\ \A i \in 1..Len(design) : design[i].content <= stamps /\ design[i].content \in Nat
  <2>1. HandsShape
    BY DEF HandsInv
  <2>2. \A i \in 1..Len(design) : design[i] \in State
    BY <2>1 DEF HandsShape
  <2> QED BY <2>1, <2>2, NowTypes DEF HandsShape, State, HandsInv, DesignFits
<1> DEFINE s == [content |-> Stamp, guard |-> Stamp]
<1>2. s \in State /\ s.content = stamps + 1 /\ s.guard = stamps + 1
  BY <1>1 DEF State, Stamp
<1>3. design' = Append(design, s) /\ stamps' = stamps + 1
  BY DEF Reshaped, Stamp
<1> HIDE DEF s
<1>4. /\ design' \in Seq(State) /\ Len(design') = Len(design) + 1
      /\ \A i \in 1..Len(design) : design'[i] = design[i]
      /\ design'[Len(design) + 1] = s
  BY <1>1, <1>2, <1>3
<1>5. Now' = s
  BY <1>4 DEF Now
<1>6. ASSUME NEW i \in 1..Len(design')
      PROVE  design'[i].content <= stamps'
  <2>1. i = Len(design) + 1 \/ i \in 1..Len(design)
    BY <1>1, <1>4
  <2>2. CASE i = Len(design) + 1
    BY <1>1, <1>2, <1>3, <1>4, <2>2
  <2>3. CASE i \in 1..Len(design)
    BY <1>1, <1>3, <1>4, <2>3
  <2> QED BY <2>1, <2>2, <2>3
<1> QED BY <1>1, <1>2, <1>3, <1>4, <1>5, <1>6 DEF Moved

LEMMA UndoneMoves ==
    ASSUME HandsInv, Undone, Len(design) > 1
    PROVE  Moved
<1>1. /\ design \in Seq(State) /\ Len(design) \in Nat /\ stamps \in Nat
      /\ \A i \in 1..Len(design) :
            design[i] \in State /\ design[i].content <= stamps /\ design[i].content \in Nat
  <2>1. HandsShape
    BY DEF HandsInv
  <2>2. \A i \in 1..Len(design) : design[i] \in State
    BY <2>1 DEF HandsShape
  <2> QED BY <2>1, <2>2, NowTypes DEF HandsShape, State, HandsInv, DesignFits
<1> DEFINE n == Len(design) - 1
           before == SubSeq(design, 1, n)
           s == [before[n] EXCEPT !.guard = Stamp]
<1>2. /\ n \in Nat /\ n > 0 /\ before \in Seq(State) /\ Len(before) = n
      /\ \A i \in 1..n : before[i] = design[i]
  BY <1>1
<1>3. stamps' = stamps + 1 /\ design' = [before EXCEPT ![n] = s]
  <2>1. Len(before) = n
    BY <1>2
  <2> QED BY <2>1 DEF Undone, Stamp
<1> HIDE DEF before
<1>4. before[n] \in State /\ before[n].content = design[n].content /\ n \in 1..Len(design)
  BY <1>1, <1>2
<1>5. s \in State /\ s.content = design[n].content /\ s.guard = stamps + 1
  <2>1. PICK q \in State : q = before[n]
    BY <1>4
  <2>2. s = [q EXCEPT !.guard = stamps + 1] /\ stamps + 1 \in Nat
    BY <1>1, <2>1 DEF Stamp
  <2> QED BY <1>4, <2>1, <2>2 DEF State
<1> HIDE DEF s
<1>6. /\ design' \in Seq(State) /\ Len(design') = n
      /\ \A i \in 1..n : design'[i] = IF i = n THEN s ELSE before[i]
  BY <1>2, <1>3, <1>5
<1>7. Now' = s /\ design' # << >>
  BY <1>2, <1>6 DEF Now
<1>8. ASSUME NEW i \in 1..Len(design')
      PROVE  design'[i].content <= stamps'
  <2>1. i \in 1..n /\ i \in 1..Len(design)
    BY <1>1, <1>2, <1>6
  <2>2. design'[i].content = design[i].content
    BY <1>2, <1>5, <1>6, <2>1
  <2> QED BY <1>1, <1>3, <2>1, <2>2
<1> QED BY <1>3, <1>5, <1>6, <1>7, <1>8 DEF Moved

LEMMA MovedWorld ==
    ASSUME HandsInv, Moved, UNCHANGED <<operator, tracked>>, call' \in [Requests -> CallShape],
           undoer' \in Requests \cup {Nothing},
           \A p \in Requests : undoer' = p =>
              Len(design') > 1 /\ call'[p].on # Nothing /\ Now'.content = call'[p].made
    PROVE  HandsShape' /\ World /\ DesignFits' /\ BindingsFit'
<1>1. /\ session' = session /\ qualified' = qualified /\ vouched' = vouched
      /\ revisions' = revisions /\ guards' = guards
  BY DEF operator, tracked
<1>2. HandsShape
  BY DEF HandsInv
<1>3. HandsShape'
  BY <1>1, <1>2 DEF HandsShape, Moved
<1>4. World
  BY <1>1, <1>2 DEF World, Moved, HandsShape
<1>5. DesignFits'
  BY <1>1, <1>2 DEF HandsInv, DesignFits, Moved, HandsShape
<1>6. BindingsFit'
  BY <1>1, <1>2, <1>3, <1>4, BindingsStay DEF HandsInv
<1> QED BY <1>3, <1>4, <1>5, <1>6

\* The owner's changes, and the undo of a preview.
LEMMA OwnerChangesKeep ==
    ASSUME HandsInv, OwnerReshapes \/ OwnerTakesBack \/ PreviewUndone
    PROVE  HandsInv'
<1>1. Moved
  <2>1. CASE OwnerReshapes
    BY <2>1, ReshapedMoves DEF OwnerReshapes
  <2>2. CASE OwnerTakesBack
    BY <2>2, UndoneMoves DEF OwnerTakesBack
  <2>3. CASE PreviewUndone
    <3>1. Len(design) > 1
      BY <2>3 DEF PreviewUndone, HandsInv, HandsShape, DesignFits
    <3> QED BY <2>3, <3>1, UndoneMoves DEF PreviewUndone
  <2> QED BY <2>1, <2>2, <2>3
<1>2. UNCHANGED <<operator, tracked>> /\ call' = call /\ undoer' = Nothing
  BY DEF OwnerReshapes, OwnerTakesBack, PreviewUndone, Reshaped
<1>3. call' \in [Requests -> CallShape]
  BY <1>2 DEF HandsInv, HandsShape
<1>4. HandsShape' /\ World /\ DesignFits' /\ BindingsFit'
  BY <1>1, <1>2, <1>3, NothingAssumption, MovedWorld
<1> QED BY <1>2, <1>4, WorldAloneKeeps

\* What of a call an answer of the node leaves.
LEMMA RepliedEffect ==
    ASSUME NEW c \in CallShape,
           NEW reply \in {"none", "conflict", "rejected", "uncertain", "applied"}
    PROVE  LET d == Replied(c, reply) IN
           /\ d \in CallShape /\ ~d.live /\ d.reply = reply
           /\ d.at = IF c.at = "claimed" THEN "ran" ELSE c.at
           /\ d.mode = c.mode /\ d.rev = c.rev /\ d.gen = c.gen /\ d.told = c.told
           /\ d.on = c.on /\ d.made = c.made /\ d.ranIn = c.ranIn
<1> DEFINE p == IF c.at = "claimed" THEN "ran" ELSE c.at
           d == [c EXCEPT !.at = p, !.live = FALSE, !.reply = reply]
<1>1. p \in Places
  BY DEF CallShape, Places
<1>2. Replied(c, reply) = d
  BY DEF Replied
<1> HIDE DEF p
<1>3. /\ d \in CallShape /\ ~d.live /\ d.reply = reply /\ d.at = p
      /\ d.mode = c.mode /\ d.rev = c.rev /\ d.gen = c.gen /\ d.told = c.told
      /\ d.on = c.on /\ d.made = c.made /\ d.ranIn = c.ranIn
  BY <1>1 DEF CallShape
<1> HIDE DEF d
<1> QED BY <1>2, <1>3 DEF p

\* What an edit leaves of its call.
EditLeaves(e, c, on, made, in) ==
    /\ e \in CallShape /\ e.on = on /\ e.made = made /\ e.ranIn = in
    /\ e.at = c.at /\ e.mode = c.mode /\ e.rev = c.rev /\ e.gen = c.gen /\ e.told = c.told

LEMMA EditEffect ==
    ASSUME NEW c \in CallShape, NEW on \in Nat, NEW made \in Nat, NEW in \in Nat
    PROVE  EditLeaves([c EXCEPT !.on = on, !.made = made, !.ranIn = in], c, on, made, in)
  BY DEF CallShape, EditLeaves

LEMMA RunsKeeps ==
    ASSUME HandsInv, NEW r \in Requests, Runs(r)
    PROVE  HandsInv'
<1>1. HandsShape /\ call[r] \in CallShape /\ Fits(r, call[r])
      /\ (call[r].at = "claimed" \/ call[r].live) /\ UNCHANGED <<operator, tracked>>
  BY DEF HandsInv, HandsShape, Runs
<1>2. PICK c \in CallShape : c = call[r]
  BY <1>1
<1>3. /\ Revision(c.rev) /\ c.on = Nothing /\ Sure(c.guard, revisions[c.rev])
      /\ (c.at # "claimed" => c.at = "done" /\ c.told = "uncertain")
      /\ (c.at = "claimed" => c.told = "none")
  BY <1>1, <1>2 DEF Fits, EditFits, Before
<1>4. ASSUME NEW reply \in {"conflict", "rejected", "uncertain"}, UNCHANGED fusion,
             Goes(r, Replied(call[r], reply))
      PROVE  HandsInv'
  <2>1. PICK d \in CallShape :
           /\ d = Replied(c, reply) /\ ~d.live /\ d.reply = reply
           /\ d.at = IF c.at = "claimed" THEN "ran" ELSE c.at
           /\ d.mode = c.mode /\ d.rev = c.rev /\ d.gen = c.gen /\ d.told = c.told
           /\ d.on = c.on /\ d.made = c.made /\ d.ranIn = c.ranIn
    BY RepliedEffect
  <2>2. EditFits(d) /\ SessionFits(d)
    BY <1>1, <1>2, <1>3, <2>1 DEF Fits, EditFits, SessionFits, Before
  <2>3. ReadsFit(r, d)
    BY <1>3, <2>1 DEF ReadsFit, AfterPreview, AfterCommit
  <2>4. ToldFits(r, d)
    BY <1>3, <2>1 DEF ToldFits
  <2>5. Still /\ guards' = guards /\ Goes(r, d)
    BY <1>1, <1>2, <1>4, <2>1 DEF Still, tracked
  <2> QED BY <1>2, <2>1, <2>2, <2>3, <2>4, <2>5, GoingKeeps DEF Fits
<1>5. CASE Applies(r)
  <2>1. Moved /\ Len(design') > 1 /\ Now'.content = stamps + 1
    BY <1>5, ReshapedMoves DEF Applies
  <2>2. Now.content \in Nat /\ stamps \in Nat /\ session \in Nat /\ Now.content <= stamps
        /\ Now.content = revisions[c.rev]
    <3>1. Now.content <= stamps
      BY <1>1, NowTypes DEF HandsInv, DesignFits
    <3>2. Now.content = revisions[c.rev]
      BY <1>2, <1>3, <1>5 DEF Applies, GuardMatches, Sure
    <3> QED BY <1>1, <3>1, <3>2, NowTypes DEF HandsShape
  <2> DEFINE e == [c EXCEPT !.on = Now.content, !.made = Stamp, !.ranIn = session]
  <2>3. /\ e \in CallShape /\ e.on = Now.content /\ e.made = stamps + 1 /\ e.ranIn = session
        /\ e.at = c.at /\ e.mode = c.mode /\ e.rev = c.rev /\ e.gen = c.gen /\ e.told = c.told
    <3>1. Stamp \in Nat /\ Stamp = stamps + 1
      BY <2>2 DEF Stamp
    <3>2. EditLeaves(e, c, Now.content, Stamp, session)
      BY <2>2, <3>1, EditEffect
    <3> QED BY <3>1, <3>2 DEF EditLeaves
  <2>4. PICK reply \in {"applied", "uncertain"} :
           Goes(r, Replied(e, reply)) /\ undoer' \in {undoer, r}
    BY <1>2, <1>5 DEF Applies, Edited
  <2> HIDE DEF e
  <2>5. PICK d \in CallShape :
           /\ d = Replied(e, reply) /\ ~d.live /\ d.reply = reply
           /\ d.at = IF c.at = "claimed" THEN "ran" ELSE c.at
           /\ d.mode = c.mode /\ d.rev = c.rev /\ d.gen = c.gen /\ d.told = c.told
           /\ d.on = Now.content /\ d.made = stamps + 1 /\ d.ranIn = session
    BY <2>3, RepliedEffect
  <2>6. call' = [call EXCEPT ![r] = d]
    BY <2>4, <2>5 DEF Goes
  <2>7. undoer = Nothing /\ undoer' \in {Nothing, r}
    BY <1>5, <2>4 DEF Applies, Reshaped
  <2>8. call' \in [Requests -> CallShape] /\ call'[r] = d
    BY <1>1, <2>6 DEF HandsShape
  <2>9. d.on # Nothing
    BY <2>2, <2>5, NothingAssumption
  <2>10. \A p \in Requests : undoer' = p =>
            Len(design') > 1 /\ call'[p].on # Nothing /\ Now'.content = call'[p].made
    BY <2>1, <2>5, <2>7, <2>8, <2>9, NothingAssumption
  <2>11. HandsShape' /\ World /\ DesignFits' /\ BindingsFit'
    <3>1. undoer' \in Requests \cup {Nothing}
      BY <2>7
    <3> QED BY <1>1, <2>1, <2>8, <2>10, <3>1, MovedWorld
  <2>12. revisions' = revisions /\ session' = session /\ vouched' = vouched
    BY <1>1 DEF operator, tracked
  <2>13. Sure(d.made, d.made)'
    BY <2>1, <2>2, <2>5 DEF Sure, Moved
  <2>14. EditFits(d)'
    <3>1. Revision(d.rev)' /\ d.on = revisions'[d.rev]
      BY <1>3, <2>2, <2>5, <2>12 DEF Revision
    <3>2. d.on < d.made
      BY <2>2, <2>5
    <3> QED BY <1>3, <2>5, <2>13, <3>1, <3>2 DEF EditFits, Before
  <2>15. ReadsFit(r, d)' /\ ToldFits(r, d)'
    BY <1>3, <2>5, <2>9 DEF ReadsFit, ToldFits, AfterPreview, AfterCommit
  <2>16. SessionFits(d)'
    BY <1>1, <1>2, <1>3, <2>2, <2>5, <2>12 DEF Fits, SessionFits
  <2> QED BY <2>6, <2>7, <2>11, <2>14, <2>15, <2>16, WorldKeeps DEF Fits
<1> QED BY <1>4, <1>5 DEF Runs, RefusesGuard, RefusesPlan, Aborts
-----------------------------------------------------------------------------
LEMMA HandsStart ==
    ASSUME HandsInit
    PROVE  HandsInv
<1>1. \A l \in HandsLoads : l.stamps \in Nat
  BY HandsAssumption
<1> DEFINE s == [content |-> 0, guard |-> 0]
<1>2. /\ s \in State /\ s.content = 0 /\ s.guard = 0 /\ design = <<s>>
      /\ stamps = 0 /\ undoer = Nothing /\ session = 1 /\ qualified = 0 /\ vouched = {}
      /\ revisions = << >> /\ guards = << >> /\ call = [r \in Requests |-> NoCall]
  BY DEF HandsInit, State
<1> HIDE DEF s
<1>3. /\ NoCall \in CallShape /\ NoCall.at = "idle" /\ NoCall.told = "none"
      /\ ~NoCall.live /\ NoCall.on = Nothing
  BY DEF NoCall, CallShape, Places, Told
<1>4. /\ design \in Seq(State) /\ Len(design) = 1 /\ design[1] = s /\ Now = s
  BY <1>2 DEF Now
<1>5. HandsShape
  BY <1>2, <1>3, <1>4 DEF HandsShape
<1>6. DesignFits
  BY <1>2, <1>4, NothingAssumption DEF DesignFits
<1>7. BindingsFit
  BY <1>2 DEF BindingsFit
<1>8. \A r \in Requests : call[r] = NoCall
  BY <1>2
<1>9. ASSUME NEW r \in Requests
      PROVE  Fits(r, NoCall)
  BY <1>3 DEF Fits, EditFits, ReadsFit, SessionFits, ToldFits, Before, AfterPreview, AfterCommit
<1> QED BY <1>5, <1>6, <1>7, <1>8, <1>9 DEF HandsInv

LEMMA HandsStutter ==
    ASSUME HandsInv, UNCHANGED handsVars
    PROVE  HandsInv'
<1>1. /\ UNCHANGED <<fusion, tracked, call>>
      /\ session' = session /\ qualified' = qualified /\ vouched' = vouched
  BY DEF handsVars, operator
<1>2. /\ session \in Nat /\ qualified \in Nat /\ vouched \subseteq Nat
      /\ (qualified # 0 => qualified \in vouched)
  BY DEF HandsInv, HandsShape, DesignFits
<1> QED BY <1>1, <1>2, NodeKeeps

LEMMA HandsStep ==
    ASSUME HandsInv, HandsNext
    PROVE  HandsInv'
<1>1. CASE OwnerReshapes \/ OwnerTakesBack \/ PreviewUndone
  BY <1>1, OwnerChangesKeep
<1>2. CASE NewSession \/ Qualifies \/ Probes
  BY <1>2, NodeStepKeeps
<1>3. CASE OthersRead
  BY <1>3, OthersReadKeeps
<1>4. ASSUME NEW r \in Requests,
             \/ \E mode \in {"commit", "preview"} : AsksHands(r, mode)
             \/ ReadsGuardA(r) \/ ObservesModel(r) \/ ReadsGuardB(r) \/ HandshakeFails(r)
      PROVE  HandsInv'
  BY <1>4, AsksHandsKeeps, ReadsGuardAKeeps, ObservesModelKeeps, ReadsGuardBKeeps,
     HandshakeFailsKeeps
<1>5. ASSUME NEW r \in Requests,
             \/ ReadsModel(r, "observe", "observed") \/ ReadsModel(r, "reread", "reread_done")
             \/ ReadsModel(r, "readback", "readback_done")
      PROVE  HandsInv'
  BY <1>5, ReadsModelKeeps
<1>6. ASSUME NEW r \in Requests,
             Refused(r) \/ Claims(r) \/ GivesUpOn(r) \/ Runs(r) \/ Answered(r)
      PROVE  HandsInv'
  BY <1>6, RefusedKeeps, ClaimsKeeps, GivesUpOnKeeps, RunsKeeps, AnsweredKeeps
<1>7. ASSUME NEW r \in Requests,
             \/ PreviewAnswered(r) \/ UndoGuardFails(r) \/ ReadsUndoGuard(r) \/ PreviewEnds(r)
             \/ CommitAnswered(r) \/ ObservesCommit(r) \/ CommitEnds(r) \/ ReadFails(r)
      PROVE  HandsInv'
  BY <1>7, PreviewAnsweredKeeps, UndoGuardFailsKeeps, ReadsUndoGuardKeeps, PreviewEndsKeeps,
     CommitAnsweredKeeps, ObservesCommitKeeps, CommitEndsKeeps, ReadFailsKeeps
<1> QED BY <1>1, <1>2, <1>3, <1>4, <1>5, <1>6, <1>7 DEF HandsNext

\* The inductive invariant: a guard that a binding or a request holds stands for
\* the content that was read under it, because no guard is given out again.
THEOREM HandsFit == HandsSpec => []HandsInv
<1>1. HandsInit => HandsInv
  BY HandsStart
<1>2. HandsInv /\ [HandsNext]_handsVars => HandsInv'
  BY HandsStep, HandsStutter
<1> QED BY <1>1, <1>2, PTL DEF HandsSpec

\* An edit runs on the content that its client named by a revision, however many
\* clients, changes of the owner and sessions there are (bind_hands_provider and
\* the guard of execute_guarded).
THEOREM EditsAreOfTheNamed == HandsSpec => []EditsWhatWasNamed
<1>1. HandsInv => EditsWhatWasNamed
  BY DEF HandsInv, Fits, EditFits, EditsWhatWasNamed
<1> QED BY <1>1, HandsFit, PTL

\* A commit reported as done has run in a qualified session, and the revision it
\* is reported as is what it left (apply_hands_provider).
THEOREM CommitsAreTrue == HandsSpec => []CommitAsReported
<1>1. HandsInv => CommitAsReported
  BY DEF HandsInv, Fits, ToldFits, CommitAsReported
<1> QED BY <1>1, HandsFit, PTL

\* A commit that ended with a code that excludes its execution has not run and
\* will not (_call and apply of the adapter).
THEOREM RefusalsAreTrue == HandsSpec => []RefusedIsUnrun
<1>1. HandsInv => RefusedIsUnrun
  BY DEF HandsInv, Fits, ToldFits, RefusedIsUnrun
<1> QED BY <1>1, HandsFit, PTL

\* A preview reported as done is out of the document (the observation after the
\* undo).
THEOREM PreviewsAreUndone == HandsSpec => []PreviewLeavesNothing
<1>1. HandsInv => PreviewLeavesNothing
  BY DEF HandsInv, Fits, ToldFits, PreviewLeavesNothing
<1> QED BY <1>1, HandsFit, PTL
=============================================================================
