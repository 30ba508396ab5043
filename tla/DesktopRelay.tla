---------------------------- MODULE DesktopRelay ----------------------------
(***************************************************************************)
(* The relay of commands to a workstation: app/desktop_nodes keeps the     *)
(* queue, the commands that are open and a bounded journal of operations;  *)
(* agents/windows_fusion_agent.py claims one command at a time, has Fusion *)
(* run it, and spools the result until the bridge takes it.                *)
(*                                                                         *)
(* Every section under the relay's condition is free of awaits, so each is *)
(* a step.  Operations are numbered in the order they are created.         *)
(***************************************************************************)
EXTENDS Naturals, Sequences, FiniteSets

CONSTANTS
    Kinds,         \* what an operation asks for
    Mutations,     \* kinds whose journal entry says "mutation"
    Calls,         \* kinds sent by call, which waits; the rest use submit
    MaxOps,        \* bound on the operations
    MaxPending,    \* max_pending_commands
    Loads,         \* workloads: how many operations of each kind, lost answers
                   \* and agent crashes, starts of the bridge, and edits of the
                   \* document; and the journal_history_limit
    None

Ops == 1..MaxOps

ASSUME RelayAssumption ==
    /\ MaxOps \in Nat /\ MaxPending \in Nat
    /\ \A l \in Loads : /\ l.asks \in [Kinds -> Nat]
                        /\ l.faults \in Nat /\ l.boots \in Nat /\ l.edits \in Nat
                        /\ l.history \in Nat \ {0}
    /\ Mutations \subseteq Kinds /\ Calls \subseteq Kinds
    /\ None \notin Kinds /\ None \notin Ops

VARIABLES
    load,     \* the workload of this behaviour
    kind,     \* op -> its kind, None before it is created
    row,      \* op -> status of its journal entry
    order,    \* operations in the journal's memory, oldest update first
    queue,    \* node.queue
    pending,  \* node.commands
    claimed,  \* the claimed flag of the command objects of this boot
    caller,   \* op -> the task that awaits it in call
    agent,    \* the command the agent has Fusion run, or None
    outbox,   \* the result spooled on the workstation's disk, or None
    answer,   \* op -> what its spooled result says
    late,     \* commands Fusion may still run though the agent gave them up
    known,    \* the node is registered with this boot of the bridge
    boot,
    faults,
    ran       \* history: op -> times Fusion ran it

journal == <<row, order>>
node == <<queue, pending, claimed, caller>>
workstation == <<agent, outbox, answer, late, ran>>
relayVars == <<load, kind, journal, node, workstation, known, boot, faults>>

Terminal == {"succeeded", "failed", "late_succeeded", "late_failed"}
Incomplete == {"queued", "claimed"}
Statuses == {"none", "uncertain", "timed_out", "cancelled", "orphaned", "interrupted",
             "forgotten"} \cup Terminal \cup Incomplete
Answers == {"ok", "error", "uncertain"}

RelayTypeOK ==
    /\ load \in Loads
    /\ kind \in [Ops -> Kinds \cup {None}]
    /\ row \in [Ops -> Statuses]
    /\ order \in Seq(Ops) /\ Len(order) <= load.history
    /\ queue \in Seq(Ops)
    /\ pending \subseteq Ops /\ claimed \subseteq Ops /\ late \subseteq Ops
    /\ caller \in [Ops -> {"none", "waiting", "answered", "expired", "gone"}]
    /\ agent \in Ops \cup {None} /\ outbox \in Ops \cup {None}
    /\ answer \in [Ops -> Answers \cup {"none"}]
    /\ known \in BOOLEAN
    /\ boot \in Nat /\ faults \in Nat
    /\ ran \in [Ops -> Nat]

RelayInit ==
    /\ load \in Loads
    /\ kind = [o \in Ops |-> None]
    /\ row = [o \in Ops |-> "none"] /\ order = << >>
    /\ queue = << >> /\ pending = {} /\ claimed = {}
    /\ caller = [o \in Ops |-> "none"]
    /\ agent = None /\ outbox = None /\ late = {}
    /\ answer = [o \in Ops |-> "none"]
    /\ known = TRUE /\ boot = 1 /\ faults = 0
    /\ ran = [o \in Ops |-> 0]

Mutation(o) == kind[o] \in Mutations

\* s without o, which occurs at most once.
Without(s, o) ==
    IF o \notin {s[i] : i \in DOMAIN s} THEN s
    ELSE LET at == CHOOSE i \in DOMAIN s : s[i] = o
         IN  SubSeq(s, 1, at - 1) \o SubSeq(s, at + 1, Len(s))

-----------------------------------------------------------------------------
(* The journal. *)

\* What _trim_memory pushes out of a memory holding ord.
Evicted(ord) == IF Len(ord) > load.history THEN {Head(ord)} ELSE {}

\* The entry of o becomes the newest, with status s.
Write(o, s) ==
    LET ord == Append(Without(order, o), o)
    IN  /\ order' = IF Evicted(ord) = {} THEN ord ELSE Tail(ord)
        /\ row' = [p \in Ops |-> IF p \in Evicted(ord) THEN "forgotten"
                                 ELSE IF p = o THEN s ELSE row[p]]

\* update does nothing for an operation the journal has forgotten.
Update(o, s) == IF row[o] = "forgotten" THEN UNCHANGED journal ELSE Write(o, s)

\* Mutant of Recovered: a claimed command is taken for one never claimed.
RecoveredBlindly(o) == "orphaned"

\* What the next boot makes of an entry that was open.
Recovered(o) ==
    IF row[o] = "queued" THEN "orphaned"
    ELSE IF Mutation(o) THEN "uncertain" ELSE "interrupted"

-----------------------------------------------------------------------------
(* The bridge. *)

Created == {o \in Ops : kind[o] # None}

\* submit and call: the node is known, and not full.
Accepts == known /\ Cardinality(pending) < MaxPending

Submit(o, k) ==
    /\ Accepts /\ Cardinality({p \in Ops : kind[p] = k}) < load.asks[k]
    /\ kind[o] = None /\ o = Cardinality(Created) + 1
    /\ kind' = [kind EXCEPT ![o] = k]
    /\ Write(o, "queued")
    /\ queue' = Append(queue, o) /\ pending' = pending \cup {o}
    /\ caller' = IF k \in Calls THEN [caller EXCEPT ![o] = "waiting"] ELSE caller
    /\ UNCHANGED <<load, claimed, workstation, known, boot, faults>>

\* Mutant of Unclaimed: a command stays queued until its result is in.
UnclaimedKept == queue

\* The queue once its head has been claimed.
Unclaimed == Tail(queue)

\* claim: the journal says so before the answer is sent, and the answer may
\* be lost.  The agent claims with an empty outbox only.
Claim(o, lost) ==
    /\ known /\ queue # << >> /\ o = Head(queue)
    /\ agent = None /\ outbox = None
    /\ queue' = Unclaimed
    /\ claimed' = claimed \cup {o}
    /\ Update(o, "claimed")
    /\ lost => faults < load.faults
    /\ faults' = IF lost THEN faults + 1 ELSE faults
    /\ agent' = IF lost THEN None ELSE o
    /\ UNCHANGED <<load, kind, pending, caller, outbox, answer, late, ran, known, boot>>

\* The timeout of call fires, or its client disconnects: the task is cancelled
\* but has yet to resume, even when the answer is already there.
Expires(o) ==
    /\ caller[o] \in {"waiting", "answered"}
    /\ caller' = [caller EXCEPT ![o] = "expired"]
    /\ UNCHANGED <<load, kind, journal, queue, pending, claimed, workstation, known, boot, faults>>

\* The status an abandoned call leaves behind.
LeftAs(o, why) == IF o \in claimed /\ Mutation(o) THEN "uncertain" ELSE why

\* The cancelled task resumes and removes its command.
Abandons(o) ==
    /\ caller[o] = "expired"
    /\ caller' = [caller EXCEPT ![o] = "gone"]
    /\ pending' = pending \ {o} /\ queue' = Without(queue, o)
    /\ \E why \in {"timed_out", "cancelled"} : Update(o, LeftAs(o, why))
    /\ UNCHANGED <<load, kind, claimed, workstation, known, boot, faults>>

\* The call returns the result it was given.
Returns(o) ==
    /\ caller[o] = "answered"
    /\ caller' = [caller EXCEPT ![o] = "gone"]
    /\ UNCHANGED <<load, kind, journal, queue, pending, claimed, workstation, known, boot, faults>>

\* A new process: the journal is recovered, everything else is empty.
Restart ==
    /\ boot < load.boots
    /\ boot' = boot + 1 /\ known' = FALSE
    /\ queue' = << >> /\ pending' = {} /\ claimed' = {}
    /\ caller' = [o \in Ops |-> IF caller[o] = "none" THEN "none" ELSE "gone"]
    /\ row' = [o \in Ops |-> IF row[o] \in Incomplete THEN Recovered(o) ELSE row[o]]
    /\ order' = SelectSeq(order, LAMBDA o : row[o] \notin Incomplete)
                \o SelectSeq(order, LAMBDA o : row[o] \in Incomplete)
    /\ UNCHANGED <<load, kind, workstation, faults>>

-----------------------------------------------------------------------------
(* The agent and Fusion. *)

\* register, also from the heartbeat or a result that was answered 404.
Registers ==
    /\ ~known /\ known' = TRUE
    /\ UNCHANGED <<load, kind, journal, node, workstation, boot, faults>>

\* Fusion runs the command and the agent spools what it says.
Executes(o, says) ==
    /\ agent = o /\ agent' = None
    /\ outbox' = o /\ answer' = [answer EXCEPT ![o] = says]
    /\ ran' = [ran EXCEPT ![o] = @ + 1]
    /\ UNCHANGED <<load, kind, journal, node, late, known, boot, faults>>

\* The tool call raises or times out: the agent spools an error, while Fusion
\* may still run the command.
GivesUp(o) ==
    /\ agent = o /\ agent' = None
    /\ outbox' = o /\ answer' = [answer EXCEPT ![o] = "error"]
    /\ late' = late \cup {o}
    /\ UNCHANGED <<load, kind, journal, node, ran, known, boot, faults>>

ExecutesLate(o) ==
    /\ o \in late /\ late' = late \ {o}
    /\ ran' = [ran EXCEPT ![o] = @ + 1]
    /\ UNCHANGED <<load, kind, journal, node, agent, outbox, answer, known, boot, faults>>

\* The agent dies with a command whose result it has not spooled.
AgentCrashes ==
    /\ agent # None /\ faults < load.faults
    /\ faults' = faults + 1 /\ agent' = None /\ late' = late \cup {agent}
    /\ UNCHANGED <<load, kind, journal, node, outbox, answer, ran, known, boot>>

Settled(o) == CASE answer[o] = "ok" -> "succeeded"
                [] answer[o] = "uncertain" /\ Mutation(o) -> "uncertain"
                [] OTHER -> "failed"
SettledLate(o) == CASE answer[o] = "ok" -> "late_succeeded"
                    [] answer[o] = "uncertain" /\ Mutation(o) -> "uncertain"
                    [] OTHER -> "late_failed"

\* Mutant of TakesLate: an uncertain operation is taken for a settled one.
TakesLateUnsure(o) == row[o] \notin Terminal \cup {"forgotten", "uncertain"}

\* Whether the result of a command that is not open any more is recorded.
TakesLate(o) == row[o] \notin Terminal \cup {"forgotten"}

\* submit_result of the spooled result.
Record(o) ==
    IF o \in pending
    THEN /\ o \in claimed
         /\ Update(o, Settled(o))
         /\ pending' = pending \ {o}
         /\ caller' = IF caller[o] = "waiting" THEN [caller EXCEPT ![o] = "answered"] ELSE caller
    ELSE /\ IF TakesLate(o) THEN Write(o, SettledLate(o)) ELSE UNCHANGED journal
         /\ UNCHANGED <<pending, caller>>

\* The agent posts its result; unless the answer is lost, taken or refused for
\* good, it is off the disk.
Post(o, lost) ==
    /\ known /\ outbox = o /\ Record(o)
    /\ lost => faults < load.faults
    /\ faults' = IF lost THEN faults + 1 ELSE faults
    /\ outbox' = IF lost THEN outbox ELSE None
    /\ UNCHANGED <<load, kind, queue, claimed, agent, answer, late, ran, known, boot>>

\* The steps of the relay, with what the agent's runs say left open.
RelayNext ==
    \/ Restart \/ Registers \/ AgentCrashes
    \/ \E o \in Ops :
         \/ \E k \in Kinds : Submit(o, k)
         \/ \E lost \in BOOLEAN : Claim(o, lost) \/ Post(o, lost)
         \/ Expires(o) \/ Abandons(o) \/ Returns(o)
         \/ \E says \in Answers : Executes(o, says)
         \/ GivesUp(o) \/ ExecutesLate(o)

-----------------------------------------------------------------------------
(* What the relay promises about a mutation. *)

Mutating == {o \in Ops : Mutation(o)}

\* A command is run at most once, whatever is lost, given up or restarted: the
\* agent never replays, and a claim is final (claim, submit_result_safely).
RunsAtMostOnce == \A o \in Ops : ran[o] <= 1

\* A mutation whose entry says that it was never claimed ("orphaned",
\* "timed_out", "cancelled") has not run and cannot run any more: its client
\* may send it again (_recover_incomplete_operations, the handlers of call).
NeverRanWhenToldSo ==
    \A o \in Mutating : row[o] \in {"orphaned", "timed_out", "cancelled"} =>
        ran[o] = 0 /\ agent # o /\ o \notin late

\* The result of a submitted mutation that the agent no longer keeps is what
\* its entry says, or the entry was pushed out of the journal (submit_result:
\* also after a restart or an overflow of the journal).
ResultsAreKept ==
    \A o \in Mutating : kind[o] \notin Calls /\ answer[o] # "none" /\ outbox # o =>
        row[o] \in {Settled(o), SettledLate(o), "forgotten"}
=============================================================================
