----------------------------- MODULE FusionCad -----------------------------
(***************************************************************************)
(* The CAD service over the relay: app/fusion_cad keeps, in memory only,   *)
(* the revisions it has observed of a document and the staged transaction  *)
(* on it, while the document itself changes under three hands: the scripts *)
(* Fusion runs, the owner, and raw calls the service does not look at.     *)
(*                                                                         *)
(* Every operation here but a read and a raw call is submitted and comes   *)
(* back when some client polls operation_result: the service learns the    *)
(* outcomes in the order of the polls, after a restart perhaps, and acts   *)
(* on each once.  One document, one transaction; a document is a stack of  *)
(* contents, so that an undo brings an earlier content back.               *)
(***************************************************************************)
EXTENDS DesktopRelay

CONSTANTS
    MaxEdits   \* bound on the contents the document goes through

VARIABLES
    hist,      \* contents observed in this boot: revision rev_n is hist[n]
    tx,        \* the TransactionRecord and the tracker's baseline of it
    req,       \* op -> what its script was built with
    result,    \* op -> the fingerprint its answer carries
    final,     \* operations marked "domain_finalization" in the journal
    native,    \* the document's contents, the current one last
    edits,     \* contents made so far
    seen,      \* history: <<revision number, content>> that reads told clients
    previews,  \* history: <<plan, content>> previewed
    applied    \* history: operations whose script changed the document, with
               \* the content each was applied to

service == <<hist, tx, final, seen>>
document == <<native, edits, previews, applied>>
cadVars == <<service, req, result, document>>
vars == <<relayVars, cadVars>>

AllKinds == {"begin", "stage", "preview", "commit", "abort", "set", "read", "raw"}
Contents == 0..MaxEdits
Revs == 0..(2 * MaxOps)

ASSUME CadAssumption ==
    /\ Kinds = AllKinds /\ Calls = {"read", "raw"} /\ Mutations = AllKinds \ {"read"}
    /\ MaxEdits \in Nat
    /\ \A l \in Loads : l.edits <= MaxEdits

\* One transaction: its id is drawn at random or named by its client, once.
ASSUME OneBegin == \A l \in Loads : l.asks["begin"] <= 1

\* The record and the baseline: no transaction yet in this boot.
NoTx == [st |-> "none", base |-> 0, rev |-> 0, plan |-> 0, preview |-> 0, based |-> FALSE]
Tx == [st : {"none", "new", "staged", "committing", "committed", "aborted"},
       base : Contents, rev : Revs, plan : 0..MaxOps, preview : 0..MaxOps, based : BOOLEAN]

TypeOK ==
    /\ RelayTypeOK
    /\ hist \in Seq(Contents)
    /\ tx \in Tx
    /\ req \in [Ops -> [fp : Contents, plan : 0..MaxOps]]
    /\ result \in [Ops -> Contents]
    /\ final \subseteq Ops
    /\ native \in Seq(Contents) /\ native # << >> /\ edits \in Contents
    /\ seen \subseteq (Revs \X Contents)
    /\ previews \subseteq ((0..MaxOps) \X Contents)
    /\ applied \subseteq (Ops \X Contents)

Init ==
    /\ RelayInit
    /\ hist = << >> /\ tx = NoTx /\ final = {}
    /\ req = [o \in Ops |-> [fp |-> 0, plan |-> 0]]
    /\ result = [o \in Ops |-> 0]
    /\ native = <<0>> /\ edits = 0
    /\ seen = {} /\ previews = {} /\ applied = {}

-----------------------------------------------------------------------------
(* The revision tracker. *)

Current == Len(hist)

\* observe: a new revision when the fingerprint differs from the current one.
Observed(fp) == IF hist # << >> /\ hist[Current] = fp THEN hist ELSE Append(hist, fp)

\* assert_expected of the transaction's baseline.
Fresh == tx.based /\ tx.rev = Current

-----------------------------------------------------------------------------
(* execute: the guards of an operation and the request it is built into. *)

Send(o, k, r) ==
    /\ Submit(o, k)
    /\ req' = [req EXCEPT ![o] = r]
    /\ UNCHANGED <<result, document>>

Plain == [fp |-> 0, plan |-> 0]

\* begin with no expected revision, a read, a raw call: nothing is asked first.
AskPlain(o) ==
    /\ \E k \in {"begin", "read", "raw"} : Send(o, k, Plain)
    /\ UNCHANGED service

AskStage(o) ==
    /\ tx.based /\ tx.st \in {"new", "staged"}
    /\ Send(o, "stage", Plain)
    /\ UNCHANGED service

\* The first experiment of the service: a plan of exactly one text.
Replayable == tx.st = "staged" /\ tx.plan = 1 /\ Fresh
Replay == [fp |-> tx.base, plan |-> tx.plan]

AskPreview(o) ==
    /\ Replayable
    /\ Send(o, "preview", Replay)
    /\ UNCHANGED service

\* Mutant of MayCommit: a preview is not asked for.
MayCommitUnseen == Replayable

\* begin_commit: the accepted preview is one of this plan.
MayCommit == Replayable /\ tx.preview = tx.plan

\* A commit carries the operation identity derived from its transaction.
AskCommit(o) ==
    /\ MayCommit
    /\ \A p \in Ops : kind[p] = "commit" => row[p] = "forgotten"
    /\ tx' = [tx EXCEPT !.st = "committing"]
    /\ Send(o, "commit", Replay)
    /\ UNCHANGED <<hist, final, seen>>

\* The reservation is made before the relay is asked, and is kept when the
\* relay refuses: unknown or offline node, full queue, identity in use.
StrandCommit ==
    /\ MayCommit
    /\ tx' = [tx EXCEPT !.st = "committing"]
    /\ UNCHANGED <<relayVars, hist, final, seen, req, result, document>>

\* execute and rollback refuse a commit that may be in flight.
MayAbort == tx.st \notin {"committing", "committed", "aborted"}

AskAbort(o) ==
    /\ MayAbort
    /\ Send(o, "abort", Plain)
    /\ UNCHANGED service

\* A standalone mutation, by a client that read a content as the revision it
\* names: that is the current one, and the fingerprint sent is the tracker's.
AskSet(o) ==
    /\ \E s \in seen :
         /\ s[1] = Current
         /\ Send(o, "set", [fp |-> hist[Current], plan |-> s[2]])
    /\ UNCHANGED service

-----------------------------------------------------------------------------
(* Fusion. *)

Content == native[Len(native)]

\* The document gets a content it never had.
Edit == edits < load.edits /\ edits' = edits + 1 /\ native' = Append(native, edits + 1)

\* The scripts that leave the document as it is, and the guard of a preview.
Looks(o) ==
    /\ kind[o] \in {"begin", "stage", "abort", "read", "preview"}
    /\ kind[o] = "preview" => req[o].fp = Content
    /\ result' = [result EXCEPT ![o] = Content]
    /\ previews' = IF kind[o] = "preview" THEN previews \cup {<<req[o].plan, Content>>}
                   ELSE previews
    /\ UNCHANGED <<native, edits, applied>>

\* The scripts that change it; all but a raw call compare fingerprints first.
Changes(o) ==
    /\ kind[o] \in {"commit", "set", "raw"}
    /\ kind[o] # "raw" => req[o].fp = Content
    /\ Edit
    /\ applied' = applied \cup {<<o, Content>>}
    /\ result' = [result EXCEPT ![o] = edits + 1]
    /\ UNCHANGED previews

NoEffect == UNCHANGED <<result, document>>

\* Fusion runs the claimed command.  A failure, and a stale guard, change
\* nothing; an unproven boundary of a commit leaves either outcome.
Run(o) ==
    /\ \/ (Looks(o) \/ Changes(o)) /\ Executes(o, "ok")
       \/ NoEffect /\ Executes(o, "error")
       \/ kind[o] = "commit" /\ (Changes(o) \/ NoEffect) /\ Executes(o, "uncertain")
    /\ UNCHANGED <<service, req>>

RunLate(o) ==
    /\ (Changes(o) \/ NoEffect) /\ ExecutesLate(o)
    /\ UNCHANGED <<service, req>>

\* The owner works on the document, or undoes its last change.
OwnerEdits ==
    /\ Edit
    /\ UNCHANGED <<relayVars, service, req, result, previews, applied>>

OwnerUndoes ==
    /\ Len(native) > 1
    /\ native' = SubSeq(native, 1, Len(native) - 1)
    /\ UNCHANGED <<relayVars, service, req, result, edits, previews, applied>>

-----------------------------------------------------------------------------
(* The outcomes, as they are polled. *)

\* Mutant of Unfinalized: the durable marker is not looked at.
UnfinalizedAlways(o) == row[o] \in {"succeeded", "late_succeeded"}

\* operation_result hands a terminal success to the service once.
Unfinalized(o) == row[o] \in {"succeeded", "late_succeeded"} /\ o \notin final

Poll(o, k) ==
    /\ kind[o] = k /\ Unfinalized(o)
    /\ hist' = Observed(result[o])
    /\ final' = final \cup {o}
    /\ UNCHANGED <<relayVars, seen, req, result, document>>

\* A baseline, and the record.
FinishBegin(o) ==
    /\ Poll(o, "begin") /\ tx.st = "none"
    /\ tx' = [st |-> "new", base |-> result[o], rev |-> Len(hist'), plan |-> 0,
              preview |-> 0, based |-> TRUE]

MayExtend == tx.st \in {"new", "staged"}

FinishStage(o) ==
    /\ Poll(o, "stage") /\ MayExtend
    /\ tx' = [tx EXCEPT !.st = "staged", !.plan = @ + 1, !.preview = 0]

\* begin_preview and finish_preview; after a restart there is no record.
FinishPreview(o) ==
    /\ Poll(o, "preview")
    /\ \/ tx.st = "none" /\ UNCHANGED tx
       \/ tx.st = "new" /\ UNCHANGED tx
       \/ tx.st = "staged" /\ tx' = [tx EXCEPT !.preview = req[o].plan]

\* The baseline is asked for first, then the record of a plan.
FinishCommit(o) ==
    /\ Poll(o, "commit") /\ tx.based
    /\ tx.plan > 0 => tx.st = "committing" /\ tx.preview = req[o].plan
    /\ tx' = [tx EXCEPT !.st = IF tx.plan > 0 THEN "committed" ELSE @, !.based = FALSE]

\* With a baseline, the document must be at it.
FinishAbort(o) ==
    /\ Poll(o, "abort")
    /\ tx.based => result[o] = tx.base
    /\ MayAbort
    /\ tx' = [tx EXCEPT !.st = IF @ = "none" THEN @ ELSE "aborted", !.based = FALSE]

FinishSet(o) == Poll(o, "set") /\ UNCHANGED tx

\* A call hands its result over itself: a read tells its client the revision,
\* a raw call is not observed.
ReturnRead(o) ==
    /\ Returns(o)
    /\ IF kind[o] = "read" /\ answer[o] = "ok"
       THEN /\ hist' = Observed(result[o])
            /\ seen' = seen \cup {<<Len(hist'), result[o]>>}
       ELSE UNCHANGED <<hist, seen>>
    /\ UNCHANGED <<tx, final, req, result, document>>

-----------------------------------------------------------------------------
(* The relay's own steps. *)

\* The tracker and the transactions are the process's.
RestartAll ==
    /\ Restart
    /\ hist' = << >> /\ tx' = NoTx
    /\ UNCHANGED <<final, seen, req, result, document>>

RelayStep ==
    /\ \/ Registers \/ AgentCrashes
       \/ \E o \in Ops : \/ \E lost \in BOOLEAN : Claim(o, lost) \/ Post(o, lost)
                         \/ Expires(o) \/ Abandons(o) \/ GivesUp(o)
    /\ UNCHANGED cadVars

Ask(o) ==
    \/ AskPlain(o) \/ AskStage(o) \/ AskPreview(o) \/ AskCommit(o) \/ AskAbort(o) \/ AskSet(o)

Finish(o) ==
    \/ FinishBegin(o) \/ FinishStage(o) \/ FinishPreview(o) \/ FinishCommit(o)
    \/ FinishAbort(o) \/ FinishSet(o)

Next ==
    \/ \E o \in Ops : Ask(o) \/ Run(o) \/ RunLate(o) \/ Finish(o) \/ ReturnRead(o)
    \/ StrandCommit \/ OwnerEdits \/ OwnerUndoes \/ RestartAll \/ RelayStep

Spec == Init /\ [][Next]_vars

-----------------------------------------------------------------------------
(* What the service promises. *)

Commits == {o \in Ops : kind[o] = "commit"}
Applied == {o \in Commits : \E c \in Contents : <<o, c>> \in applied}

\* Commits the relay, the agent or Fusion may yet run.
InFlight ==
    {o \in Commits : o \in pending \ claimed \/ agent = o \/ o \in late}

\* What the record says of the document: a transaction that may be staged on,
\* previewed or begun has no commit applied or on its way, an aborted one never
\* will have, and a committed one was applied exactly once (transactions.py;
\* finalize_terminal_operation acts only on proven outcomes).
CommitTruth ==
    /\ tx.st \in {"new", "staged", "aborted"} => Applied \cup InFlight = {}
    /\ tx.st = "committed" => Cardinality(Applied) = 1 /\ InFlight = {}

\* A commit that changed the document replayed the plan of a preview, on the
\* content that preview ran on (begin_commit, the scripts' guards).
CommitIsPreviewed ==
    \A o \in Commits : \A c \in Contents :
        <<o, c>> \in applied => <<req[o].plan, c>> \in previews
=============================================================================
