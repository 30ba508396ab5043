--------------------------- MODULE HandsProvider ---------------------------
(***************************************************************************)
(* Sketches and features through the rich provider: app/fusion_cad has the *)
(* Shimmer add-in of a second desktop node edit the document, while what   *)
(* it knows of the document it reads through the reference node.  The two  *)
(* views meet in a binding: a revision of the tracker and the private      *)
(* guard of the add-in, read twice around the observation of the former,   *)
(* in one session of the node.                                             *)
(*                                                                         *)
(* A request is a sequence of calls with awaits between them; the steps    *)
(* below end at the awaits.  A read is answered as it runs; an edit is     *)
(* queued, claimed, run and answered in steps of their own, and may run    *)
(* when nobody waits for it any more.  The tracker observes in the order   *)
(* of the answers, a read's being one step late.                           *)
(***************************************************************************)
EXTENDS Naturals, Sequences

CONSTANTS
    Requests,      \* requests for an edit, a commit or a preview (dry_run)
    HandsLoads,    \* workloads: what each request may ask for, and bounds on the
                   \* contents and guards the document goes through, the changes
                   \* of its owner among them, and the sessions of the rich node
    Nothing

ASSUME HandsAssumption ==
    \A l \in HandsLoads : /\ l.modes \in [Requests -> SUBSET {"commit", "preview"}]
                          /\ l.stamps \in Nat /\ l.owner \in Nat
                          /\ l.sessions \in Nat \ {0}

\* Nothing is neither a request nor a content.
ASSUME NothingAssumption == Nothing \notin Requests \cup Nat

VARIABLES
    plan,        \* the workload of this behaviour
    design,      \* the document's states, the current one last: an undo pops
    stamps,      \* contents and guards given out
    owned,       \* changes by the owner
    undoer,      \* the request whose preview Fusion has still to undo
    session,     \* session_generation of the rich node
    qualified,   \* the session the operator qualified, 0 for none
    vouched,     \* history: all those sessions
    hands,       \* the cached capability matrix supports hands
    revisions,   \* contents observed: revision rev_n is revisions[n]
    guards,      \* revision -> the guard bound to it and the session of it
    call         \* request -> where it is

fusion == <<design, stamps, owned, undoer>>
operator == <<plan, session, qualified, vouched, hands>>
tracked == <<revisions, guards>>
handsVars == <<fusion, operator, tracked, call>>

Stamps == 0..plan.stamps
Sessions == 1..plan.sessions
Places == {"idle", "guard_a", "observe", "observed", "guard_b",
           "queued", "claimed", "ran", "undo_guard", "reread", "reread_done",
           "readback", "readback_done", "guard_c", "done"}
\* What the client is told: "not_run" is a code that only a call which was
\* not dispatched yields, "failed" the failure of a call before the edit.
Told == {"none", "conflict", "failed", "not_run", "rejected", "uncertain",
         "previewed", "committed"}

DesignState == [content : Stamps, guard : Stamps]
NoCall == [at |-> "idle", mode |-> "commit", rev |-> 0, gen |-> 0, guard |-> 0,
           seen |-> 0, post |-> 0, reply |-> "none", told |-> "none",
           live |-> FALSE, on |-> Nothing, made |-> 0, ranIn |-> 0]
HandsCalls == [at : Places, mode : {"commit", "preview"}, rev : Nat, gen : Sessions \cup {0},
           guard : Stamps, seen : Stamps, post : Nat,
           reply : {"none", "conflict", "rejected", "uncertain", "applied"}, told : Told,
           live : BOOLEAN, on : Stamps \cup {Nothing}, made : Stamps, ranIn : Sessions \cup {0}]

HandsTypeOK ==
    /\ plan \in HandsLoads /\ owned \in Nat
    /\ design \in Seq(DesignState) /\ design # << >> /\ stamps \in Stamps
    /\ undoer \in Requests \cup {Nothing}
    /\ session \in Sessions /\ qualified \in Sessions \cup {0}
    /\ vouched \subseteq Sessions /\ hands \in BOOLEAN
    /\ revisions \in Seq(Stamps)
    /\ guards \in Seq([guard : Stamps, session : Sessions] \cup {Nothing})
    /\ Len(guards) = Len(revisions)
    /\ call \in [Requests -> HandsCalls]

HandsInit ==
    /\ plan \in HandsLoads /\ owned = 0
    /\ design = <<[content |-> 0, guard |-> 0]>> /\ stamps = 0 /\ undoer = Nothing
    /\ session = 1 /\ qualified = 0 /\ vouched = {} /\ hands = FALSE
    /\ revisions = << >> /\ guards = << >>
    /\ call = [r \in Requests |-> NoCall]

-----------------------------------------------------------------------------
(* Fusion. *)

Now == design[Len(design)]
Stamp == stamps + 1

\* A content the document never had, under a guard of its own.  A queued undo
\* settles before the next edit, though not before the next read.
Reshaped ==
    /\ undoer = Nothing /\ stamps < plan.stamps
    /\ stamps' = Stamp
    /\ design' = Append(design, [content |-> Stamp, guard |-> Stamp])

\* An undo restores the content under a guard of its own: the revision ids that
\* the guard hashes advance across an undo.  That they do is assumed.
Undone ==
    LET before == SubSeq(design, 1, Len(design) - 1) IN
    /\ stamps < plan.stamps /\ stamps' = Stamp
    /\ design' = [before EXCEPT ![Len(before)].guard = Stamp]

Owner == owned < plan.owner /\ owned' = owned + 1

OwnerReshapes == Owner /\ Reshaped /\ UNCHANGED <<undoer, operator, tracked, call>>

OwnerTakesBack ==
    /\ Owner /\ undoer = Nothing /\ Len(design) > 1
    /\ Undone
    /\ UNCHANGED <<undoer, operator, tracked, call>>

\* The UndoCommand that a preview queued.
PreviewUndone ==
    /\ undoer # Nothing /\ undoer' = Nothing
    /\ Undone
    /\ UNCHANGED <<owned, operator, tracked, call>>

-----------------------------------------------------------------------------
(* Sessions, qualification and capabilities. *)

\* register, or a heartbeat with other tools.
NewSession ==
    /\ session < plan.sessions /\ session' = session + 1
    /\ UNCHANGED <<fusion, plan, qualified, vouched, hands, tracked, call>>

\* qualify_hands_runtime names the current session; the matrix is dropped.
Qualifies ==
    /\ qualified' = session /\ vouched' = vouched \cup {session} /\ hands' = FALSE
    /\ UNCHANGED <<fusion, plan, session, tracked, call>>

\* Mutant of Qualified: the session is not compared.
QualifiedOnce == qualified # 0

\* hands_runtime_qualification
Qualified == qualified = session

\* A capability probe, overlaid with the qualification and cached.
Probes ==
    /\ hands' = Qualified
    /\ UNCHANGED <<fusion, plan, session, qualified, vouched, tracked, call>>

\* get_node_capabilities
Capable == hands /\ Qualified

-----------------------------------------------------------------------------
(* The tracker and the bindings. *)

Latest == Len(revisions)

\* observe: the answer c of a read of the document.
Observes(c) ==
    IF revisions # << >> /\ revisions[Latest] = c THEN UNCHANGED tracked
    ELSE /\ revisions' = Append(revisions, c)
         /\ guards' = Append(guards, Nothing)

\* A model_snapshot of some other client.
OthersRead ==
    /\ Observes(Now.content)
    /\ UNCHANGED <<fusion, operator, call>>

Dropped(v) == guards' = [guards EXCEPT ![v] = Nothing]
Binding(g, s) == [guard |-> g, session |-> s]

\* get_hands_provider_guard
Bound(gs, v) == gs[v] # Nothing /\ gs[v].session = session

\* The session in which the request was bound is still the node's.
SameSession(r) == session = call[r].gen

Goes(r, changes) == call' = [call EXCEPT ![r] = changes]
Ends(r, told) ==
    Goes(r, [call[r] EXCEPT !.at = "done", !.told = told, !.reply = "none",
                            !.gen = 0, !.guard = 0, !.seen = 0])

-----------------------------------------------------------------------------
(* A request up to its edit. *)

\* A plan that is not one of the provider's, or names a reference that is gone
\* or of another kind.
NotCompiled(r) == Ends(r, "failed")

\* What the edit is sent with: the guard bound to the revision named.
Sends(r, c, gs) ==
    \/ Goes(r, [c EXCEPT !.at = "queued", !.guard = gs[c.rev].guard, !.gen = gs[c.rev].session])
    \/ NotCompiled(r)

\* execute and _execute_public_hands: capable, and the latest revision named.
\* Without a binding the handshake begins.
AsksHands(r, mode) ==
    /\ call[r].at = "idle" /\ mode \in plan.modes[r] /\ Capable /\ revisions # << >>
    /\ LET c == [call[r] EXCEPT !.mode = mode, !.rev = Latest, !.gen = session] IN
       IF Bound(guards, Latest)
       THEN Sends(r, c, guards) /\ UNCHANGED guards
       ELSE Goes(r, [c EXCEPT !.at = "guard_a"]) /\ Dropped(Latest)
    /\ UNCHANGED <<fusion, operator, revisions>>

ReadsGuardA(r) ==
    /\ call[r].at = "guard_a"
    /\ Goes(r, [call[r] EXCEPT !.at = "observe", !.guard = Now.guard])
    /\ UNCHANGED <<fusion, operator, tracked>>

\* The content of a read, which is observed when the answer is there.
ReadsModel(r, from, to) ==
    /\ call[r].at = from
    /\ Goes(r, [call[r] EXCEPT !.at = to, !.seen = Now.content])
    /\ UNCHANGED <<fusion, operator, tracked>>

\* The second guard is asked for in the session of the first.
ObservesModel(r) ==
    /\ call[r].at = "observed"
    /\ Observes(call[r].seen)
    /\ IF SameSession(r)
       THEN Goes(r, [call[r] EXCEPT !.at = "guard_b", !.post = Len(revisions')])
       ELSE Ends(r, "failed")
    /\ UNCHANGED <<fusion, operator>>

\* Mutant of Coherent: the second guard is not compared with the first.
CoherentAnyway(r) == SameSession(r)

\* bind_hands_provider: nothing changed around the observation.
Coherent(r) == Now.guard = call[r].guard /\ SameSession(r)

\* The observed revision is bound; the edit is sent when it is still the
\* caller's (the second assert_fresh_for_mutation, apply_hands_provider).
ReadsGuardB(r) ==
    /\ call[r].at = "guard_b"
    /\ LET gs == [guards EXCEPT ![call[r].post] = Binding(Now.guard, session)] IN
       IF ~Coherent(r) THEN Ends(r, "conflict") /\ UNCHANGED guards
       ELSE IF call[r].rev = Latest /\ Bound(gs, Latest)
            THEN Sends(r, call[r], gs) /\ guards' = gs
            ELSE Ends(r, "conflict") /\ guards' = gs
    /\ UNCHANGED <<fusion, operator, revisions>>

HandshakeFails(r) ==
    /\ call[r].at \in {"guard_a", "observe", "guard_b"}
    /\ Ends(r, "failed")
    /\ UNCHANGED <<fusion, operator, tracked>>

-----------------------------------------------------------------------------
(* The edit. *)

\* Refused by the relay, or timed out before it was claimed: an offline node
\* costs the binding.
Refused(r) ==
    /\ call[r].at = "queued"
    /\ Ends(r, "not_run")
    /\ Dropped(call[r].rev) \/ UNCHANGED guards
    /\ UNCHANGED <<fusion, operator, revisions>>

Claims(r) ==
    /\ call[r].at = "queued"
    /\ Goes(r, [call[r] EXCEPT !.at = "claimed"])
    /\ UNCHANGED <<fusion, operator, tracked>>

\* Mutant of Lost: a call that timed out is taken for one never dispatched.
LostUnrun == "not_run"

\* _call: what a claimed edit without an answer is reported as.
Lost == "uncertain"

\* A timeout, a lost answer or a malformed one: the edit may run yet.
GivesUpOn(r) ==
    /\ call[r].at \in {"claimed", "ran"}
    /\ \/ call[r].at = "ran" /\ Ends(r, Lost)
       \/ call[r].at = "claimed"
          /\ Goes(r, [call[r] EXCEPT !.at = "done", !.told = Lost, !.live = TRUE])
    /\ Dropped(call[r].rev)
    /\ UNCHANGED <<fusion, operator, revisions>>

\* The answer of a run; nobody hears that of a call given up.
Replied(c, reply) ==
    [c EXCEPT !.at = IF @ = "claimed" THEN "ran" ELSE @, !.live = FALSE, !.reply = reply]

\* The edit took place, on what it found.
Edited(r, reply) ==
    Replied([call[r] EXCEPT !.on = Now.content, !.made = Stamp, !.ranIn = session], reply)

\* execute_guarded: the guard sent is the document's.
GuardMatches(r) == call[r].guard = Now.guard

RefusesGuard(r) ==
    ~GuardMatches(r) /\ Goes(r, Replied(call[r], "conflict")) /\ UNCHANGED fusion

\* A reference of the plan is gone or of another kind, before the transaction.
RefusesPlan(r) ==
    GuardMatches(r) /\ Goes(r, Replied(call[r], "rejected")) /\ UNCHANGED fusion

\* An operation raised; the abort brought the guard back, or cannot be proven.
Aborts(r) ==
    /\ GuardMatches(r)
    /\ \E reply \in {"rejected", "uncertain"} : Goes(r, Replied(call[r], reply))
    /\ UNCHANGED fusion

\* Applied; or applied and unable to prove it.  A preview is undone by a command
\* that Fusion queues.
Applies(r) ==
    /\ GuardMatches(r) /\ Reshaped /\ UNCHANGED owned
    /\ \/ /\ Goes(r, Edited(r, "applied"))
          /\ undoer' = IF call[r].mode = "preview" THEN r ELSE undoer
       \/ Goes(r, Edited(r, "uncertain")) /\ UNCHANGED undoer

Runs(r) ==
    /\ call[r].at = "claimed" \/ call[r].live
    /\ RefusesGuard(r) \/ RefusesPlan(r) \/ Aborts(r) \/ Applies(r)
    /\ UNCHANGED <<operator, tracked>>

\* An answer that is not a success.
Answered(r) ==
    /\ call[r].at = "ran" /\ call[r].reply # "applied"
    /\ Ends(r, call[r].reply)
    /\ IF call[r].reply = "rejected" THEN UNCHANGED guards ELSE Dropped(call[r].rev)
    /\ UNCHANGED <<fusion, operator, revisions>>

-----------------------------------------------------------------------------
(* After a preview. *)

\* A failure of the guard that is read after the undo; the call that failed is
\* the read, its code that of a call not dispatched.
Unexplained == {"not_run", "uncertain"}

\* The adapter reads the guard again; not in another session.
PreviewAnswered(r) ==
    /\ call[r].at = "ran" /\ call[r].reply = "applied" /\ call[r].mode = "preview"
    /\ IF SameSession(r)
       THEN Goes(r, [call[r] EXCEPT !.at = "undo_guard"]) /\ UNCHANGED guards
       ELSE Ends(r, "not_run") /\ Dropped(call[r].rev)
    /\ UNCHANGED <<fusion, operator, revisions>>

UndoGuardFails(r) ==
    /\ call[r].at = "undo_guard"
    /\ \E told \in Unexplained : Ends(r, told)
    /\ Dropped(call[r].rev) \/ UNCHANGED guards
    /\ UNCHANGED <<fusion, operator, revisions>>

ReadsUndoGuard(r) ==
    /\ call[r].at = "undo_guard"
    /\ IF SameSession(r)
       THEN /\ Goes(r, [call[r] EXCEPT !.at = "reread", !.guard = Now.guard])
            /\ UNCHANGED guards
       ELSE Ends(r, "uncertain") /\ Dropped(call[r].rev)
    /\ UNCHANGED <<fusion, operator, revisions>>

\* Mutant of Restored: the revision after the preview is not looked at.
RestoredAnyway(r) == SameSession(r)

\* The document is at the revision it was previewed on.
Restored(r) == Len(revisions') = call[r].rev /\ SameSession(r)

PreviewEnds(r) ==
    /\ call[r].at = "reread_done"
    /\ LET same == revisions[Latest] = call[r].seen
           gs == IF same THEN guards ELSE Append(guards, Nothing)
       IN  /\ revisions' = IF same THEN revisions ELSE Append(revisions, call[r].seen)
           /\ IF Restored(r)
              THEN /\ guards' = [gs EXCEPT ![call[r].rev] = Binding(call[r].guard, session)]
                   /\ Ends(r, "previewed")
              ELSE guards' = [gs EXCEPT ![call[r].rev] = Nothing] /\ Ends(r, "uncertain")
    /\ UNCHANGED <<fusion, operator>>

-----------------------------------------------------------------------------
(* After a commit. *)

CommitAnswered(r) ==
    /\ call[r].at = "ran" /\ call[r].reply = "applied" /\ call[r].mode = "commit"
    /\ IF SameSession(r) THEN Goes(r, [call[r] EXCEPT !.at = "readback"])
       ELSE Ends(r, "uncertain")
    /\ Dropped(call[r].rev)
    /\ UNCHANGED <<fusion, operator, revisions>>

ObservesCommit(r) ==
    /\ call[r].at = "readback_done"
    /\ Observes(call[r].seen)
    /\ IF SameSession(r)
       THEN Goes(r, [call[r] EXCEPT !.at = "guard_c", !.post = Len(revisions')])
       ELSE Ends(r, "uncertain")
    /\ UNCHANGED <<fusion, operator>>

\* The guard is still the one that the edit left.
Proven(r) == SameSession(r) /\ call[r].post # call[r].rev /\ Now.guard = call[r].made

\* The entities of the answer must be in the snapshot of that revision, which
\* another client's may have replaced.
CommitEnds(r) ==
    /\ call[r].at = "guard_c"
    /\ \/ /\ Proven(r) /\ Ends(r, "committed")
          /\ guards' = [guards EXCEPT ![call[r].post] = Binding(Now.guard, session)]
       \/ Ends(r, "uncertain") /\ UNCHANGED guards
    /\ UNCHANGED <<fusion, operator, revisions>>

ReadFails(r) ==
    /\ call[r].at \in {"reread", "readback", "guard_c"}
    /\ Ends(r, "uncertain")
    /\ Dropped(call[r].rev)
    /\ UNCHANGED <<fusion, operator, revisions>>

-----------------------------------------------------------------------------
HandsNext ==
    \/ OwnerReshapes \/ OwnerTakesBack \/ PreviewUndone
    \/ NewSession \/ Qualifies \/ Probes \/ OthersRead
    \/ \E r \in Requests :
         \/ \E mode \in {"commit", "preview"} : AsksHands(r, mode)
         \/ ReadsGuardA(r) \/ ReadsModel(r, "observe", "observed") \/ ObservesModel(r)
         \/ ReadsGuardB(r) \/ HandshakeFails(r)
         \/ Refused(r) \/ Claims(r) \/ GivesUpOn(r) \/ Runs(r) \/ Answered(r)
         \/ PreviewAnswered(r) \/ UndoGuardFails(r) \/ ReadsUndoGuard(r)
         \/ ReadsModel(r, "reread", "reread_done") \/ PreviewEnds(r)
         \/ CommitAnswered(r) \/ ReadsModel(r, "readback", "readback_done")
         \/ ObservesCommit(r) \/ CommitEnds(r) \/ ReadFails(r)

HandsSpec == HandsInit /\ [][HandsNext]_handsVars

-----------------------------------------------------------------------------
(* What a client may rely on. *)

\* An edit runs on the content that its client named by a revision, whoever
\* else works on the document in between (bind_hands_provider, the guard of
\* execute_guarded, the rebinding after a preview).
EditsWhatWasNamed ==
    \A r \in Requests : call[r].on # Nothing => call[r].on = revisions[call[r].rev]

\* A commit reported as such has run, in a session the operator qualified, and
\* the revision it is reported as is the content it left (apply_hands_provider
\* from the answer to the result).
CommitAsReported ==
    \A r \in Requests : call[r].told = "committed" =>
        /\ call[r].on # Nothing /\ call[r].ranIn \in vouched
        /\ revisions[call[r].post] = call[r].made

\* A commit that ended with a code that excludes its execution has not run and
\* will not (_call and apply of the adapter).
RefusedIsUnrun ==
    \A r \in Requests :
        call[r].mode = "commit" /\ call[r].told \in {"conflict", "failed", "not_run", "rejected"} =>
            call[r].on = Nothing /\ ~call[r].live

\* A preview that is reported as done is out of the document (the observation
\* after the undo).
PreviewLeavesNothing ==
    \A r \in Requests : call[r].told = "previewed" => undoer # r
=============================================================================
