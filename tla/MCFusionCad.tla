---------------------------- MODULE MCFusionCad ----------------------------
(***************************************************************************)
(* Small instances of FusionCad and of HandsProvider, the two ways an edit *)
(* reaches a document.  Each behaviour takes one of the two: a transaction *)
(* of scripts and a request to the rich provider meet in the revision of   *)
(* the tracker only, where each takes the other for a change by the owner. *)
(***************************************************************************)
EXTENDS FusionCad, HandsProvider

CONSTANTS r1, r2

Guarded == AllKinds \ {"read"}
Waited == {"read", "raw"}

\* Operations of each kind: the bag of the kinds of a sequence.
Bag(s) == [k \in AllKinds |-> Cardinality({i \in DOMAIN s : s[i] = k})]

Load(s, f, b, e, h) ==
    [asks |-> Bag(s), faults |-> f, boots |-> b, edits |-> e, history |-> h]

NoLoad == Load(<< >>, 0, 0, 0, 9)

\* The transaction with a second preview and stage and an abort, polled in any
\* order; with a raw call, or a read and a change, beside it; over a restart
\* and a fault.  Then calls that are abandoned, lost and restarted, with a
\* journal too short for them.
ManyLoads ==
    { Load(<<"begin", "stage", "preview", "commit", "abort", "preview">>, 0, 1, 2, 9),
      Load(<<"begin", "stage", "preview", "commit", "abort", "stage">>, 0, 1, 1, 9),
      Load(<<"begin", "stage", "preview", "commit", "raw">>, 0, 1, 2, 9),
      Load(<<"begin", "stage", "preview", "commit", "set", "read">>, 0, 1, 1, 9),
      Load(<<"begin", "stage", "preview", "commit", "abort">>, 1, 2, 1, 9),
      Load(<<"begin", "raw">>, 1, 2, 1, 1),
      Load(<<"raw", "raw">>, 2, 2, 1, 9),
      Load(<<"read", "set">>, 1, 2, 2, 9), NoLoad }

Hands(a, b, stamp, owner, boots) ==
    [modes |-> [r \in Requests |-> IF r = r1 THEN a ELSE b],
     stamps |-> stamp, owner |-> owner, sessions |-> boots]

NoHands == Hands({}, {}, 0, 0, 1)

\* A commit and a preview, with a change by the owner or without; two commits
\* and two previews; and one request over a second session of the node.
ManyHands ==
    { Hands({"commit"}, {"preview"}, 3, 1, 1),
      Hands({"commit"}, {"commit"}, 3, 0, 1),
      Hands({"preview"}, {"preview"}, 4, 0, 1),
      Hands({"commit", "preview"}, {}, 4, 2, 2), NoHands }

EitherInit == Init /\ HandsInit /\ (load = NoLoad) # (plan = NoHands)

EitherNext ==
    \/ plan = NoHands /\ Next /\ UNCHANGED handsVars
    \/ load = NoLoad /\ HandsNext /\ UNCHANGED vars

Either == EitherInit /\ [][EitherNext]_<<vars, handsVars>>
=============================================================================
