--------------------------- MODULE EventDelivery ---------------------------
(***************************************************************************)
(* What the coordinator promises of the events it accepts: an event it     *)
(* holds is shown to the model or given up by the owner, and is never lost *)
(* on the way.  Only an event of a batch that was re-made behind a turn    *)
(* the model had already acknowledged may not fit the next prompt, and     *)
(* that one can vanish unseen.                                             *)
(***************************************************************************)
CONSTANT Events

VARIABLE state

EventStates == {"new", "held", "oversized", "shown", "given_up", "vanished"}

\* How an event may move in one step; a step may move several.  A carrier that
\* held its claim past the lease may show an event late.
Moves == {<<"new", "held">>,
          <<"held", "oversized">>,
          <<"held", "shown">>,        <<"oversized", "shown">>,
          <<"held", "given_up">>,     <<"oversized", "given_up">>,
          <<"given_up", "shown">>,    <<"vanished", "shown">>,
          <<"oversized", "vanished">>}

Init == state = [e \in Events |-> "new"]

Next == /\ state' \in [Events -> EventStates]
        /\ \A e \in Events : state'[e] # state[e] => <<state[e], state'[e]>> \in Moves

Spec == Init /\ [][Next]_state
=============================================================================
