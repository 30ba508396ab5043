------------------------- MODULE MCCoordinatorWake -------------------------
(* Small instances of CoordinatorWake for TLC. *)
EXTENDS CoordinatorWake

CONSTANTS chat, other, e1, e2, e3

\* Two resilient events of one chat, and a plain one of another.
TwoAndOne == {e1, e2, e3}
PlainThird == {e3}
HomeTwoAndOne == [e \in TwoAndOne |-> IF e = e3 THEN other ELSE chat]
=============================================================================
