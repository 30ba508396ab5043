-------------------------- MODULE MCRouteRollover --------------------------
(* A small instance of RouteRollover for TLC: the chats are interchangeable   *)
(* and every property is a state predicate.                                   *)
EXTENDS RouteRollover, TLC

CONSTANTS a, b, w1

TwoChats == {a, b}
Alike == Permutations(TwoChats)
=============================================================================
