-------------------------- MODULE MCTerminalWaiters --------------------------
(***************************************************************************)
(* Two jobs and three waiters: a durable one on both jobs that also wakes  *)
(* on the first failure, a durable one of another group on one job, and a  *)
(* one-shot one on the other job.                                          *)
(***************************************************************************)
EXTENDS TerminalWaiters

CONSTANTS jobA, jobB, both, single, oneShot, routeA, routeB

JobsOfWaiter == [w \in {both, single, oneShot} |->
                    CASE w = both    -> {jobA, jobB}
                      [] w = single  -> {jobA}
                      [] w = oneShot -> {jobB}]
GroupOfWaiter == [w \in {both, single} |-> IF w = both THEN routeA ELSE routeB]
=============================================================================
