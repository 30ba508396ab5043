------------------------- MODULE MCRepositoryWrites -------------------------
(* Small instances of RepositoryWrites for TLC. *)
EXTENDS RepositoryWrites

ThePlans == {"plan", "plan2"}
TheStages == {"stage"}
TheCommits == {"guarded", "plain"}
ThePushes == {"push", "push2"}
TheForwards == {"forward"}
OnlyGuarded == {"guarded"}

\* A cycle of change, stage and commit; two plans that meet; two commits over
\* one index; an unguarded commit over two edits; pushes that meet those of
\* others, and fast-forwards.
SomeLoads ==
    { [asks |-> {"plan", "stage", "guarded"}, others |-> 1],
      [asks |-> {"plan", "plan2", "stage"}, others |-> 1],
      [asks |-> {"stage", "guarded", "plain"}, others |-> 1],
      [asks |-> {"stage", "plain"}, others |-> 2],
      [asks |-> {"stage", "plain", "push"}, others |-> 1],
      [asks |-> {"push", "push2", "forward"}, others |-> 3],
      [asks |-> {"push", "forward", "stage", "guarded"}, others |-> 2] }
=============================================================================
