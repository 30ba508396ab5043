--------------------------- MODULE MCJobAdmission ---------------------------
(***************************************************************************)
(* Six calls: a submission of an executor job that needs its repository    *)
(* idle, its retry, another specification under the same key, a task with  *)
(* no key in the other repository, a command and a service operation.      *)
(***************************************************************************)
EXTENDS JobAdmission

CONSTANTS repoA, repoB, submit, retry, other, task, command, service, key

\* Calls whose requests differ in the given fields only.
Call(op, repo, k, digest, alone) ==
    [op |-> op, repo |-> repo, key |-> k, digest |-> digest, alone |-> alone]

Requests ==
    [c \in {submit, retry, other, task, command, service} |->
        CASE c \in {submit, retry} -> Call("exec", repoA, key, 1, TRUE)
          [] c = other             -> Call("exec", repoA, key, 2, FALSE)
          [] c = task              -> Call("task", repoB, None, 1, FALSE)
          [] c = command           -> Call("command", repoA, None, 1, FALSE)
          [] c = service           -> Call("service", repoB, None, 1, FALSE)]
=============================================================================
