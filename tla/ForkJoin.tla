------------------------------- MODULE ForkJoin -------------------------------
(***************************************************************************)
(* What thread_pool_extension_abstract.h promises to tasks that add tasks: *)
(* each is executed once, after it was added, by a thread of the pool or   *)
(* by the one that adds it; who waits goes on when those it added are      *)
(* done; and the pool is only shut down when all are.                      *)
(***************************************************************************)
EXTENDS Sequences, SequencesExt

CONSTANTS
  Tasks,       \* the programs of the clients, and all the tasks added by one
  Children,    \* per task: the sequence of the tasks that it adds
  Roots,       \* the programs of the clients
  Forgetful    \* the tasks that do not wait for those they add

VARIABLES
  status,      \* per task: "new", "added", "running" or "done"
  closed       \* the pool is shut down

vars == <<status, closed>>

Init ==
  /\ status = [k \in Tasks |-> IF k \in Roots THEN "running" ELSE "new"]
  /\ closed = FALSE

AddedBy(k, c) == c \in ToSet(Children[k])

Add(k) ==
  /\ status[k] = "new" /\ \E p \in Tasks : AddedBy(p, k) /\ status[p] = "running"
  /\ status' = [status EXCEPT ![k] = "added"]

RunInPlace(k) ==
  /\ status[k] = "new" /\ \E p \in Tasks : AddedBy(p, k) /\ status[p] = "running"
  /\ status' = [status EXCEPT ![k] = "running"]

Run(k) == status[k] = "added" /\ status' = [status EXCEPT ![k] = "running"]

Finish(k) ==
  /\ status[k] = "running"
  /\ \A c \in ToSet(Children[k]) : status[c] # "new" /\ (k \notin Forgetful => status[c] = "done")
  /\ status' = [status EXCEPT ![k] = "done"]

Close == (\A k \in Tasks : status[k] = "done") /\ closed' = TRUE /\ UNCHANGED status

Next ==
  \/ \E k \in Tasks : (Add(k) \/ RunInPlace(k) \/ Run(k) \/ Finish(k)) /\ UNCHANGED closed
  \/ Close

Spec == Init /\ [][Next]_vars
===============================================================================
