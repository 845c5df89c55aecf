------------------------------- MODULE Assignment -------------------------------
(***************************************************************************)
(* What dlib::max_cost_assignment gives its callers: for a square matrix   *)
(* of costs, one column for each row, no column twice, of the largest      *)
(* total cost.  Any of those will do.                                      *)
(*                                                                         *)
(* Tracker uses the function by this contract, MaxCostAssignment models    *)
(* the algorithm behind it.  Rows and columns are numbered from 1 here.    *)
(***************************************************************************)
EXTENDS Integers, Sequences, FiniteSets, FiniteSetsExt, Functions

(* assignment_cost: the total cost of assigning column a[i] to each row i.  *)
Total(cost, a) == MapThenSumSet(LAMBDA i : cost[i][a[i]], DOMAIN cost)

MaxCostAssignments(cost) ==
  LET all  == Injection(DOMAIN cost, DOMAIN cost)
      best == Max({Total(cost, a) : a \in all})
  IN  {a \in all : Total(cost, a) = best}
===============================================================================
