---- MODULE MCMaxCostAssignment ----
(* MaxCostAssignment for TLC: all matrices of three values, as a distance   *)
(* matrix of the tracker has them: negative ones for distances, positive    *)
(* ones for what pairs nothing.                                             *)
EXTENDS MaxCostAssignment
ThreeValued == [Rows -> [Cols -> {-3, -1, 2}]]
====
