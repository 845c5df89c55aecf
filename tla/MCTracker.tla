---- MODULE MCTracker ----
(* Tracker for TLC.  Far: two places further apart than Tresh and, as in    *)
(* Row, away from the origin or at it.  Row: three hundredths of a pixel    *)
(* between neighbours.                                                      *)
EXTENDS Tracker
Far   == {0, 3}
Crowd == {2, 3, 6}
Away  == {5, 6}
Row   == {100, 103, 106}
Still == {0}
Drift == {-1, 0, 1}
====
