---- MODULE MCBaratas ----
(* Baratas for TLC.                                                         *)
EXTENDS Baratas
AllReached == {Controls}
Far   == {0, 3}
Still == {0}
====
