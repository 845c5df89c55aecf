---- MODULE MCHandCounter ----
(* HandCounter for TLC: a camera that obeys.                                *)
EXTENDS HandCounter
AllReached == {Controls}
====
