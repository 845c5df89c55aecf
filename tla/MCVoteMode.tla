---- MODULE MCVoteMode ----
(* VoteMode for TLC, in a picture of 640 x 480 pixels.                      *)
EXTENDS VoteMode
AllReached == {Controls}
LeftHand   == {<<60, 60>>, <<85, 140>>}
RightHand  == {<<560, 60>>, <<585, 140>>}
FarHand    == {<<300, 60>>, <<330, 140>>}
Arm        == LeftHand \cup RightHand     \* one hull that reaches both boxes
Border     == {<<10, 60>>, <<160, 60>>}   \* vertices on the edge of the left box
HandsAnywhere ==
  {{}, {LeftHand}, {RightHand}, {LeftHand, RightHand}, {Arm}, {FarHand, Border}}
====
