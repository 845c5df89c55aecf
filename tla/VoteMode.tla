-------------------------------- MODULE VoteMode --------------------------------
(***************************************************************************)
(* VoteMode.cpp: two boxes in the upper corners of the picture, one to     *)
(* vote no (left, box 0) and one to vote yes (right, box 1).               *)
(***************************************************************************)
EXTENDS Panel

CONSTANTS
  FrameWidth,     \* of the camera's picture, in pixels
  SquareSize,     \* side of a box (150)
  SquareMargin    \* distance from the edge of the picture (10)

ASSUME VoteAssumption ==
  /\ NumBoxes = 2
  /\ FrameWidth \in Nat
  /\ SquareSize \in Nat
  /\ SquareMargin \in Nat

(* The rectangles of the boxes left and right (lines 30-37).                *)
Layout ==
  LET square(x) == [x |-> x, y |-> SquareMargin, width |-> SquareSize, height |-> SquareSize]
  IN  [b \in Boxes |-> IF b = 0 THEN square(SquareMargin)
                       ELSE square(FrameWidth - SquareSize - SquareMargin)]

(* One step of main.  The frame (lines 56-106) is findBlobs, ProcessHulls   *)
(* of left and of right, and the test of both.                              *)
Program == PanelStep(Layout, "key")

(* PanelSpec(Layout).                                                       *)
Init == LoopInit /\ PanelInit

Next == PanelNext(Layout)

Spec == Init /\ [][Next]_allVars

FairSpec == Spec /\ WF_allVars(Program) /\ WF_allVars(Tick /\ UNCHANGED panelVars)
===============================================================================
