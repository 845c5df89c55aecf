-------------------------------- MODULE DialMode --------------------------------
(***************************************************************************)
(* DialMode.cpp: a row of boxes at the top of the picture, one per digit.  *)
(* Pressing a box appends its digit to the dialled number; the program     *)
(* ends when the number is the code.  Line numbers are those of            *)
(* DialMode.cpp.                                                           *)
(***************************************************************************)
EXTENDS Panel, Sequences, FiniteSets

CONSTANTS
  SquareSize,     \* side of a box (50)
  SquareMargin,   \* distance between the boxes (12)
  Code,           \* the number that ends the program ("1234"), digit by digit
  MaxDialled      \* bound: nobody dials more digits; numbers holds 79 in the
                  \* code, where nothing looks whether the next one still fits

ASSUME DialAssumption ==
  /\ SquareSize \in Nat
  /\ SquareMargin \in Nat
  /\ Code \in Seq(0 .. 9)
  /\ MaxDialled \in Nat
  /\ NumBoxes <= 10

VARIABLES
  numbers,    \* the dialled number
  label       \* i, the digit that goes with the next box

dialVars == <<numbers, label>>
vars     == <<loopVars, panelVars, dialVars>>

(* The rectangles of the boxes (lines 38-46).                               *)
Layout ==
  [b \in Boxes |-> [x |-> (SquareSize + SquareMargin) * b + SquareMargin,
                    y |-> SquareMargin, width |-> SquareSize, height |-> SquareSize]]

(* What sprintf "%d" writes for a number below 100 (line 76).               *)
Decimal(n) == IF n < 10 THEN <<n>> ELSE <<n \div 10, n % 10>>

Init == LoopInit /\ PanelInit /\ numbers = <<>> /\ label = 0

(* The bound on what is dialled.                                            *)
HandsLeave == Len(numbers) >= MaxDialled => hulls' = {}

(* Mutated form: the labels go on from the last frame.                      *)
StartFrameKeepLabel == FindBlobs /\ HandsLeave /\ UNCHANGED <<numbers, label>>

(* findBlobs, and i = 0 before the boxes (lines 56-72).                     *)
StartFrame == FindBlobs /\ HandsLeave /\ label' = 0 /\ UNCHANGED numbers

(* Mutated form: a box writes its digit in every frame in which it is       *)
(* counted.                                                                 *)
DialBoxCounted ==
  /\ ProcessBox(Layout)
  /\ IF Pressed(Layout) \/ boxes[next].counted
       THEN /\ numbers' = numbers \o Decimal(label)
            /\ label' = label + 2
       ELSE /\ label' = label + 1
            /\ UNCHANGED numbers

(* One box (lines 74-83): i counts the boxes, and once more the box that is *)
(* pressed, so that every later box of the frame has a label too large.     *)
DialBox ==
  /\ ProcessBox(Layout)
  /\ IF Pressed(Layout)
       THEN /\ numbers' = numbers \o Decimal(label)
            /\ label' = label + 2
       ELSE /\ label' = label + 1
            /\ UNCHANGED numbers

(* Too many boxes active (lines 95-99).                                     *)
ResolveBoxes == Resolve("code") /\ UNCHANGED dialVars

(* The number is compared with the code in every round (line 120).          *)
CheckCode ==
  /\ pc = "code"
  /\ pc' = IF numbers = Code THEN "unlocked" ELSE "key"
  /\ Step
  /\ UNCHANGED <<cameraVars, panelVars, dialVars>>

Program ==
  \/ LoopStep("findBlobs", "code") /\ UNCHANGED <<panelVars, dialVars>>
  \/ StartFrame
  \/ DialBox
  \/ ResolveBoxes
  \/ CheckCode

Environment == (Tick \/ SetClockBack) /\ UNCHANGED <<panelVars, dialVars>>

Next == Program \/ Environment \/ (Ended /\ UNCHANGED <<panelVars, dialVars>>)

Spec == Init /\ [][Next]_vars

TypeOK ==
  /\ LoopTypeOK(FrameSteps \cup {"code"})
  /\ PanelTypeOK
  /\ numbers \in Seq(0 .. 9)
  /\ label \in Nat

-------------------------------------------------------------------------------
(***************************************************************************)
(* Pressing box b appends the digit b and nothing else, although the label *)
(* is not the box's index once a box of the same frame was pressed (lines  *)
(* 74-83): no later box of that frame is ever pressed.                     *)
(***************************************************************************)
DigitIsBox == [][numbers' # numbers => numbers' = Append(numbers, next)]_vars

(***************************************************************************)
(* The number holds as many digits b as box b was counted: no press is     *)
(* lost, none doubled and none written as another digit, over any number   *)
(* of frames and recalibrations (lines 48-49, 74-83).                      *)
(***************************************************************************)
Places(b) == {k \in 1 .. Len(numbers) : numbers[k] = b}

NumberTellsCounts == \A b \in Boxes : boxes[b].count = Cardinality(Places(b))

(***************************************************************************)
(* With a clock that is not set back, every digit takes a hold of its own, *)
(* longer than the activation time, and no two holds overlap: neither two  *)
(* hands nor an arm across the row dials any faster (lines 73-99).         *)
(***************************************************************************)
DiallingTakesTime == Len(numbers) * (ActivationTime + 1) <= clock
===============================================================================
