------------------------------ MODULE HandCounter ------------------------------
(***************************************************************************)
(* HandCounter.cpp: the loop of CameraLoop, where processing a frame means *)
(* to find the blobs in its upper part and to print how many there are.    *)
(* Nothing is kept from one frame to the next except the background model. *)
(***************************************************************************)
EXTENDS CameraLoop

CONSTANT MaxHands   \* bound: blobs of a frame

ASSUME HandAssumption == MaxHands \in Nat

VARIABLE hands      \* detector.hulls, of which only the number matters here

handVars == <<loopVars, hands>>

HandInit == LoopInit /\ hands = 0

(* Mutated form: the hulls of the last frame are not cleared.               *)
CountHandsAppending ==
  /\ pc = "process"
  /\ \E found \in 0 .. MaxHands : hands' = hands + found
  /\ background' = Learn(background)
  /\ pc' = "key"
  /\ Step
  /\ UNCHANGED <<camAdapted, camAdaptationStartTime, autoAdjust>>

(* A frame of a calibrated camera (lines 35-53): findBlobs teaches the      *)
(* background model and replaces the list of hulls.                         *)
CountHands ==
  /\ pc = "process"
  /\ hands' \in 0 .. MaxHands
  /\ background' = Learn(background)
  /\ pc' = "key"
  /\ Step
  /\ UNCHANGED <<camAdapted, camAdaptationStartTime, autoAdjust>>

HandNext ==
  \/ LoopStep("process", "key") /\ UNCHANGED hands
  \/ CountHands
  \/ (Tick \/ SetClockBack) /\ UNCHANGED hands
  \/ Ended /\ UNCHANGED hands

HandSpec == HandInit /\ [][HandNext]_handVars

HandTypeOK == LoopTypeOK({"process"}) /\ hands \in 0 .. MaxHands
===============================================================================
