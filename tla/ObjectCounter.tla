----------------------------- MODULE ObjectCounter -----------------------------
(***************************************************************************)
(* ObjectCounter.cpp: the loop of CameraLoop, where processing a frame     *)
(* means to find circles in it and to print how many there are.  Unlike    *)
(* the other programs it compares no frame with a background: its model is *)
(* reset by the end of a calibration and taught by nothing.                *)
(***************************************************************************)
EXTENDS CameraLoop

CONSTANT MaxCircles   \* bound: circles of a frame

ASSUME CircleAssumption == MaxCircles \in Nat

VARIABLE houghBlobs   \* detector.houghBlobs, of which only the number matters

vars == <<loopVars, houghBlobs>>

Init == LoopInit /\ houghBlobs = 0

(* A frame of a calibrated camera (lines 42-52): findHough replaces the     *)
(* list of circles.                                                         *)
CountObjects ==
  /\ pc = "process"
  /\ houghBlobs' \in 0 .. MaxCircles
  /\ pc' = "key"
  /\ Step
  /\ UNCHANGED cameraVars

Program == (LoopStep("process", "key") /\ UNCHANGED houghBlobs) \/ CountObjects

Environment == (Tick \/ SetClockBack) /\ UNCHANGED houghBlobs

Next == Program \/ Environment \/ (Ended /\ UNCHANGED houghBlobs)

Spec == Init /\ [][Next]_vars

(***************************************************************************)
(* The loop never blocks for good (waitKey returns after 30 ms, the camera *)
(* delivers a frame or an empty one), and time passes.  The keyboard and   *)
(* the loss of the camera are choices within the fair loop.                *)
(***************************************************************************)
FairSpec == Spec /\ WF_vars(Program) /\ WF_vars(Tick /\ UNCHANGED houghBlobs)

-------------------------------------------------------------------------------
(***************************************************************************)
(* Objects are counted again and again until the program ends, whenever    *)
(* the operator leaves the space key alone from some time on and even if   *)
(* the clock was set back before (lines 42-60, 81-85).                     *)
(***************************************************************************)
KeepsCounting == []<>(pc \in {"process"} \cup Stopped)
===============================================================================
