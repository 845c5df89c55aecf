-------------------------------- MODULE Baratas --------------------------------
(***************************************************************************)
(* Tracking/baratas.cpp: the loop of CameraLoop, where processing a frame  *)
(* means to hand the blobs of the whole picture to a Tracker.  The tracker *)
(* is not told of recalibrations: it goes on where it was.  Line numbers   *)
(* are those of Tracking/baratas.cpp.                                      *)
(***************************************************************************)
EXTENDS CameraLoop, Tracker

baratasVars == <<loopVars, vars>>

BaratasInit == LoopInit /\ Init

(* findBlobs, which teaches the background model (lines 52-62).             *)
FindBlobs ==
  /\ pc = "process"
  /\ background' = Learn(background)
  /\ Step
  /\ UNCHANGED <<camAdapted, camAdaptationStartTime, autoAdjust>>

(* The first frame initialises the tracker and goes straight on to the next *)
(* one, past the window and the keyboard (lines 64-67).                     *)
FirstFrame ==
  /\ FindBlobs
  /\ \E ms \in Scenes : InitObjects(ms)
  /\ pc' = "grab"

(* Every other frame (line 69).                                             *)
LaterFrame ==
  /\ FindBlobs
  /\ \E ms \in Scenes : Track(ms)
  /\ pc' = "key"

Program ==
  \/ LoopStep("process", "key") /\ UNCHANGED vars
  \/ FirstFrame
  \/ LaterFrame

BaratasNext ==
  \/ Program
  \/ (Tick \/ SetClockBack) /\ UNCHANGED vars
  \/ Ended /\ UNCHANGED vars

BaratasSpec == BaratasInit /\ [][BaratasNext]_baratasVars

(* As in ObjectCounter: the loop never blocks for good, and time passes.    *)
BaratasFairSpec ==
  BaratasSpec /\ WF_baratasVars(Program) /\ WF_baratasVars(Tick /\ UNCHANGED vars)

-------------------------------------------------------------------------------
(***************************************************************************)
(* What the tracker learns of the world it learns from frames of a camera  *)
(* that was calibrated for long enough, is frozen, and is compared with a  *)
(* background of that calibration (lines 52-73).                           *)
(***************************************************************************)
TracksCalibratedFrames ==
  [][objects' # objects =>
       /\ lead + adapting > AdaptationTime * QuantaPerSec
       /\ \A c \in Controls : ~autoAdjust[c]
       /\ background' = "current"]_baratasVars

(***************************************************************************)
(* The operator is heard: the keyboard is polled again and again until the *)
(* program ends, although the first frame goes past it (lines 64-67, 95).  *)
(***************************************************************************)
OperatorIsHeard == []<>(pc \in {"key"} \cup Stopped)
===============================================================================
