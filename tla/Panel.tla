--------------------------------- MODULE Panel ---------------------------------
(***************************************************************************)
(* A panel of interactive objects in front of the camera: what VoteMode    *)
(* (two boxes, yes and no) and DialMode (ten boxes, the digits) do with a  *)
(* frame of a calibrated camera.                                           *)
(*                                                                         *)
(*   findBlobs -> one ProcessHulls per box, in order -> if more than one   *)
(*   box is active, deactivate them all                                    *)
(*                                                                         *)
(* Each call reads the clock for itself, so each is a step of its own.     *)
(* The two programs extend this module with their layout and with what     *)
(* they do besides.                                                        *)
(***************************************************************************)
EXTENDS CameraLoop, InteractiveObject

CONSTANTS
  NumBoxes,   \* number of interactive objects
  HullSets    \* what findBlobs may leave in the detector: sets of hulls, a
              \* hull a set of points <<x, y>>

ASSUME PanelAssumption == NumBoxes \in Nat \ {0}

Boxes == 0 .. NumBoxes - 1

VARIABLES
  hulls,      \* detector.getBlobs()
  boxes,      \* the interactive objects
  next,       \* the box whose ProcessHulls comes next
  opened,     \* history: the boxes that were active when the frame began
  since       \* history: the clock when a box was last activated

panelVars == <<hulls, boxes, next, opened, since>>

FrameSteps == {"findBlobs", "boxes", "resolve"}

ActiveBoxes == {b \in Boxes : boxes[b].active}

(* More than one box is active.                                             *)
Crowded == \E a, b \in ActiveBoxes : a # b

PanelTypeOK ==
  /\ hulls \in HullSets \cup {{}}
  /\ boxes \in [Boxes -> Object]
  /\ next \in 0 .. NumBoxes
  /\ opened \in SUBSET Boxes
  /\ since \in [Boxes -> Nat]

PanelInit ==
  /\ hulls = {}
  /\ boxes = [b \in Boxes |-> NewObject]
  /\ next = 0
  /\ opened = {}
  /\ since = [b \in Boxes |-> 0]

-------------------------------------------------------------------------------
(* findBlobs on the upper part of the frame.                                *)
FindBlobs ==
  /\ pc = "findBlobs"
  /\ hulls' \in HullSets
  /\ background' = Learn(background)
  /\ pc' = "boxes"
  /\ next' = 0
  /\ opened' = ActiveBoxes
  /\ Step
  /\ UNCHANGED <<camAdapted, camAdaptationStartTime, autoAdjust, boxes, since>>

(* Does the call of ProcessHulls that is due count its box?                 *)
Pressed(layout) ==
  OneMore(boxes[next], FoundInsider(layout[next], hulls), Timestamp(clock))

(* ProcessHulls of the next box; layout gives the rectangles.               *)
ProcessBox(layout) ==
  LET before == boxes[next]
      after  == ProcessHulls(before, FoundInsider(layout[next], hulls), Timestamp(clock))
  IN  /\ pc = "boxes"
      /\ boxes' = [boxes EXCEPT ![next] = after]
      /\ since' = IF after.active /\ ~before.active
                    THEN [since EXCEPT ![next] = clock] ELSE since
      /\ next' = next + 1
      /\ pc' = IF next + 1 = NumBoxes THEN "resolve" ELSE "boxes"
      /\ Step
      /\ UNCHANGED <<cameraVars, hulls, opened>>

(* Mutated form: only two counted boxes exclude each other.                 *)
ResolveCounted(after) ==
  /\ pc = "resolve"
  /\ boxes' = IF \E a, b \in Boxes : a # b /\ boxes[a].counted /\ boxes[b].counted
                THEN [b \in Boxes |-> Deactivate(boxes[b])] ELSE boxes
  /\ pc' = after
  /\ Step
  /\ UNCHANGED <<cameraVars, hulls, next, opened, since>>

(* All boxes were processed: two hands at once count for nothing.           *)
Resolve(after) ==
  /\ pc = "resolve"
  /\ boxes' = IF Crowded THEN [b \in Boxes |-> Deactivate(boxes[b])] ELSE boxes
  /\ pc' = after
  /\ Step
  /\ UNCHANGED <<cameraVars, hulls, next, opened, since>>

-------------------------------------------------------------------------------
(* A step of the panel's frame, or one of the loop outside it; "after" is   *)
(* what comes when the frame is done.                                       *)
PanelStep(layout, after) ==
  \/ LoopStep("findBlobs", after) /\ UNCHANGED panelVars
  \/ FindBlobs
  \/ ProcessBox(layout)
  \/ Resolve(after)

(***************************************************************************)
(* A program that is such a panel and nothing else, whatever its layout.   *)
(***************************************************************************)
allVars == <<loopVars, panelVars>>

PanelNext(layout) ==
  \/ PanelStep(layout, "key")
  \/ (Tick \/ SetClockBack) /\ UNCHANGED panelVars
  \/ Ended /\ UNCHANGED panelVars

PanelSpec(layout) == LoopInit /\ PanelInit /\ [][PanelNext(layout)]_allVars

PanelTyped == LoopTypeOK(FrameSteps) /\ PanelTypeOK

-------------------------------------------------------------------------------
(***************************************************************************)
(* The promise that the panel keeps (module Poll): at any time one box at  *)
(* most is held; only the box that is held is counted, after it was held   *)
(* for more than the activation time, and once per hold.  The box that is  *)
(* held is the one that was active when the frame began, as long as it     *)
(* stays so, and then the first of those activated in this frame.          *)
(***************************************************************************)
None == -1

(* The first of the active boxes, those in old before the others.          *)
First(old, active) ==
  LET stay  == old \cap active
      among == IF stay # {} THEN stay ELSE active
  IN  IF among = {} THEN None
      ELSE CHOOSE b \in among : \A other \in among : b <= other

Holder      == First(opened, ActiveBoxes)
HeldSince   == IF Holder = None THEN 0 ELSE since[Holder]
HeldCounted == IF Holder = None THEN FALSE ELSE boxes[Holder].counted
Counts      == [b \in Boxes |-> boxes[b].count]

Promise == INSTANCE Poll WITH
  holder <- Holder, since <- HeldSince, credited <- HeldCounted, tally <- Counts

(* The panel implements the promise.                                        *)
Kept == Promise!Spec

(***************************************************************************)
(* Between two frames one box at most is active, although in the middle of *)
(* a frame several may be.                                                 *)
(***************************************************************************)
SoleHolder == pc \notin FrameSteps \ {"findBlobs"} => ~Crowded

(***************************************************************************)
(* Only a box that was the one active box when the frame began gets        *)
(* counted in that frame; a frame counts one box at most.                  *)
(***************************************************************************)
CountNeedsSoleHolder ==
  [][\A b \in Boxes : boxes'[b].count # boxes[b].count
       => /\ opened = {b}
          /\ \A other \in Boxes \ {b} : boxes'[other].count = boxes[other].count
    ]_allVars

(***************************************************************************)
(* A box that stays active long enough gets counted: unless the hand goes, *)
(* a second one comes or the program ends, the count does come, whatever   *)
(* recalibrations lie between (the clock has time left in the model).      *)
(***************************************************************************)
HeldIsCounted ==
  \A b \in Boxes :
    (boxes[b].active /\ since[b] + ActivationTime < MaxClock)
      ~> (boxes[b].counted \/ ~boxes[b].active \/ pc \in Stopped)
===============================================================================
