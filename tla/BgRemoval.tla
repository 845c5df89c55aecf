------------------------------- MODULE BgRemoval -------------------------------
(***************************************************************************)
(* HandCounter_bgRemoval.cpp: who reaches the counting line is counted.    *)
(* The line is at row "height"; two keys move it.  A frame is cut at the   *)
(* line, and the blobs of the upper part that come within a few rows of    *)
(* it are the number on the screen.  There is no calibration: the camera   *)
(* is frozen once before the loop and the background never reset.          *)
(*                                                                         *)
(* A blob is the rows it covers; row 0 is the top of the picture.          *)
(***************************************************************************)
EXTENDS Integers, FiniteSets

CONSTANTS
  PictureHeights,  \* how many rows the pictures of a camera may have
  StartHeight,     \* where the line starts (150)
  StepUp,          \* rows that the key "up" moves the line (3)
  StepDown,        \* rows that the key "down" moves it (4)
  Band,            \* a blob counts within so many rows of the line (10)
  MinRows,         \* rows that a contour must have to get a hull (its area)
  BlobSets         \* the sets of blobs a frame may show

Blobs == {b \in [top : Nat, bottom : Nat] : b.top <= b.bottom}

ASSUME LineAssumption ==
  /\ PictureHeights \subseteq Nat
  /\ StartHeight \in Nat
  /\ {StepUp, StepDown, Band, MinRows} \subseteq Nat \ {0}
  /\ \A bs \in BlobSets : IsFiniteSet(bs) /\ bs \subseteq Blobs

VARIABLES
  pc,          \* the next step of the loop
  frameHeight, \* frame.size().height, the rows of this camera's pictures
  height,      \* where the line is
  counter,     \* the number that was printed last
  blobs,       \* the blobs of the last frame
  processed,   \* history: was a frame processed?
  cameraGone   \* history: did the camera deliver an empty frame?

vars == <<pc, frameHeight, height, counter, blobs, processed, cameraGone>>

(* The line before the first frame (lines 13-21).                           *)
Init ==
  /\ pc = "grab"
  /\ frameHeight \in PictureHeights
  /\ height = StartHeight
  /\ counter = 0
  /\ blobs = {}
  /\ processed = FALSE
  /\ cameraGone = FALSE

(* cap >> frame (line 27).                                                  *)
Grab ==
  /\ pc = "grab"
  /\ blobs' \in {bs \in BlobSets : \A b \in bs : b.bottom < frameHeight}
  /\ pc' = "count"
  /\ UNCHANGED <<frameHeight, height, counter, processed, cameraGone>>

(* An empty frame: erode throws, and nothing catches it (lines 27-31).      *)
CameraLost ==
  /\ pc = "grab"
  /\ pc' = "aborted"
  /\ cameraGone' = TRUE
  /\ UNCHANGED <<frameHeight, height, counter, blobs, processed>>

(* The part of a blob above the line, and whether it is large enough to     *)
(* have a hull (lines 45-48 and 63-68).                                     *)
Cut(b) == [b EXCEPT !.bottom = IF @ < height THEN @ ELSE height - 1]

HasHull(b) == b.bottom - b.top + 1 >= MinRows

(* A vertex of the hull lies in the rows above the line (line 75).  The     *)
(* vertices are the ends of the blob.                                       *)
AtLine(b) == \E y \in {b.top, b.bottom} : y < height /\ y > height - Band

(* Mutated form: the hulls of the whole picture are looked at.              *)
CountedWhole == {b \in blobs : HasHull(b) /\ AtLine(b)}

Counted == {b \in blobs : HasHull(Cut(b)) /\ AtLine(Cut(b))}

(***************************************************************************)
(* A frame (lines 29-93).  Cutting it throws when the line is below the    *)
(* picture.  When the line is at its top, the upper part is empty, and     *)
(* whether OpenCV finds no contours in it or throws depends on its version.*)
(***************************************************************************)
CountAtLine ==
  /\ pc = "count"
  /\ height <= frameHeight
  /\ counter' = Cardinality(Counted)
  /\ processed' = TRUE
  /\ pc' = "key"
  /\ UNCHANGED <<frameHeight, height, blobs, cameraGone>>

NoUpperPart ==
  /\ pc = "count"
  /\ height = 0 \/ height > frameHeight
  /\ pc' = "aborted"
  /\ UNCHANGED <<frameHeight, height, counter, blobs, processed, cameraGone>>

-------------------------------------------------------------------------------
(* Any key but the three below; c saves the frame (lines 111-114).          *)
KeyOther ==
  /\ pc = "key"
  /\ pc' = "grab"
  /\ UNCHANGED <<frameHeight, height, counter, blobs, processed, cameraGone>>

KeyEscape ==
  /\ pc = "key"
  /\ pc' = "exited"
  /\ UNCHANGED <<frameHeight, height, counter, blobs, processed, cameraGone>>

(* Mutated form: the line is not kept below the top.                        *)
KeyUpUnclamped ==
  /\ pc = "key"
  /\ height' = height - StepUp
  /\ pc' = "grab"
  /\ UNCHANGED <<frameHeight, counter, blobs, processed, cameraGone>>

(* Lines 99-104.                                                            *)
KeyUp ==
  /\ pc = "key"
  /\ height' = IF height < StepUp THEN 0 ELSE height - StepUp
  /\ pc' = "grab"
  /\ UNCHANGED <<frameHeight, counter, blobs, processed, cameraGone>>

(* Mutated form: the line is kept where its step begins, not where it ends. *)
KeyDownLate ==
  /\ pc = "key"
  /\ height' = IF height > frameHeight THEN frameHeight ELSE height + StepDown
  /\ pc' = "grab"
  /\ UNCHANGED <<frameHeight, counter, blobs, processed, cameraGone>>

(* Lines 105-110.                                                           *)
KeyDown ==
  /\ pc = "key"
  /\ height' = IF height + StepDown > frameHeight THEN frameHeight ELSE height + StepDown
  /\ pc' = "grab"
  /\ UNCHANGED <<frameHeight, counter, blobs, processed, cameraGone>>

(* The program has ended and stays so.                                      *)
Ended == pc \in {"exited", "aborted"} /\ UNCHANGED vars

Next ==
  \/ Grab \/ CameraLost \/ CountAtLine \/ NoUpperPart
  \/ KeyOther \/ KeyEscape \/ KeyUp \/ KeyDown
  \/ Ended

Spec == Init /\ [][Next]_vars

TypeOK ==
  /\ pc \in {"grab", "count", "key", "exited", "aborted"}
  /\ frameHeight \in PictureHeights
  /\ height \in Nat
  /\ counter \in Nat
  /\ blobs \in BlobSets \cup {{}}
  /\ processed \in BOOLEAN
  /\ cameraGone \in BOOLEAN

-------------------------------------------------------------------------------
(***************************************************************************)
(* The line can only end the program in the first frame, when it starts    *)
(* below the picture, or at the very top of the picture: no sequence of    *)
(* keys takes it below (lines 45 and 99-110).                              *)
(***************************************************************************)
LineEndsOnlyAtEdges ==
  pc = "aborted" => cameraGone \/ ~processed \/ height = 0

(***************************************************************************)
(* Who crosses the line with enough of him above it is counted, however    *)
(* far he reaches beyond the line and wherever the line was moved to: the  *)
(* cut always leaves a vertex next to the line (lines 45-80).              *)
(***************************************************************************)
CrossingIsCounted ==
  pc = "key" =>
    Cardinality({b \in blobs : b.top + MinRows <= height /\ height <= b.bottom}) <= counter
===============================================================================
