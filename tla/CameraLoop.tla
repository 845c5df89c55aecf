------------------------------ MODULE CameraLoop ------------------------------
(***************************************************************************)
(* The skeleton of the main loop that VoteMode.cpp, DialMode.cpp,          *)
(* HandCounter.cpp, ObjectCounter.cpp and Tracking/baratas.cpp share:      *)
(*                                                                         *)
(*   grab a frame; if the camera is calibrated, process the frame,         *)
(*   otherwise wait for the calibration to end; then poll the keyboard.    *)
(*                                                                         *)
(* A program extends this module, supplies the steps that process a frame  *)
(* and says to which step the shared ones hand over.  Line numbers in the  *)
(* comments are those of HandCounter.cpp unless another file is named.     *)
(*                                                                         *)
(* Time.  The programs read the wall clock twice over: time(NULL), in      *)
(* seconds, and gettimeofday, in milliseconds.  "clock" is that wall clock *)
(* in quanta, QuantaPerSec to the second.  Time passes between any two     *)
(* steps of the loop, and the administrator (or NTP) may set the clock     *)
(* back; nobody sets it forward.  "lead" and "adapting" measure time as it *)
(* passes, whatever the clock shows.                                       *)
(***************************************************************************)
EXTENDS Integers

CONSTANTS
  QuantaPerSec,     \* clock quanta in a second
  AdaptationTime,   \* ADAPTATION_TIME_SEC (proc/Util.hpp:4), in seconds
  DeviceOutcomes,   \* which controls an attempt to set the camera may reach
  MaxClock,         \* bound: the clock stops there
  MaxStall,         \* bound: quanta between two consecutive steps of the loop
  MaxClockSteps,    \* bound: how often the clock is set back
  LastRequest       \* bound: no calibration is requested after this time

(* The two controls that EnableCameraAutoAdjust and DisableCameraAutoAdjust *)
(* set, each with an ioctl of its own.                                      *)
Controls == {"exposure", "whiteBalance"}

ASSUME LoopAssumption ==
  /\ QuantaPerSec \in Nat \ {0}
  /\ AdaptationTime \in Nat
  /\ DeviceOutcomes \in (SUBSET SUBSET Controls) \ {{}}
  /\ MaxClock \in Nat
  /\ MaxStall \in Nat
  /\ MaxClockSteps \in Nat
  /\ LastRequest \in 0 .. MaxClock

VARIABLES
  clock,                    \* the wall clock
  stall,                    \* quanta since the loop last made a step
  clockSteps,               \* how often the clock was set back so far
  pc,                       \* the next step of the loop
  camAdapted,               \* is the camera calibrated?
  camAdaptationStartTime,   \* when the calibration began, in seconds
  autoAdjust,               \* which controls the camera adjusts by itself
  background,               \* what the background model was learned from
  lead,                     \* history: how long before the camera was asked the
                            \* start time was read, by the start of the program
  adapting                  \* history: how long the calibration took, or takes,
                            \* since the camera was asked, counted until it is enough

timeVars   == <<clock, stall, clockSteps, lead, adapting>>
cameraVars == <<camAdapted, camAdaptationStartTime, autoAdjust, background>>
loopVars   == <<timeVars, pc, cameraVars>>

(* The end of the program: by a key, by an exception, by the dialled code.  *)
Stopped == {"exited", "aborted", "unlocked"}

(* time(NULL)                                                               *)
Seconds == clock \div QuantaPerSec

(***************************************************************************)
(* The background model of the blob detector: "empty" when it was just     *)
(* created or reset, "current" when every frame it learned from was taken  *)
(* since the last calibration, "stale" when some frame is older than that. *)
(***************************************************************************)
Backgrounds == {"empty", "current", "stale"}

(* BackgroundSubtractorMOG2::apply, called by findBlobs for every frame.    *)
Learn(bg) == IF bg = "empty" THEN "current" ELSE bg

(* What was learned under the camera settings of an earlier calibration.   *)
Outdate(bg) == IF bg = "empty" THEN "empty" ELSE "stale"

LoopTypeOK(steps) ==
  /\ clock \in Nat
  /\ stall \in 0 .. MaxStall
  /\ clockSteps \in 0 .. MaxClockSteps
  /\ pc \in {"open", "grab", "calibrate", "countdown", "key", "note"} \cup Stopped \cup steps
  /\ camAdapted \in BOOLEAN
  /\ camAdaptationStartTime \in Nat
  /\ autoAdjust \in [Controls -> BOOLEAN]
  /\ background \in Backgrounds
  /\ lead \in Nat /\ adapting \in Nat

-------------------------------------------------------------------------------
(***************************************************************************)
(* Setting the camera (proc/Util.cpp).  Neither open nor ioctl is checked  *)
(* for success: the call may reach both controls, one of them, or none.    *)
(***************************************************************************)
SetAutoAdjust(on) ==
  \E reached \in DeviceOutcomes :
    autoAdjust' = [c \in Controls |-> IF c \in reached THEN on ELSE autoAdjust[c]]

(* Any step of the loop: the time since the previous step starts anew.      *)
Step == stall' = 0 /\ UNCHANGED <<clock, clockSteps, lead, adapting>>

(* main begins with the start time (line 14).  The camera is in any mode,   *)
(* and the clock shows any time.                                           *)
LoopInit ==
  /\ clock \in 0 .. LastRequest
  /\ stall = 0
  /\ clockSteps = 0
  /\ pc = "open"
  /\ camAdapted = FALSE
  /\ camAdaptationStartTime = Seconds
  /\ autoAdjust \in [Controls -> BOOLEAN]
  /\ background = "empty"
  /\ lead = 0 /\ adapting = 0

(* Only when the window is there is the camera put in automatic mode and    *)
(* opened, and the detector made (lines 19-28).                             *)
OpenCamera ==
  /\ pc = "open"
  /\ pc' = "grab"
  /\ SetAutoAdjust(TRUE)
  /\ Step
  /\ UNCHANGED <<camAdapted, camAdaptationStartTime, background>>

(* cap >> frame delivers a frame; process is the program's first step for a *)
(* frame of a calibrated camera (lines 31-35).                              *)
Grab(process) ==
  /\ pc = "grab"
  /\ pc' = IF camAdapted THEN process ELSE "calibrate"
  /\ Step
  /\ UNCHANGED cameraVars

(* cap >> frame delivers no frame, the camera is gone: the next OpenCV call *)
(* on the empty frame throws, and nothing catches it.                       *)
CameraLost ==
  /\ pc = "grab"
  /\ pc' = "aborted"
  /\ Step
  /\ UNCHANGED cameraVars

-------------------------------------------------------------------------------
(* Mutated forms: one second more, one second less.                         *)
AdaptationOverLate == Seconds - camAdaptationStartTime > AdaptationTime + 1

AdaptationOverEarly == Seconds - camAdaptationStartTime >= AdaptationTime

(* The clock has left the calibration period (line 56).                     *)
AdaptationOver == Seconds - camAdaptationStartTime > AdaptationTime

(* Mutated forms: the background is not reset, the camera is not frozen.    *)
EndCalibrationKeepBackground(after) ==
  /\ pc = "calibrate"
  /\ AdaptationOver
  /\ camAdapted' = TRUE
  /\ SetAutoAdjust(FALSE)
  /\ pc' = after
  /\ Step
  /\ UNCHANGED <<camAdaptationStartTime, background>>

EndCalibrationUnfrozen(after) ==
  /\ pc = "calibrate"
  /\ AdaptationOver
  /\ camAdapted' = TRUE
  /\ background' = "empty"
  /\ pc' = after
  /\ Step
  /\ UNCHANGED <<camAdaptationStartTime, autoAdjust>>

(***************************************************************************)
(* A frame of a camera that is not calibrated (lines 55-71): when the time *)
(* is over, freeze the camera settings and start a new background model,   *)
(* otherwise go on to write the seconds left on the frame.                 *)
(***************************************************************************)
EndCalibration(after) ==
  /\ pc = "calibrate"
  /\ AdaptationOver
  /\ camAdapted' = TRUE
  /\ background' = "empty"
  /\ SetAutoAdjust(FALSE)
  /\ pc' = after
  /\ Step
  /\ UNCHANGED camAdaptationStartTime

AwaitCalibration ==
  /\ pc = "calibrate"
  /\ ~AdaptationOver
  /\ pc' = "countdown"
  /\ Step
  /\ UNCHANGED cameraVars

(* The number line 67 prints, from a second reading of the clock.           *)
Countdown ==
  LET elapsed == Seconds - camAdaptationStartTime
  IN  AdaptationTime - (IF elapsed < 0 THEN -elapsed ELSE elapsed)

ShowCountdown(after) ==
  /\ pc = "countdown"
  /\ pc' = after
  /\ Step
  /\ UNCHANGED cameraVars

-------------------------------------------------------------------------------
(* Mutated form: the calibration starts anew in every round.                *)
KeyOtherRestarts ==
  /\ pc = "key"
  /\ pc' = "grab"
  /\ camAdaptationStartTime' = Seconds
  /\ Step
  /\ UNCHANGED <<camAdapted, autoAdjust, background>>

(* The keyboard, polled at the end of every round (lines 75-87).  The key c *)
(* saves the frame and runs a mail script, which changes none of the state. *)
KeyOther ==
  /\ pc = "key"
  /\ pc' = "grab"
  /\ Step
  /\ UNCHANGED cameraVars

KeyEscape ==
  /\ pc = "key"
  /\ pc' = "exited"
  /\ Step
  /\ UNCHANGED cameraVars

(* The space key asks for a new calibration: the camera is asked first, and *)
(* then the clock (lines 79-83).                                            *)
KeySpace ==
  /\ pc = "key"
  /\ clock <= LastRequest
  /\ pc' = "note"
  /\ camAdapted' = FALSE
  /\ SetAutoAdjust(TRUE)
  /\ background' = Outdate(background)
  /\ lead' = 0 /\ adapting' = 0
  /\ stall' = 0
  /\ UNCHANGED <<clock, clockSteps, camAdaptationStartTime>>

NoteStart ==
  /\ pc = "note"
  /\ pc' = "grab"
  /\ camAdaptationStartTime' = Seconds
  /\ Step
  /\ UNCHANGED <<camAdapted, autoAdjust, background>>

-------------------------------------------------------------------------------
(* The world outside the loop: time passes, or the clock is set back.       *)
Tick ==
  /\ pc \notin Stopped
  /\ clock < MaxClock
  /\ stall < MaxStall
  /\ clock' = clock + 1
  /\ stall' = stall + 1
  /\ lead' = IF pc = "open" THEN lead + 1 ELSE lead
  /\ adapting' = IF pc = "open" \/ camAdapted \/ adapting > AdaptationTime * QuantaPerSec
                   THEN adapting ELSE adapting + 1
  /\ UNCHANGED <<clockSteps, pc, cameraVars>>

SetClockBack ==
  /\ pc \notin Stopped
  /\ clockSteps < MaxClockSteps
  /\ \E earlier \in 0 .. clock - 1 : clock' = earlier
  /\ clockSteps' = clockSteps + 1
  /\ UNCHANGED <<stall, lead, adapting, pc, cameraVars>>

(* The program has ended and stays so.                                      *)
Ended == pc \in Stopped /\ UNCHANGED loopVars

(* The shared steps of the loop.                                            *)
LoopStep(process, after) ==
  \/ OpenCamera
  \/ Grab(process)
  \/ CameraLost
  \/ EndCalibration(after)
  \/ AwaitCalibration
  \/ ShowCountdown(after)
  \/ KeyOther
  \/ KeyEscape
  \/ KeySpace
  \/ NoteStart

-------------------------------------------------------------------------------
(***************************************************************************)
(* When frames are processed the camera really had more than               *)
(* ADAPTATION_TIME_SEC to adapt since the space key asked for it, although *)
(* the program compares whole seconds of a clock that may be set back      *)
(* (lines 56, 79-83).  The first calibration is measured from the start    *)
(* of the program (line 14), so it is shorter by what passed until the     *)
(* camera was asked (line 25), and by no more.                             *)
(***************************************************************************)
CalibratedLongEnough ==
  camAdapted => lead + adapting > AdaptationTime * QuantaPerSec

(***************************************************************************)
(* While frames are processed the camera adjusts neither exposure nor      *)
(* white balance: a change of either looks like foreground (lines 59, 81). *)
(***************************************************************************)
FrozenWhileProcessing == camAdapted => \A c \in Controls : ~autoAdjust[c]

(***************************************************************************)
(* No frame is compared with a background that was learned, even in part,  *)
(* under the settings of an earlier calibration (line 58).                 *)
(***************************************************************************)
BackgroundNotStale == camAdapted => background # "stale"

(***************************************************************************)
(* The seconds left, printed into "char buff[3]", take more than the two   *)
(* characters it has room for only when the loop is held up for more than  *)
(* nine seconds between the test that bounds them and the second reading   *)
(* of the clock (lines 56, 66-67), or when the clock was set back to       *)
(* before the start of the calibration, by its length and nine seconds.    *)
(***************************************************************************)
CountdownFits ==
  pc = "countdown" /\ Countdown \notin -9 .. 99 =>
    \/ stall > 9 * QuantaPerSec
    \/ Seconds < camAdaptationStartTime - (AdaptationTime + 9)
===============================================================================
