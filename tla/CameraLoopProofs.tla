--------------------------- MODULE CameraLoopProofs ---------------------------
(***************************************************************************)
(* Facts about the shared loop for every value of the constants, and what  *)
(* they say of HandCounter.  The other programs' proof modules cite them   *)
(* for the steps they take from CameraLoop.                                *)
(***************************************************************************)
EXTENDS HandCounter, TLAPS

(* The clock is never set back.                                             *)
SteadyClock == MaxClockSteps = 0

(* An attempt to set the camera reaches both controls.                      *)
ObedientCamera == DeviceOutcomes = {Controls}

(* Whole seconds, whole pixels: quotient and rest of a division.            *)
LEMMA DivMod ==
  ASSUME NEW M \in Nat \ {0}, NEW t \in Nat
  PROVE  /\ t \div M \in Nat
         /\ t % M \in 0 .. M - 1
         /\ t = M * (t \div M) + (t % M)
  BY SMT

LEMMA SecondsMonotone ==
  ASSUME NEW Q \in Nat \ {0}, NEW a \in Nat, NEW b \in Nat, a <= b
  PROVE  /\ a \div Q \in Nat
         /\ a \div Q <= b \div Q
  BY SMT

LEMMA SecondsBound ==
  ASSUME NEW Q \in Nat \ {0}, NEW a \in Nat, NEW k \in Nat, a < Q * k
  PROVE  a \div Q < k
  BY SMT

LEMMA SecondsLower ==
  ASSUME NEW Q \in Nat \ {0}, NEW a \in Nat
  PROVE  a < Q * (a \div Q + 1)
  BY SMT

-------------------------------------------------------------------------------
(***************************************************************************)
(* The types of the loop survive every step of it.                         *)
(***************************************************************************)
LEMMA LoopTypeInit ==
  ASSUME NEW steps, LoopInit
  PROVE  LoopTypeOK(steps)
<1>1. clock \in Nat /\ Seconds \in Nat
  BY SecondsMonotone, LoopAssumption DEF LoopInit, Seconds
<1>2. autoAdjust \in [Controls -> BOOLEAN]
  BY DEF LoopInit
<1>3. stall \in 0 .. MaxStall /\ clockSteps \in 0 .. MaxClockSteps
  BY LoopAssumption DEF LoopInit
<1>4. /\ camAdaptationStartTime \in Nat /\ camAdapted \in BOOLEAN /\ background \in Backgrounds
      /\ lead \in Nat /\ adapting \in Nat
  BY <1>1 DEF LoopInit, Backgrounds
<1>5. pc = "open"
  BY DEF LoopInit
<1> QED
  BY <1>1, <1>2, <1>3, <1>4, <1>5 DEF LoopTypeOK

LEMMA LoopTypeStep ==
  ASSUME NEW steps, NEW process, NEW after,
         process \in steps,
         after \in steps \cup {"key"},
         LoopTypeOK(steps),
         LoopStep(process, after)
  PROVE  LoopTypeOK(steps)'
<1> USE LoopAssumption DEF LoopTypeOK, Step, cameraVars
<1>0. CASE OpenCamera
  <2>1. autoAdjust' \in [Controls -> BOOLEAN]
    BY <1>0 DEF OpenCamera, SetAutoAdjust
  <2> QED
    BY <1>0, <2>1 DEF OpenCamera
<1>1. CASE Grab(process)
  BY <1>1 DEF Grab
<1>2. CASE CameraLost
  BY <1>2 DEF CameraLost, Stopped
<1>3. CASE EndCalibration(after)
  <2>1. autoAdjust' \in [Controls -> BOOLEAN]
    BY <1>3 DEF EndCalibration, SetAutoAdjust
  <2>2. camAdapted' \in BOOLEAN /\ background' \in Backgrounds
    BY <1>3 DEF EndCalibration, Backgrounds
  <2> QED
    BY <1>3, <2>1, <2>2 DEF EndCalibration
<1>4. CASE AwaitCalibration
  BY <1>4 DEF AwaitCalibration
<1>5. CASE ShowCountdown(after)
  BY <1>5 DEF ShowCountdown
<1>6. CASE KeyOther
  BY <1>6 DEF KeyOther
<1>7. CASE KeyEscape
  BY <1>7 DEF KeyEscape, Stopped
<1>8. CASE KeySpace
  <2>1. autoAdjust' \in [Controls -> BOOLEAN]
    BY <1>8 DEF KeySpace, SetAutoAdjust
  <2>2. camAdapted' \in BOOLEAN /\ background' \in Backgrounds
    BY <1>8 DEF KeySpace, Outdate, Backgrounds
  <2> QED
    BY <1>8, <2>1, <2>2 DEF KeySpace
<1>9. CASE NoteStart
  <2>1. Seconds \in Nat
    BY SecondsMonotone DEF Seconds
  <2> QED
    BY <1>9, <2>1 DEF NoteStart
<1> QED
  BY <1>0, <1>1, <1>2, <1>3, <1>4, <1>5, <1>6, <1>7, <1>8, <1>9 DEF LoopStep

LEMMA LoopTypeTime ==
  ASSUME NEW steps, LoopTypeOK(steps), Tick \/ SetClockBack
  PROVE  LoopTypeOK(steps)'
<1> USE LoopAssumption DEF LoopTypeOK, cameraVars
<1>1. CASE Tick
  BY <1>1 DEF Tick
<1>2. CASE SetClockBack
  BY <1>2 DEF SetClockBack
<1> QED
  BY <1>1, <1>2

-------------------------------------------------------------------------------
(***************************************************************************)
(* The length of a calibration, as an inductive invariant.  While it goes  *)
(* on, the clock is ahead of the second in which it began by no more than  *)
(* the time that really passed, for a clock that is set back only falls    *)
(* behind.  In the countdown the clock is ahead of the reading that the    *)
(* test saw by no more than the stall.                                     *)
(***************************************************************************)
LoopInv ==
  /\ CalibratedLongEnough
  /\ pc \in {"open", "calibrate", "countdown", "note"} => ~camAdapted
  /\ ~camAdapted /\ pc # "note" =>
       \/ adapting > AdaptationTime * QuantaPerSec
       \/ clock < QuantaPerSec * (camAdaptationStartTime + 1) + lead + adapting
  /\ pc = "countdown" =>
       clock < QuantaPerSec * (camAdaptationStartTime + AdaptationTime + 1) + stall

LEMMA LoopInvInit ==
  ASSUME LoopInit
  PROVE  LoopInv
<1>1. clock \in Nat
  BY LoopAssumption DEF LoopInit
<1>2. Seconds \in Nat /\ clock < QuantaPerSec * (Seconds + 1)
  BY <1>1, SecondsMonotone, SecondsLower, LoopAssumption DEF Seconds
<1>3. QuantaPerSec * (Seconds + 1) \in Nat
  BY <1>2, LoopAssumption
<1> QED
  BY <1>1, <1>2, <1>3 DEF LoopInit, LoopInv, CalibratedLongEnough

(* A calibration that ends was long enough: the strict comparison of whole  *)
(* seconds leaves a whole adaptation time between the two readings.         *)
LEMMA LongEnough ==
  ASSUME NEW steps, LoopTypeOK(steps), LoopInv, pc = "calibrate", AdaptationOver
  PROVE  lead + adapting > AdaptationTime * QuantaPerSec
<1> USE LoopAssumption DEF LoopTypeOK
<1> DEFINE start == camAdaptationStartTime
<1>1. Seconds \in Nat /\ Seconds >= start + AdaptationTime + 1
  BY SecondsMonotone DEF Seconds, AdaptationOver
<1>2. clock >= QuantaPerSec * (start + AdaptationTime + 1)
  BY <1>1, SecondsBound DEF Seconds
<1>3. QuantaPerSec * (start + AdaptationTime + 1) = QuantaPerSec * (start + 1) + AdaptationTime * QuantaPerSec
  BY SMT
<1>4. QuantaPerSec * (start + 1) \in Nat /\ AdaptationTime * QuantaPerSec \in Nat
  BY SMT
<1>5. CASE adapting > AdaptationTime * QuantaPerSec
  BY <1>4, <1>5
<1>6. CASE clock < QuantaPerSec * (start + 1) + lead + adapting
  BY <1>2, <1>3, <1>4, <1>6
<1> QED
  BY <1>5, <1>6 DEF LoopInv

LEMMA LoopInvStep ==
  ASSUME NEW steps, NEW process, NEW after,
         {"open", "calibrate", "countdown", "note"} \cap steps = {},
         process \in steps,
         after \in steps \cup {"key"},
         LoopTypeOK(steps),
         LoopInv,
         LoopStep(process, after)
  PROVE  LoopInv'
<1> USE DEF LoopInv, Step, cameraVars, CalibratedLongEnough
<1>0. CASE OpenCamera
  BY <1>0 DEF OpenCamera
<1>1. CASE Grab(process)
  BY <1>1 DEF Grab
<1>2. CASE CameraLost
  BY <1>2 DEF CameraLost
<1>3. CASE EndCalibration(after)
  <2>1. lead + adapting > AdaptationTime * QuantaPerSec
    BY <1>3, LongEnough DEF EndCalibration
  <2> QED
    BY <1>3, <2>1 DEF EndCalibration
<1>4. CASE AwaitCalibration
  <2>1. Seconds \in Nat /\ Seconds + 1 <= camAdaptationStartTime + AdaptationTime + 1
    BY <1>4, SecondsMonotone, LoopAssumption DEF AwaitCalibration, AdaptationOver, Seconds, LoopTypeOK
  <2>2. clock < QuantaPerSec * (Seconds + 1)
    BY SecondsLower, LoopAssumption DEF Seconds, LoopTypeOK
  <2>3. /\ QuantaPerSec * (Seconds + 1) \in Nat
        /\ QuantaPerSec * (camAdaptationStartTime + AdaptationTime + 1) \in Nat
        /\ QuantaPerSec * (Seconds + 1) <= QuantaPerSec * (camAdaptationStartTime + AdaptationTime + 1)
    BY <2>1, LoopAssumption, SMT DEF LoopTypeOK
  <2>4. clock < QuantaPerSec * (camAdaptationStartTime + AdaptationTime + 1)
    BY <2>2, <2>3 DEF LoopTypeOK
  <2>5. clock < QuantaPerSec * (camAdaptationStartTime + AdaptationTime + 1) + 0
    BY <2>3, <2>4 DEF LoopTypeOK
  <2> QED
    BY <1>4, <2>5 DEF AwaitCalibration
<1>5. CASE ShowCountdown(after)
  BY <1>5 DEF ShowCountdown
<1>6. CASE KeyOther
  BY <1>6 DEF KeyOther
<1>7. CASE KeyEscape
  BY <1>7 DEF KeyEscape
<1>8. CASE KeySpace
  BY <1>8 DEF KeySpace
<1>9. CASE NoteStart
  <2>1. Seconds \in Nat /\ clock < QuantaPerSec * (Seconds + 1)
    BY SecondsMonotone, SecondsLower, LoopAssumption DEF Seconds, LoopTypeOK
  <2>2. QuantaPerSec * (Seconds + 1) \in Nat
    BY <2>1, LoopAssumption
  <2>3. clock < QuantaPerSec * (Seconds + 1) + lead + adapting
    BY <2>1, <2>2 DEF LoopTypeOK
  <2> QED
    BY <1>9, <2>3 DEF NoteStart
<1> QED
  BY <1>0, <1>1, <1>2, <1>3, <1>4, <1>5, <1>6, <1>7, <1>8, <1>9 DEF LoopStep

LEMMA LoopInvTime ==
  ASSUME NEW steps, LoopTypeOK(steps), LoopInv, Tick \/ SetClockBack
  PROVE  LoopInv'
<1> DEFINE from  == QuantaPerSec * (camAdaptationStartTime + 1)
           until == QuantaPerSec * (camAdaptationStartTime + AdaptationTime + 1)
           full  == AdaptationTime * QuantaPerSec
<1>1. from \in Nat /\ until \in Nat /\ full \in Nat
  BY LoopAssumption, SMT DEF LoopTypeOK
<1>2. UNCHANGED <<pc, cameraVars>>
  BY DEF Tick, SetClockBack
<1>3. /\ camAdapted => lead + adapting > full
      /\ pc \in {"open", "calibrate", "countdown", "note"} => ~camAdapted
      /\ ~camAdapted /\ pc # "note" => adapting > full \/ clock < from + lead + adapting
      /\ pc = "countdown" => clock < until + stall
  BY DEF LoopInv, CalibratedLongEnough
<1> SUFFICES
      /\ camAdapted => lead' + adapting' > full
      /\ ~camAdapted /\ pc # "note" => adapting' > full \/ clock' < from + lead' + adapting'
      /\ pc = "countdown" => clock' < until + stall'
  BY <1>2, <1>3 DEF LoopInv, CalibratedLongEnough, cameraVars
<1>4. CASE Tick
  <2>1. /\ clock' = clock + 1 /\ stall' = stall + 1
        /\ lead' = IF pc = "open" THEN lead + 1 ELSE lead
        /\ adapting' = IF pc = "open" \/ camAdapted \/ adapting > full THEN adapting ELSE adapting + 1
    BY <1>4 DEF Tick
  <2> HIDE DEF from, until, full
  <2> QED
    BY <1>1, <1>3, <2>1 DEF LoopTypeOK
<1>5. CASE SetClockBack
  <2>1. clock' \in Nat /\ clock' < clock /\ UNCHANGED <<stall, lead, adapting>>
    BY <1>5 DEF SetClockBack, LoopTypeOK
  <2> HIDE DEF from, until, full
  <2> QED
    BY <1>1, <1>3, <2>1 DEF LoopTypeOK
<1> QED
  BY <1>4, <1>5

-------------------------------------------------------------------------------
(***************************************************************************)
(* The countdown outgrows its buffer only by a stall of more than nine     *)
(* seconds between the two readings of the clock (lines 56, 67), or a      *)
(* clock that is set back as far.                                          *)
(***************************************************************************)
LEMMA CountdownBound ==
  ASSUME NEW steps, LoopTypeOK(steps), LoopInv, AdaptationTime <= 99
  PROVE  CountdownFits
<1> USE LoopAssumption DEF LoopTypeOK
<1> DEFINE start == camAdaptationStartTime
<1> SUFFICES ASSUME pc = "countdown",
                    stall <= 9 * QuantaPerSec,
                    Seconds >= start - (AdaptationTime + 9)
             PROVE  Countdown \in -9 .. 99
  <2>1. Seconds \in Nat
    BY SecondsMonotone DEF Seconds
  <2>2. ~(stall > 9 * QuantaPerSec) => stall <= 9 * QuantaPerSec
    BY SMT
  <2> QED
    BY <2>1, <2>2 DEF CountdownFits
<1>1. clock < QuantaPerSec * (start + AdaptationTime + 10)
  <2>1. clock < QuantaPerSec * (start + AdaptationTime + 1) + stall
    BY DEF LoopInv
  <2>2. QuantaPerSec * (start + AdaptationTime + 10)
          = QuantaPerSec * (start + AdaptationTime + 1) + 9 * QuantaPerSec
    BY SMT
  <2>3. QuantaPerSec * (start + AdaptationTime + 1) \in Nat
    BY SMT
  <2> QED
    BY <2>1, <2>2, <2>3
<1>2. Seconds \in Nat /\ Seconds < start + AdaptationTime + 10
  <2>1. start + AdaptationTime + 10 \in Nat
    OBVIOUS
  <2> HIDE DEF start
  <2> QED
    BY <1>1, <2>1, SecondsBound, SecondsMonotone DEF Seconds
<1> QED
  BY <1>2 DEF Countdown

-------------------------------------------------------------------------------
(* Both controls of a camera that obeys stay frozen in calibrated frames:   *)
(* the request to freeze and the flag change in one step.                   *)
LEMMA FrozenStep ==
  ASSUME NEW process, NEW after,
         ObedientCamera, LoopInv, FrozenWhileProcessing, LoopStep(process, after)
  PROVE  FrozenWhileProcessing'
<1> USE DEF FrozenWhileProcessing
<1>1. CASE OpenCamera
  BY <1>1 DEF OpenCamera, LoopInv
<1>2. CASE EndCalibration(after)
  BY <1>2 DEF EndCalibration, SetAutoAdjust, ObedientCamera
<1>3. CASE KeySpace
  BY <1>3 DEF KeySpace
<1> QED
  BY <1>1, <1>2, <1>3 DEF LoopStep, Grab, CameraLost, AwaitCalibration, ShowCountdown,
                          KeyOther, KeyEscape, NoteStart, cameraVars

(* No stale background in calibrated frames: the reset and the flag change  *)
(* in one step.                                                             *)
LEMMA BackgroundStep ==
  ASSUME NEW process, NEW after, BackgroundNotStale, LoopStep(process, after)
  PROVE  BackgroundNotStale'
BY DEF BackgroundNotStale, LoopStep, OpenCamera, Grab, CameraLost, EndCalibration, AwaitCalibration,
       ShowCountdown, KeyOther, KeyEscape, KeySpace, NoteStart, cameraVars

-------------------------------------------------------------------------------
(***************************************************************************)
(* HandCounter.cpp, the program that is this loop and nothing else: the    *)
(* calibration of the camera, for every adaptation time, every length of a *)
(* delay and any number of recalibrations.                                 *)
(***************************************************************************)

(* Every variable keeps its type, whatever the camera and the clock do.     *)
THEOREM HandTyped == HandSpec => []HandTypeOK
<1>1. HandInit => HandTypeOK
  <2> SUFFICES ASSUME HandInit PROVE HandTypeOK
    OBVIOUS
  <2>1. LoopTypeOK({"process"})
    BY LoopTypeInit DEF HandInit
  <2> QED
    BY <2>1, HandAssumption DEF HandInit, HandTypeOK
<1>2. HandTypeOK /\ [HandNext]_handVars => HandTypeOK'
  <2> SUFFICES ASSUME HandTypeOK, [HandNext]_handVars PROVE HandTypeOK'
    OBVIOUS
  <2> USE DEF HandTypeOK
  <2>1. CASE LoopStep("process", "key") /\ UNCHANGED hands
    BY <2>1, LoopTypeStep
  <2>2. CASE CountHands
    BY <2>2, LoopAssumption DEF CountHands, LoopTypeOK, Step, Learn, Backgrounds
  <2>3. CASE (Tick \/ SetClockBack) /\ UNCHANGED hands
    BY <2>3, LoopTypeTime
  <2>4. CASE UNCHANGED handVars \/ (Ended /\ UNCHANGED hands)
    BY <2>4 DEF handVars, Ended, loopVars, timeVars, cameraVars, LoopTypeOK
  <2> QED
    BY <2>1, <2>2, <2>3, <2>4 DEF HandNext
<1> QED
  BY <1>1, <1>2, PTL DEF HandSpec

(***************************************************************************)
(* The invariant of the loop, whatever the camera and the clock do.        *)
(***************************************************************************)
THEOREM HandLoopInvariant == HandSpec => []LoopInv
<1>1. HandInit => LoopInv
  BY LoopInvInit DEF HandInit
<1>2. HandTypeOK /\ LoopInv /\ [HandNext]_handVars => LoopInv'
  <2> SUFFICES ASSUME HandTypeOK, LoopInv, [HandNext]_handVars PROVE LoopInv'
    OBVIOUS
  <2>1. CASE LoopStep("process", "key") /\ UNCHANGED hands
    BY <2>1, LoopInvStep DEF HandTypeOK
  <2>2. CASE CountHands
    BY <2>2 DEF CountHands, LoopInv, Step, CalibratedLongEnough
  <2>3. CASE (Tick \/ SetClockBack) /\ UNCHANGED hands
    BY <2>3, LoopInvTime DEF HandTypeOK
  <2>4. CASE UNCHANGED handVars \/ (Ended /\ UNCHANGED hands)
    BY <2>4 DEF handVars, Ended, loopVars, timeVars, cameraVars, LoopInv, CalibratedLongEnough
  <2> QED
    BY <2>1, <2>2, <2>3, <2>4 DEF HandNext
<1> QED
  BY <1>1, <1>2, HandTyped, PTL DEF HandSpec

(***************************************************************************)
(* The camera had its time to adapt before frames are processed: all of it *)
(* after every request of the operator, and all but the start-up delay     *)
(* the first time, for every length of a second in quanta, every delay and *)
(* however the clock is set back.                                          *)
(***************************************************************************)
THEOREM HandCalibration == HandSpec => []CalibratedLongEnough
<1>1. LoopInv => CalibratedLongEnough
  BY DEF LoopInv
<1> QED
  BY <1>1, HandLoopInvariant, PTL

(***************************************************************************)
(* While frames are processed, both controls of a camera that obeys are    *)
(* frozen, however many recalibrations came before and whatever the clock  *)
(* does: the request to freeze and the flag change in one step.            *)
(***************************************************************************)
THEOREM HandFrozen ==
  ASSUME ObedientCamera
  PROVE  HandSpec => []FrozenWhileProcessing
<1>1. HandInit => FrozenWhileProcessing
  BY DEF HandInit, LoopInit, FrozenWhileProcessing
<1>2. LoopInv /\ FrozenWhileProcessing /\ [HandNext]_handVars => FrozenWhileProcessing'
  <2> SUFFICES ASSUME LoopInv, FrozenWhileProcessing, [HandNext]_handVars PROVE FrozenWhileProcessing'
    OBVIOUS
  <2>1. CASE LoopStep("process", "key")
    BY <2>1, FrozenStep
  <2>2. CASE CountHands
    BY <2>2 DEF CountHands, FrozenWhileProcessing
  <2>3. CASE Tick \/ SetClockBack
    BY <2>3 DEF Tick, SetClockBack, cameraVars, FrozenWhileProcessing
  <2>4. CASE UNCHANGED handVars \/ Ended
    BY <2>4 DEF handVars, Ended, loopVars, cameraVars, FrozenWhileProcessing
  <2> QED
    BY <2>1, <2>2, <2>3, <2>4 DEF HandNext
<1> QED
  BY <1>1, <1>2, HandLoopInvariant, PTL DEF HandSpec

(***************************************************************************)
(* No frame is compared with a background of an earlier calibration,       *)
(* whatever the camera and the clock do: the reset and the flag change in  *)
(* one step.                                                               *)
(***************************************************************************)
THEOREM HandBackground == HandSpec => []BackgroundNotStale
<1>1. HandInit => BackgroundNotStale
  BY DEF HandInit, LoopInit, BackgroundNotStale
<1>2. BackgroundNotStale /\ [HandNext]_handVars => BackgroundNotStale'
  <2> SUFFICES ASSUME BackgroundNotStale, [HandNext]_handVars PROVE BackgroundNotStale'
    OBVIOUS
  <2>1. CASE LoopStep("process", "key")
    BY <2>1, BackgroundStep
  <2>2. CASE CountHands
    BY <2>2 DEF CountHands, Learn, BackgroundNotStale
  <2>3. CASE Tick \/ SetClockBack
    BY <2>3 DEF Tick, SetClockBack, cameraVars, BackgroundNotStale
  <2>4. CASE UNCHANGED handVars \/ Ended
    BY <2>4 DEF handVars, Ended, loopVars, cameraVars, BackgroundNotStale
  <2> QED
    BY <2>1, <2>2, <2>3, <2>4 DEF HandNext
<1> QED
  BY <1>1, <1>2, PTL DEF HandSpec

(***************************************************************************)
(* The countdown outgrows its buffer only by a stall between two readings  *)
(* of the clock, or a clock set back, of more than nine seconds.           *)
(***************************************************************************)
THEOREM HandCountdown ==
  ASSUME AdaptationTime <= 99
  PROVE  HandSpec => []CountdownFits
<1>1. HandTypeOK /\ LoopInv => CountdownFits
  BY CountdownBound DEF HandTypeOK
<1> QED
  BY <1>1, HandTyped, HandLoopInvariant, PTL
===============================================================================
