------------------------------ MODULE PanelProofs ------------------------------
(***************************************************************************)
(* Facts about a panel of interactive objects, for any number of boxes,    *)
(* any layout and any hulls, which is what VoteMode is, and the dial of    *)
(* DialMode on such a panel, for any number of boxes up to ten, any code,  *)
(* and any hands in front of the camera.                                   *)
(***************************************************************************)
EXTENDS DialMode, CameraLoopProofs, WellFoundedInduction, FiniteSetTheorems

Steps == FrameSteps \cup {"code"}

-------------------------------------------------------------------------------
(* The methods of an interactive object keep its type.                      *)
LEMMA TimestampType ==
  ASSUME NEW t \in Nat
  PROVE  Timestamp(t) \in 0 .. StampMod - 1
  BY ObjectAssumption DEF Timestamp

LEMMA DeactivateType ==
  ASSUME NEW o \in Object
  PROVE  /\ Deactivate(o) \in Object
         /\ ~Deactivate(o).active
         /\ ~Deactivate(o).counted
         /\ Deactivate(o).count = o.count
<1>0. 0 \in 0 .. StampMod - 1
  BY ObjectAssumption
<1>1. /\ Deactivate(o).active = FALSE
      /\ Deactivate(o).counted = FALSE
      /\ Deactivate(o).count = o.count
      /\ Deactivate(o) \in Object
  BY <1>0 DEF Deactivate, Object
<1> QED
  BY <1>1

(* ProcessHulls, as what it does in each of its four cases.                 *)
LEMMA ProcessHullsCases ==
  ASSUME NEW o \in Object, NEW found \in BOOLEAN, NEW now \in 0 .. StampMod - 1
  PROVE  LET p == ProcessHulls(o, found, now)
         IN  /\ p \in Object
             /\ \/ /\ o.active /\ ~found
                   /\ p = Deactivate(o)
                \/ /\ OneMore(o, found, now)
                   /\ o.active /\ p.active /\ ~o.counted /\ p.counted
                   /\ p.count = o.count + 1
                   /\ p.activeStamp = o.activeStamp
                   /\ Minus(now, o.activeStamp) > ActivationTime
                \/ /\ ~o.active /\ found
                   /\ p.active /\ p.counted = o.counted /\ p.count = o.count
                   /\ p.activeStamp = now
                \/ /\ ~OneMore(o, found, now)
                   /\ p = o
<1> DEFINE p == ProcessHulls(o, found, now)
<1>1. CASE o.active /\ ~found
  <2>1. p = Deactivate(o)
    BY <1>1 DEF ProcessHulls, OneMore
  <2> QED
    BY <1>1, <2>1, DeactivateType
<1>2. CASE OneMore(o, found, now)
  <2>1. p = [o EXCEPT !.count = @ + 1, !.counted = TRUE]
    BY <1>2 DEF ProcessHulls, OneMore
  <2>2. p = [activeStamp |-> o.activeStamp, count |-> o.count + 1,
             counted |-> TRUE, active |-> o.active]
    BY <2>1 DEF Object
  <2>3. p.counted = TRUE /\ p.active = o.active /\ p.activeStamp = o.activeStamp
    BY <2>2
  <2>4. p \in Object /\ p.count = o.count + 1
    BY <2>2 DEF Object
  <2> QED
    BY <1>2, <2>3, <2>4 DEF OneMore
<1>3. CASE ~o.active /\ found
  <2>1. p = [o EXCEPT !.active = TRUE, !.activeStamp = now]
    BY <1>3 DEF ProcessHulls, OneMore
  <2> QED
    BY <1>3, <2>1 DEF Object
<1>4. CASE /\ ~(o.active /\ ~found)
           /\ ~OneMore(o, found, now)
           /\ ~(~o.active /\ found)
  <2>1. p = o
    BY <1>4 DEF ProcessHulls
  <2> QED
    BY <1>4, <2>1
<1> QED
  BY <1>1, <1>2, <1>3, <1>4

-------------------------------------------------------------------------------
(* The types of the panel survive every step of it.                         *)
LEMMA PanelTypeInit ==
  ASSUME PanelInit
  PROVE  PanelTypeOK
<1>1. NewObject \in Object
  BY ObjectAssumption DEF NewObject, Object
<1> QED
  BY <1>1, PanelAssumption DEF PanelInit, PanelTypeOK

(* What ProcessBox does to the one box it is about.                         *)
LEMMA ProcessBoxStep ==
  ASSUME NEW layout, LoopTypeOK(Steps), PanelTypeOK, next \in Boxes, ProcessBox(layout)
  PROVE  /\ boxes' \in [Boxes -> Object]
         /\ since' \in [Boxes -> Nat]
         /\ \A b \in Boxes \ {next} : boxes'[b] = boxes[b] /\ since'[b] = since[b]
         /\ \/ /\ boxes[next].active
               /\ boxes'[next] = Deactivate(boxes[next])
               /\ ~boxes'[next].active
               /\ ~boxes'[next].counted
               /\ boxes'[next].count = boxes[next].count
               /\ since' = since
               /\ ~Pressed(layout)
            \/ /\ Pressed(layout)
               /\ boxes[next].active /\ boxes'[next].active
               /\ ~boxes[next].counted /\ boxes'[next].counted
               /\ boxes'[next].count = boxes[next].count + 1
               /\ boxes'[next].activeStamp = boxes[next].activeStamp
               /\ Minus(Timestamp(clock), boxes[next].activeStamp) > ActivationTime
               /\ since' = since
            \/ /\ ~boxes[next].active /\ boxes'[next].active
               /\ boxes'[next].counted = boxes[next].counted
               /\ boxes'[next].count = boxes[next].count
               /\ boxes'[next].activeStamp = Timestamp(clock)
               /\ since'[next] = clock
               /\ ~Pressed(layout)
            \/ /\ boxes' = boxes
               /\ since' = since
               /\ ~Pressed(layout)
<1> DEFINE o == boxes[next]
           found == FoundInsider(layout[next], hulls)
           now == Timestamp(clock)
           p == ProcessHulls(o, found, now)
<1>1. o \in Object /\ found \in BOOLEAN /\ now \in 0 .. StampMod - 1 /\ clock \in Nat
  BY TimestampType DEF PanelTypeOK, LoopTypeOK, FoundInsider
<1>2. /\ boxes' = [boxes EXCEPT ![next] = p]
      /\ since' = IF p.active /\ ~o.active THEN [since EXCEPT ![next] = clock] ELSE since
      /\ Pressed(layout) <=> OneMore(o, found, now)
  BY DEF ProcessBox, Pressed
<1> HIDE DEF o, found, now, p
<1>3. /\ p \in Object
      /\ \/ /\ o.active /\ ~found
            /\ p = Deactivate(o)
         \/ /\ OneMore(o, found, now)
            /\ o.active /\ p.active /\ ~o.counted /\ p.counted
            /\ p.count = o.count + 1
            /\ p.activeStamp = o.activeStamp
            /\ Minus(now, o.activeStamp) > ActivationTime
         \/ /\ ~o.active /\ found
            /\ p.active /\ p.counted = o.counted /\ p.count = o.count
            /\ p.activeStamp = now
         \/ /\ ~OneMore(o, found, now)
            /\ p = o
  BY <1>1, ProcessHullsCases DEF p
<1>4. /\ boxes \in [Boxes -> Object] /\ since \in [Boxes -> Nat]
      /\ boxes'[next] = p
      /\ boxes' \in [Boxes -> Object]
      /\ since' \in [Boxes -> Nat]
      /\ \A b \in Boxes \ {next} : boxes'[b] = boxes[b] /\ since'[b] = since[b]
  BY <1>1, <1>2, <1>3 DEF PanelTypeOK
<1>5. CASE o.active /\ ~found /\ p = Deactivate(o)
  <2>1. ~OneMore(o, found, now) /\ ~p.active /\ ~p.counted /\ p.count = o.count
    BY <1>1, <1>5, DeactivateType DEF OneMore
  <2> QED
    BY <1>2, <1>4, <1>5, <2>1 DEF o
<1>6. CASE OneMore(o, found, now) /\ o.active /\ ~o.counted
  BY <1>2, <1>3, <1>4, <1>6 DEF o, now, OneMore
<1>7. CASE ~o.active /\ found /\ p.active
  BY <1>2, <1>3, <1>4, <1>7 DEF o, now, OneMore, PanelTypeOK
<1>8. CASE ~OneMore(o, found, now) /\ p = o
  BY <1>2, <1>4, <1>8 DEF o
<1> QED
  BY <1>3, <1>5, <1>6, <1>7, <1>8

-------------------------------------------------------------------------------
(***************************************************************************)
(* Why two boxes never get counted in one frame.  While the boxes are      *)
(* processed, those still to come are active exactly if they were when the *)
(* frame began ("opened"), and at most one was.  A box counted since the   *)
(* frame before belongs to those: activating a box does not count it.      *)
(***************************************************************************)
PanelInv ==
  /\ pc = "boxes" => next \in Boxes
  /\ \A b \in Boxes : boxes[b].counted => boxes[b].active
  /\ \A a, b \in opened : a = b
  /\ pc \notin {"boxes", "resolve"} => ~Crowded
  /\ pc = "boxes" => \A b \in Boxes : b >= next => (boxes[b].active <=> b \in opened)
  /\ pc \in {"boxes", "resolve"} => \A b \in Boxes : boxes[b].counted => b \in opened

LEMMA LoopStepPc ==
  ASSUME NEW process, NEW after, LoopStep(process, after)
  PROVE  /\ pc \in {"open", "grab", "calibrate", "countdown", "key", "note"}
         /\ pc' \in {process, after, "grab", "calibrate", "countdown", "note"} \cup Stopped
         /\ clock' = clock
  BY DEF LoopStep, OpenCamera, Grab, CameraLost, EndCalibration, AwaitCalibration, ShowCountdown,
         KeyOther, KeyEscape, KeySpace, NoteStart, Stopped, Step

LEMMA PanelTypeStep ==
  ASSUME NEW layout, NEW after \in {"key", "code"},
         LoopTypeOK(Steps), PanelTypeOK, PanelInv, PanelStep(layout, after)
  PROVE  LoopTypeOK(Steps)' /\ PanelTypeOK'
<1> USE PanelAssumption DEF Steps, FrameSteps
<1>1. CASE LoopStep("findBlobs", after) /\ UNCHANGED panelVars
  <2>1. LoopTypeOK(Steps)'
    BY <1>1, LoopTypeStep
  <2> QED
    BY <1>1, <2>1 DEF PanelTypeOK, panelVars
<1>2. CASE FindBlobs
  <2>1. LoopTypeOK(Steps)'
    BY <1>2, LoopAssumption DEF FindBlobs, LoopTypeOK, Step, Learn, Backgrounds
  <2> QED
    BY <1>2, <2>1 DEF FindBlobs, PanelTypeOK, ActiveBoxes
<1>3. CASE ProcessBox(layout)
  <2>1. next \in Boxes
    BY <1>3 DEF ProcessBox, PanelInv
  <2>2. boxes' \in [Boxes -> Object] /\ since' \in [Boxes -> Nat]
    BY <1>3, <2>1, ProcessBoxStep
  <2>3. LoopTypeOK(Steps)'
    BY <1>3, LoopAssumption DEF ProcessBox, LoopTypeOK, Step, cameraVars
  <2>4. hulls' = hulls /\ opened' = opened /\ next' \in 0 .. NumBoxes
    BY <1>3, <2>1 DEF ProcessBox, Boxes
  <2> QED
    BY <2>2, <2>3, <2>4 DEF PanelTypeOK
<1>4. CASE Resolve(after)
  <2>1. LoopTypeOK(Steps)'
    BY <1>4, LoopAssumption DEF Resolve, LoopTypeOK, Step, cameraVars
  <2>2. boxes' \in [Boxes -> Object]
    BY <1>4, DeactivateType DEF Resolve, PanelTypeOK
  <2> QED
    BY <1>4, <2>1, <2>2 DEF Resolve, PanelTypeOK
<1> QED
  BY <1>1, <1>2, <1>3, <1>4 DEF PanelStep

LEMMA PanelInvInit ==
  ASSUME LoopInit, PanelInit
  PROVE  PanelInv
  BY DEF LoopInit, PanelInit, PanelInv, Crowded, ActiveBoxes, NewObject

LEMMA PanelInvStep ==
  ASSUME NEW layout, NEW after \in {"key", "code"},
         LoopTypeOK(Steps), PanelTypeOK, PanelInv, PanelStep(layout, after)
  PROVE  PanelInv'
<1> USE PanelAssumption
<1>1. CASE LoopStep("findBlobs", after) /\ UNCHANGED panelVars
  <2>1. pc \notin {"boxes", "resolve"} /\ pc' \notin {"boxes", "resolve"}
    BY <1>1, LoopStepPc DEF Stopped
  <2> QED
    BY <1>1, <2>1 DEF PanelInv, panelVars, Crowded, ActiveBoxes
<1>2. CASE FindBlobs
  <2>1. ~Crowded /\ opened' = ActiveBoxes /\ boxes' = boxes /\ next' = 0 /\ pc' = "boxes"
    BY <1>2 DEF FindBlobs, PanelInv
  <2>2. \A b \in Boxes : boxes[b].active <=> b \in opened'
    BY <2>1 DEF ActiveBoxes
  <2>3. \A a, b \in opened' : a = b
    BY <2>1 DEF Crowded
  <2>4. next' \in Boxes
    BY <2>1 DEF Boxes
  <2> QED
    BY <2>1, <2>2, <2>3, <2>4 DEF PanelInv
<1>3. CASE ProcessBox(layout)
  <2>1. /\ next \in Boxes /\ pc = "boxes" /\ next' = next + 1 /\ opened' = opened
        /\ pc' = IF next + 1 = NumBoxes THEN "resolve" ELSE "boxes"
    BY <1>3 DEF ProcessBox, PanelInv
  <2>2. /\ \A b \in Boxes \ {next} : boxes'[b] = boxes[b]
        /\ boxes'[next].counted => boxes[next].active
        /\ boxes'[next].counted => boxes'[next].active
    BY <1>3, <2>1, ProcessBoxStep DEF PanelInv
  <2>3. \A b \in Boxes : boxes'[b].counted => boxes'[b].active /\ b \in opened
    <3> TAKE b \in Boxes
    <3>1. CASE b = next
      BY <2>1, <2>2, <3>1 DEF PanelInv, Boxes
    <3>2. CASE b # next
      BY <2>1, <2>2, <3>2 DEF PanelInv
    <3> QED
      BY <3>1, <3>2
  <2>4. \A b \in Boxes : b >= next + 1 => (boxes'[b].active <=> b \in opened)
    BY <2>1, <2>2 DEF PanelInv, Boxes
  <2>5. pc' = "boxes" => next' \in Boxes
    BY <2>1 DEF Boxes
  <2> QED
    BY <2>1, <2>3, <2>4, <2>5 DEF PanelInv
<1>4. CASE Resolve(after)
  <2>1. pc = "resolve" /\ pc' = after /\ opened' = opened
    BY <1>4 DEF Resolve
  <2>2. CASE Crowded
    <3>1. \A b \in Boxes : ~boxes'[b].active /\ ~boxes'[b].counted
      BY <1>4, <2>2, DeactivateType DEF Resolve, PanelTypeOK
    <3> QED
      BY <2>1, <3>1 DEF PanelInv, Crowded, ActiveBoxes
  <2>3. CASE ~Crowded
    BY <1>4, <2>1, <2>3 DEF Resolve, PanelInv, Crowded, ActiveBoxes
  <2> QED
    BY <2>2, <2>3
<1> QED
  BY <1>1, <1>2, <1>3, <1>4 DEF PanelStep

(* Nothing of this depends on the clock.                                    *)
LEMMA PanelInvStutter ==
  ASSUME PanelInv, UNCHANGED <<pc, panelVars>>
  PROVE  PanelInv'
  BY DEF PanelInv, panelVars, Crowded, ActiveBoxes

-------------------------------------------------------------------------------
(***************************************************************************)
(* A box is counted only if it was the one box active when the frame       *)
(* began, and no other box is counted in that step.                        *)
(***************************************************************************)
LEMMA CountStep ==
  ASSUME NEW layout, NEW after \in {"key", "code"},
         LoopTypeOK(Steps), PanelTypeOK, PanelInv, PanelStep(layout, after)
  PROVE  \A b \in Boxes : boxes'[b].count # boxes[b].count
           => /\ opened = {b}
              /\ \A other \in Boxes \ {b} : boxes'[other].count = boxes[other].count
<1>1. CASE ProcessBox(layout)
  <2>1. next \in Boxes /\ pc = "boxes"
    BY <1>1 DEF ProcessBox, PanelInv
  <2>2. \A b \in Boxes \ {next} : boxes'[b].count = boxes[b].count
    BY <1>1, <2>1, ProcessBoxStep
  <2>3. boxes'[next].count # boxes[next].count => boxes[next].active
    BY <1>1, <2>1, ProcessBoxStep
  <2>4. boxes[next].active => opened = {next}
    <3>1. boxes[next].active => next \in opened
      BY <2>1, PanelAssumption DEF PanelInv, Boxes
    <3> QED
      BY <3>1 DEF PanelInv
  <2> QED
    BY <2>2, <2>3, <2>4
<1>2. CASE Resolve(after)
  BY <1>2, DeactivateType DEF Resolve, PanelTypeOK
<1>3. CASE boxes' = boxes
  BY <1>3
<1> QED
  BY <1>1, <1>2, <1>3 DEF PanelStep, panelVars, FindBlobs

-------------------------------------------------------------------------------
(***************************************************************************)
(* Time.  The difference of two timestamps, taken modulo the width of an   *)
(* unsigned int, never exceeds the time that really passed.                *)
(***************************************************************************)
LEMMA SmallMod ==
  ASSUME NEW M \in Nat \ {0}, NEW x \in Int, -M < x, x < M
  PROVE  x % M = IF x >= 0 THEN x ELSE x + M
<1>1. CASE x >= 0
  BY <1>1, SMT
<1>2. CASE x < 0
  BY <1>2, SMT
<1> QED
  BY <1>1, <1>2

LEMMA MinusBound ==
  ASSUME NEW s \in Nat, NEW t \in Nat, s <= t
  PROVE  Minus(Timestamp(t), Timestamp(s)) <= t - s
<1> DEFINE M == StampMod
           qs == s \div M
           qt == t \div M
           x == (t % M) - (s % M)
<1>1. M \in Nat \ {0}
  BY ObjectAssumption
<1>2. /\ qs \in Int /\ qt \in Int
      /\ s % M \in 0 .. M - 1 /\ t % M \in 0 .. M - 1
      /\ s = M * qs + (s % M) /\ t = M * qt + (t % M)
  BY <1>1, DivMod
<1>3. x \in Int /\ -M < x /\ x < M
  BY <1>1, <1>2
<1>4. x % M = IF x >= 0 THEN x ELSE x + M
  BY <1>1, <1>3, SmallMod
<1>5. Minus(Timestamp(t), Timestamp(s)) = x % M
  BY DEF Minus, Timestamp
<1>6. t - s = M * (qt - qs) + x
  BY <1>1, <1>2
<1> HIDE DEF M, qs, qt, x
<1>7. CASE qt - qs >= 1
  <2>1. M * (qt - qs) >= M
    BY <1>1, <1>2, <1>7, SMT
  <2>2. M * (qt - qs) \in Int
    BY <1>1, <1>2, SMT
  <2> QED
    BY <1>1, <1>3, <1>4, <1>5, <1>6, <2>1, <2>2
<1>8. CASE qt = qs
  BY <1>1, <1>2, <1>3, <1>4, <1>5, <1>6, <1>8
<1>9. CASE qt - qs <= -1
  <2>1. M * (qt - qs) <= -M
    BY <1>1, <1>2, <1>9, SMT
  <2>2. M * (qt - qs) \in Int
    BY <1>1, <1>2, SMT
  <2> QED
    BY <1>1, <1>3, <1>6, <2>1, <2>2
<1> QED
  BY <1>2, <1>7, <1>8, <1>9

-------------------------------------------------------------------------------
(***************************************************************************)
(* The promise of module Poll.                                             *)
(***************************************************************************)
LEMMA LeastElement ==
  ASSUME NEW S \in SUBSET Nat, S # {}
  PROVE  \E x \in S : \A y \in S : x <= y
<1> DEFINE R == {ss \in Nat \X Nat : ss[1] < ss[2]}
<1>1. IsWellFoundedOn(R, Nat)
  BY NatLessThanWellFounded DEF OpToRel
<1> HIDE DEF R
<1>2. \E x \in S : \A y \in S : <<y, x>> \notin R
  BY <1>1, WFMin, Zenon
<1>3. \A x, y \in Nat : <<y, x>> \notin R => x <= y
  BY DEF R
<1> QED
  BY <1>2, <1>3

LEMMA FirstFacts ==
  ASSUME NEW old \in SUBSET Boxes, NEW act \in SUBSET Boxes,
         \A a, b \in old : a = b
  PROVE  /\ First(old, act) = None <=> act = {}
         /\ First(old, act) # None => First(old, act) \in act
         /\ \A b \in old \cap act : First(old, act) = b
         /\ old \cap act = {} => \A b \in act : First(old, act) <= b
<1> DEFINE stay  == old \cap act
           among == IF stay # {} THEN stay ELSE act
           least == CHOOSE b \in among : \A other \in among : b <= other
<1>0. Boxes \subseteq Nat
  BY PanelAssumption DEF Boxes
<1>1. among \in SUBSET Nat /\ among \subseteq act /\ (among = {} <=> act = {})
  BY <1>0
<1>2. First(old, act) = IF among = {} THEN None ELSE least
  BY DEF First
<1>3. ASSUME among # {}
      PROVE  least \in among /\ \A other \in among : least <= other
  <2>1. \E b \in among : \A other \in among : b <= other
    BY <1>1, <1>3, LeastElement
  <2> HIDE DEF among
  <2> QED
    BY <2>1
<1>4. \A b \in Boxes : b # None
  BY PanelAssumption DEF Boxes, None
<1> QED
  BY <1>1, <1>2, <1>3, <1>4

(***************************************************************************)
(* The history variable since tells when each active box was activated,    *)
(* and the box that was active before the frame is the oldest.             *)
(***************************************************************************)
HoldInv ==
  /\ \A b \in Boxes : since[b] <= clock
  /\ \A b \in ActiveBoxes : boxes[b].activeStamp = Timestamp(since[b])
  /\ pc \in {"boxes", "resolve"} =>
       \A a \in opened \cap ActiveBoxes, b \in ActiveBoxes \ opened : since[a] <= since[b]

LEMMA HoldInvInit ==
  ASSUME LoopInit, PanelInit
  PROVE  HoldInv
  BY LoopAssumption DEF LoopInit, PanelInit, HoldInv, ActiveBoxes, NewObject

LEMMA HoldInvStep ==
  ASSUME NEW layout, NEW after \in {"key", "code"},
         LoopTypeOK(Steps), PanelTypeOK, PanelInv, HoldInv, PanelStep(layout, after)
  PROVE  HoldInv'
<1>1. CASE LoopStep("findBlobs", after) /\ UNCHANGED panelVars
  <2>1. pc' \notin {"boxes", "resolve"} /\ clock' = clock
    BY <1>1, LoopStepPc DEF Stopped
  <2> QED
    BY <1>1, <2>1 DEF HoldInv, panelVars, ActiveBoxes
<1>2. CASE FindBlobs
  BY <1>2 DEF FindBlobs, HoldInv, ActiveBoxes, Step
<1>3. CASE ProcessBox(layout)
  <2>1. next \in Boxes /\ pc = "boxes" /\ opened' = opened /\ clock' = clock
    BY <1>3 DEF ProcessBox, PanelInv, Step
  <2>2. /\ \A b \in Boxes \ {next} : boxes'[b] = boxes[b] /\ since'[b] = since[b]
        /\ \/ ~boxes'[next].active /\ since' = since
           \/ /\ boxes[next].active
              /\ boxes'[next].activeStamp = boxes[next].activeStamp
              /\ since' = since
           \/ /\ ~boxes[next].active
              /\ boxes'[next].activeStamp = Timestamp(clock)
              /\ since'[next] = clock
           \/ boxes' = boxes /\ since' = since
    BY <1>3, <2>1, ProcessBoxStep
  <2>3. clock \in Nat /\ since \in [Boxes -> Nat]
    BY DEF LoopTypeOK, PanelTypeOK
  <2>4. \A b \in Boxes : since'[b] <= clock'
    BY <2>1, <2>2, <2>3 DEF HoldInv
  <2>5. \A b \in ActiveBoxes' : boxes'[b].activeStamp = Timestamp(since'[b])
    BY <2>1, <2>2 DEF HoldInv, ActiveBoxes
  <2>6. boxes[next].active <=> next \in opened
    BY <2>1, PanelAssumption DEF PanelInv, Boxes
  <2>7. \A a \in opened' \cap ActiveBoxes', b \in ActiveBoxes' \ opened' : since'[a] <= since'[b]
    BY <2>1, <2>2, <2>3, <2>6 DEF HoldInv, ActiveBoxes
  <2> QED
    BY <2>4, <2>5, <2>7 DEF HoldInv
<1>4. CASE Resolve(after)
  <2>1. /\ \A b \in Boxes : boxes'[b] = boxes[b] \/ ~boxes'[b].active
        /\ pc' \notin {"boxes", "resolve"}
        /\ clock' = clock /\ since' = since
    BY <1>4, DeactivateType DEF Resolve, PanelTypeOK, Step
  <2> QED
    BY <2>1 DEF HoldInv, ActiveBoxes
<1> QED
  BY <1>1, <1>2, <1>3, <1>4 DEF PanelStep

LEMMA HoldInvTime ==
  ASSUME SteadyClock, LoopTypeOK(Steps), PanelTypeOK, HoldInv,
         Tick \/ SetClockBack, UNCHANGED panelVars
  PROVE  HoldInv'
<1>1. Tick
  BY DEF SetClockBack, SteadyClock, LoopTypeOK
<1> QED
  BY <1>1 DEF Tick, HoldInv, LoopTypeOK, PanelTypeOK, panelVars, ActiveBoxes

LEMMA PromiseInit ==
  ASSUME LoopInit, PanelInit
  PROVE  Promise!Init
<1>1. ActiveBoxes = {} /\ opened = {}
  BY DEF PanelInit, ActiveBoxes, NewObject
<1>2. Holder = None
  BY <1>1, FirstFacts DEF Holder
<1>3. Counts = [b \in Boxes |-> 0]
  BY DEF Counts, PanelInit, NewObject
<1>4. clock \in Nat
  BY LoopAssumption DEF LoopInit
<1> QED
  BY <1>2, <1>3, <1>4 DEF Promise!Init, HeldSince, HeldCounted

(* The mapped state changes with neither the time nor the boxes only if the *)
(* holder, what is known of it or a count changes.                          *)
LEMMA SamePromise ==
  ASSUME clock' = clock, boxes' = boxes, since' = since, Holder' = Holder
  PROVE  UNCHANGED Promise!vars
  BY DEF Promise!vars, HeldSince, HeldCounted, Counts

LEMMA PromiseBoxStep ==
  ASSUME NEW layout, LoopTypeOK(Steps), PanelTypeOK, PanelInv, HoldInv, ProcessBox(layout)
  PROVE  [Promise!Next]_(Promise!vars)
<1>1. /\ next \in Boxes /\ pc = "boxes" /\ opened' = opened /\ clock' = clock
      /\ clock \in Nat /\ boxes \in [Boxes -> Object] /\ since \in [Boxes -> Nat]
  BY DEF ProcessBox, PanelInv, Step, LoopTypeOK, PanelTypeOK
<1>2. /\ opened \in SUBSET Boxes /\ ActiveBoxes \in SUBSET Boxes
      /\ ActiveBoxes' \in SUBSET Boxes
      /\ \A a, b \in opened : a = b
  BY DEF PanelTypeOK, PanelInv, ActiveBoxes
<1>3. /\ Holder = None <=> ActiveBoxes = {}
      /\ Holder # None => Holder \in ActiveBoxes
      /\ \A b \in opened \cap ActiveBoxes : Holder = b
      /\ opened \cap ActiveBoxes = {} => \A b \in ActiveBoxes : Holder <= b
  BY <1>2, FirstFacts DEF Holder
<1>4. /\ Holder' = None <=> ActiveBoxes' = {}
      /\ Holder' # None => Holder' \in ActiveBoxes'
      /\ \A b \in opened \cap ActiveBoxes' : Holder' = b
      /\ opened \cap ActiveBoxes' = {} => \A b \in ActiveBoxes' : Holder' <= b
  <2>1. Holder' = First(opened', ActiveBoxes')
    BY DEF Holder
  <2> QED
    BY <1>1, <1>2, <2>1, FirstFacts
<1>5. boxes[next].active <=> next \in opened
  BY <1>1, PanelAssumption DEF PanelInv, Boxes
<1>6. \A b \in Boxes : b # None /\ (boxes[b].counted => b \in opened)
  BY <1>1, PanelAssumption DEF PanelInv, Boxes, None
<1>7. /\ boxes' \in [Boxes -> Object] /\ since' \in [Boxes -> Nat]
      /\ \A b \in Boxes \ {next} : boxes'[b] = boxes[b] /\ since'[b] = since[b]
  BY <1>1, ProcessBoxStep
<1>8. CASE /\ boxes[next].active /\ ~boxes'[next].active
           /\ boxes'[next].count = boxes[next].count
           /\ since' = since
  <2>1. Holder = next /\ next # None
    BY <1>1, <1>3, <1>5, <1>6, <1>8 DEF ActiveBoxes
  <2>2. Counts' = Counts
    BY <1>1, <1>7, <1>8 DEF Counts
  <2>3. Holder' # next
    BY <1>4, <1>8, <2>1 DEF ActiveBoxes
  <2>4. CASE Holder' = None
    <3>1. HeldSince' = 0 /\ HeldCounted' = FALSE
      BY <2>4 DEF HeldSince, HeldCounted
    <3> QED
      BY <1>1, <2>1, <2>2, <2>4, <3>1 DEF Promise!Release, Promise!Next
  <2>5. CASE Holder' # None
    <3> DEFINE h == Holder'
    <3>1. h \in Boxes /\ h # next /\ h \in ActiveBoxes /\ boxes'[h] = boxes[h] /\ h \notin opened
      BY <1>1, <1>2, <1>4, <1>5, <1>7, <1>8, <2>3, <2>5 DEF ActiveBoxes, PanelInv
    <3>2. since[next] <= since[h] /\ since[h] <= clock
      BY <1>1, <1>5, <1>8, <3>1 DEF HoldInv, ActiveBoxes
    <3>3. HeldSince = since[next] /\ HeldSince' = since[h]
      BY <1>8, <2>1, <2>5 DEF HeldSince
    <3>4. HeldCounted' = FALSE
      BY <1>1, <1>6, <2>5, <3>1 DEF HeldCounted, Object
    <3>5. HeldSince' \in HeldSince .. clock
      BY <1>1, <3>1, <3>2, <3>3
    <3> HIDE DEF h
    <3>6. Promise!PassOn(h)
      BY <1>1, <2>1, <2>2, <2>5, <3>1, <3>4, <3>5 DEF Promise!PassOn, h
    <3> QED
      BY <3>1, <3>6 DEF Promise!Next
  <2> QED
    BY <2>4, <2>5
<1>9. CASE /\ boxes[next].active /\ boxes'[next].active
           /\ ~boxes[next].counted /\ boxes'[next].counted
           /\ boxes'[next].count = boxes[next].count + 1
           /\ Minus(Timestamp(clock), boxes[next].activeStamp) > ActivationTime
           /\ since' = since
  <2>1. Holder = next /\ next # None /\ Holder' = next
    BY <1>1, <1>3, <1>4, <1>5, <1>6, <1>9 DEF ActiveBoxes
  <2>2. clock - since[next] > ActivationTime
    <3>1. Minus(Timestamp(clock), Timestamp(since[next])) <= clock - since[next]
      BY <1>1, MinusBound DEF HoldInv
    <3>2. boxes[next].activeStamp = Timestamp(since[next])
      BY <1>1, <1>9 DEF HoldInv, ActiveBoxes
    <3>3. Minus(Timestamp(clock), Timestamp(since[next])) \in Int
      BY <1>1, ObjectAssumption DEF Minus, Timestamp
    <3> QED
      BY <1>1, <1>9, <3>1, <3>2, <3>3, ObjectAssumption
  <2>3. HeldSince = since[next] /\ HeldSince' = since[next]
    BY <1>9, <2>1 DEF HeldSince
  <2>4. HeldCounted = boxes[next].counted /\ HeldCounted' = boxes'[next].counted
    BY <2>1 DEF HeldCounted
  <2>5. HeldCounted' = TRUE
    BY <1>1, <1>7, <1>9, <2>4 DEF Object
  <2>6. Counts' = [Counts EXCEPT ![next] = @ + 1]
    BY <1>1, <1>7, <1>9 DEF Counts
  <2>7. Promise!Credit(next)
    BY <1>1, <1>9, <2>1, <2>2, <2>3, <2>4, <2>5, <2>6 DEF Promise!Credit
  <2> QED
    BY <1>1, <2>7 DEF Promise!Next
<1>10. CASE /\ ~boxes[next].active /\ boxes'[next].active
            /\ boxes'[next].counted = boxes[next].counted
            /\ boxes'[next].count = boxes[next].count
            /\ since'[next] = clock
  <2>1. ActiveBoxes' = ActiveBoxes \cup {next} /\ next \notin opened /\ next # None
    BY <1>1, <1>5, <1>6, <1>7, <1>10 DEF ActiveBoxes
  <2>2. Counts' = Counts
    BY <1>1, <1>7, <1>10 DEF Counts
  <2>3. CASE ActiveBoxes = {}
    <3>1. Holder = None /\ Holder' = next
      BY <1>3, <1>4, <2>1, <2>3
    <3>2. HeldSince' = clock
      BY <1>10, <2>1, <3>1 DEF HeldSince
    <3>3. HeldCounted' = FALSE
      BY <1>1, <1>6, <1>10, <2>1, <3>1 DEF HeldCounted, Object
    <3>4. Promise!Touch(next)
      BY <1>1, <2>2, <3>1, <3>2, <3>3 DEF Promise!Touch
    <3> QED
      BY <1>1, <3>4 DEF Promise!Next
  <2>4. CASE ActiveBoxes # {}
    <3>1. Holder # None /\ Holder \in ActiveBoxes /\ Holder # next
      BY <1>3, <1>10, <2>4 DEF ActiveBoxes
    <3>2. Holder' = Holder
      <4>1. CASE opened \cap ActiveBoxes # {}
        BY <1>3, <1>4, <2>1, <4>1
      <4>2. CASE opened \cap ActiveBoxes = {}
        <5>1. \A b \in ActiveBoxes : Holder <= b
          BY <1>3, <4>2
        <5>2. \A b \in ActiveBoxes : b < next
          BY <1>1, <4>2, PanelAssumption DEF PanelInv, ActiveBoxes, Boxes
        <5>3. Holder' \in ActiveBoxes' /\ \A b \in ActiveBoxes' : Holder' <= b
          BY <1>4, <2>1, <4>2
        <5>4. ActiveBoxes' \subseteq Int
          BY <1>2, PanelAssumption DEF Boxes
        <5> QED
          BY <2>1, <3>1, <5>1, <5>2, <5>3, <5>4
      <4> QED
        BY <4>1, <4>2
    <3>3. HeldSince' = HeldSince /\ HeldCounted' = HeldCounted
      BY <1>2, <1>7, <3>1, <3>2 DEF HeldSince, HeldCounted
    <3> QED
      BY <1>1, <2>2, <3>2, <3>3 DEF Promise!vars
  <2> QED
    BY <2>3, <2>4
<1>11. CASE boxes' = boxes /\ since' = since
  <2>1. Holder' = Holder
    BY <1>1, <1>11 DEF Holder, ActiveBoxes
  <2> QED
    BY <1>1, <1>11, <2>1, SamePromise
<1> QED
  BY <1>1, <1>8, <1>9, <1>10, <1>11, ProcessBoxStep

LEMMA PromiseStep ==
  ASSUME NEW layout, NEW after \in {"key", "code"},
         LoopTypeOK(Steps), PanelTypeOK, PanelInv, HoldInv, PanelStep(layout, after)
  PROVE  [Promise!Next]_(Promise!vars)
<1>1. CASE LoopStep("findBlobs", after) /\ UNCHANGED panelVars
  <2>1. clock' = clock
    BY <1>1, LoopStepPc
  <2>2. Holder' = Holder
    BY <1>1 DEF panelVars, Holder, ActiveBoxes
  <2> QED
    BY <1>1, <2>1, <2>2, SamePromise DEF allVars, panelVars
<1>2. CASE FindBlobs
  <2>1. /\ clock' = clock /\ boxes' = boxes /\ since' = since
        /\ ActiveBoxes' = ActiveBoxes /\ opened' = ActiveBoxes
        /\ \A a, b \in ActiveBoxes : a = b
    BY <1>2 DEF FindBlobs, Step, ActiveBoxes, PanelInv, Crowded
  <2>2. /\ opened \in SUBSET Boxes /\ ActiveBoxes \in SUBSET Boxes
        /\ \A a, b \in opened : a = b
    BY DEF PanelTypeOK, ActiveBoxes, PanelInv
  <2>3. /\ First(opened, ActiveBoxes) = None <=> ActiveBoxes = {}
        /\ First(opened, ActiveBoxes) # None => First(opened, ActiveBoxes) \in ActiveBoxes
    BY <2>2, FirstFacts
  <2>4. /\ First(ActiveBoxes, ActiveBoxes) = None <=> ActiveBoxes = {}
        /\ First(ActiveBoxes, ActiveBoxes) # None
             => First(ActiveBoxes, ActiveBoxes) \in ActiveBoxes
    BY <2>1, <2>2, FirstFacts
  <2>5. Holder' = Holder
    BY <2>1, <2>3, <2>4 DEF Holder
  <2> QED
    BY <2>1, <2>5, SamePromise
<1>3. CASE ProcessBox(layout)
  BY <1>3, PromiseBoxStep
<1>4. CASE Resolve(after)
  <2>1. clock' = clock /\ since' = since /\ opened' = opened
    BY <1>4 DEF Resolve, Step
  <2>2. CASE Crowded
    <3>1. /\ \A b \in Boxes : ~boxes'[b].active
          /\ \A b \in Boxes : boxes'[b].count = boxes[b].count
      BY <1>4, <2>2, DeactivateType DEF Resolve, PanelTypeOK
    <3>2. ActiveBoxes' = {} /\ ActiveBoxes # {} /\ Counts' = Counts
      BY <2>2, <3>1 DEF ActiveBoxes, Counts, Crowded
    <3>3. Holder # None
      <4>1. ActiveBoxes \in SUBSET Boxes
        BY DEF ActiveBoxes
      <4> QED
        BY <3>2, <4>1, FirstFacts DEF Holder, PanelTypeOK, PanelInv
    <3>4. Holder' = None
      <4>1. First(opened, {}) = None
        BY FirstFacts DEF PanelTypeOK, PanelInv
      <4> QED
        BY <2>1, <3>2, <4>1 DEF Holder
    <3>5. HeldSince' = 0 /\ HeldCounted' = FALSE
      BY <3>4 DEF HeldSince, HeldCounted
    <3> QED
      BY <2>1, <3>2, <3>3, <3>4, <3>5 DEF Promise!Release, Promise!Next
  <2>3. CASE ~Crowded
    <3>1. boxes' = boxes
      BY <1>4, <2>3 DEF Resolve
    <3>2. Holder' = Holder
      BY <2>1, <3>1 DEF Holder, ActiveBoxes
    <3> QED
      BY <2>1, <3>1, <3>2, SamePromise
  <2> QED
    BY <2>2, <2>3
<1> QED
  BY <1>1, <1>2, <1>3, <1>4 DEF PanelStep

LEMMA PromiseTime ==
  ASSUME SteadyClock, LoopTypeOK(Steps), Tick \/ SetClockBack, UNCHANGED panelVars
  PROVE  [Promise!Next]_(Promise!vars)
<1>1. clock \in Nat /\ clock' = clock + 1
  BY DEF SetClockBack, SteadyClock, LoopTypeOK, Tick
<1>2. Holder' = Holder
  BY DEF panelVars, Holder, ActiveBoxes
<1>3. HeldSince' = HeldSince /\ HeldCounted' = HeldCounted /\ Counts' = Counts
  BY <1>2 DEF panelVars, HeldSince, HeldCounted, Counts
<1> QED
  BY <1>1, <1>2, <1>3 DEF Promise!Pass, Promise!Next

LEMMA PromiseStutter ==
  ASSUME UNCHANGED <<clock, panelVars>>
  PROVE  UNCHANGED Promise!vars
<1>1. Holder' = Holder
  BY DEF panelVars, Holder, ActiveBoxes
<1> QED
  BY <1>1, SamePromise DEF allVars, panelVars

-------------------------------------------------------------------------------
(***************************************************************************)
(* The poll of VoteMode.cpp, and any other program that is a panel and     *)
(* nothing else: for every number of boxes and every layout, every frame   *)
(* rate, every activation time and any hands in front of the camera.  The  *)
(* specification of VoteMode is PanelSpec(Layout).                         *)
(***************************************************************************)
LEMMA PanelSteps ==
  ASSUME NEW layout, [PanelNext(layout)]_allVars
  PROVE  \/ PanelStep(layout, "key")
         \/ (Tick \/ SetClockBack) /\ UNCHANGED panelVars
         \/ UNCHANGED allVars
  BY DEF PanelNext, Ended, allVars

PanelSpecInv == LoopTypeOK(Steps) /\ PanelTypeOK /\ PanelInv /\ pc # "code"

(* The types, and what the order of processing maintains: whatever the      *)
(* camera and the clock do.                                                 *)
THEOREM PanelSpecInvariant ==
  ASSUME NEW CONSTANT layout
  PROVE  PanelSpec(layout) => []PanelSpecInv
<1>1. LoopInit /\ PanelInit => PanelSpecInv
  BY LoopTypeInit, PanelTypeInit, PanelInvInit DEF PanelSpecInv, LoopInit
<1>2. PanelSpecInv /\ [PanelNext(layout)]_allVars => PanelSpecInv'
  <2> SUFFICES ASSUME PanelSpecInv, [PanelNext(layout)]_allVars PROVE PanelSpecInv'
    OBVIOUS
  <2>1. CASE PanelStep(layout, "key")
    <3>1. pc' # "code"
      BY <2>1, LoopStepPc DEF PanelStep, FindBlobs, ProcessBox, Resolve, Stopped
    <3> QED
      BY <2>1, <3>1, PanelTypeStep, PanelInvStep DEF PanelSpecInv
  <2>2. CASE (Tick \/ SetClockBack) /\ UNCHANGED panelVars
    <3>1. UNCHANGED <<pc, panelVars>>
      BY <2>2 DEF Tick, SetClockBack
    <3> QED
      BY <2>2, <3>1, LoopTypeTime, PanelInvStutter DEF PanelSpecInv, PanelTypeOK, panelVars
  <2>3. CASE UNCHANGED allVars
    BY <2>3, PanelInvStutter
    DEF PanelSpecInv, LoopTypeOK, PanelTypeOK, allVars, loopVars, timeVars, cameraVars, panelVars
  <2> QED
    BY <2>1, <2>2, <2>3, PanelSteps
<1> QED
  BY <1>1, <1>2, PTL DEF PanelSpec

(* Every variable keeps its type.                                           *)
THEOREM VoteTyped ==
  ASSUME NEW CONSTANT layout
  PROVE  PanelSpec(layout) => []PanelTyped
<1>1. PanelSpecInv => PanelTyped
  BY DEF PanelSpecInv, PanelTyped, LoopTypeOK, Steps
<1> QED
  BY <1>1, PanelSpecInvariant, PTL

(* Between two frames one box at most is active (VoteMode.cpp 74, 102-105). *)
THEOREM VoteSoleHolder ==
  ASSUME NEW CONSTANT layout
  PROVE  PanelSpec(layout) => []SoleHolder
<1>1. PanelSpecInv => SoleHolder
  BY DEF PanelSpecInv, PanelInv, SoleHolder, FrameSteps
<1> QED
  BY <1>1, PanelSpecInvariant, PTL

(* A frame counts one box at most, the one that alone was active before it. *)
THEOREM VoteCountNeedsSoleHolder ==
  ASSUME NEW CONSTANT layout
  PROVE  PanelSpec(layout) => CountNeedsSoleHolder
<1> DEFINE Counted ==
      \A b \in Boxes : boxes'[b].count # boxes[b].count
        => /\ opened = {b}
           /\ \A other \in Boxes \ {b} : boxes'[other].count = boxes[other].count
<1>1. PanelSpecInv /\ [PanelNext(layout)]_allVars => [Counted]_allVars
  <2> SUFFICES ASSUME PanelSpecInv, [PanelNext(layout)]_allVars PROVE [Counted]_allVars
    OBVIOUS
  <2>1. CASE PanelStep(layout, "key")
    BY <2>1, CountStep DEF PanelSpecInv
  <2>2. CASE UNCHANGED panelVars
    BY <2>2 DEF allVars, panelVars
  <2> QED
    BY <2>1, <2>2, PanelSteps
<1> QED
  BY <1>1, PanelSpecInvariant, PTL DEF PanelSpec, CountNeedsSoleHolder

(***************************************************************************)
(* While the clock is not set back, VoteMode keeps the promise of Poll:    *)
(* every count is due to one box, held alone for longer than the           *)
(* activation time, and a hold counts once.                                *)
(***************************************************************************)
THEOREM VoteKept ==
  ASSUME NEW CONSTANT layout, SteadyClock
  PROVE  PanelSpec(layout) => Kept
<1>1. LoopInit /\ PanelInit => HoldInv /\ Promise!Init
  BY HoldInvInit, PromiseInit
<1>2. PanelSpecInv /\ HoldInv /\ [PanelNext(layout)]_allVars => HoldInv' /\ [Promise!Next]_(Promise!vars)
  <2> SUFFICES ASSUME PanelSpecInv, HoldInv, [PanelNext(layout)]_allVars
               PROVE  HoldInv' /\ [Promise!Next]_(Promise!vars)
    OBVIOUS
  <2>1. CASE PanelStep(layout, "key")
    BY <2>1, HoldInvStep, PromiseStep DEF PanelSpecInv
  <2>2. CASE (Tick \/ SetClockBack) /\ UNCHANGED panelVars
    BY <2>2, HoldInvTime, PromiseTime DEF PanelSpecInv
  <2>3. CASE UNCHANGED allVars
    BY <2>3, PromiseStutter DEF HoldInv, ActiveBoxes, allVars, loopVars, timeVars, panelVars
  <2> QED
    BY <2>1, <2>2, <2>3, PanelSteps
<1> QED
  BY <1>1, <1>2, PanelSpecInvariant, PTL DEF PanelSpec, Kept, Promise!Spec

-------------------------------------------------------------------------------
(***************************************************************************)
(* The dial (DialMode.cpp).                                                *)
(***************************************************************************)
(* A step of the shared loop, or the end of a frame: nothing is dialled.    *)
QuietStep ==
  /\ \/ LoopStep("findBlobs", "code") /\ UNCHANGED panelVars
     \/ Resolve("code")
  /\ UNCHANGED dialVars

(* The time passes, the number is looked at, or nothing happens.            *)
IdleStep ==
  \/ (Tick \/ SetClockBack) /\ UNCHANGED <<panelVars, dialVars>>
  \/ CheckCode
  \/ UNCHANGED vars

(* The program's next-state relation in the terms of the panel.             *)
LEMMA DialSteps ==
  ASSUME [Next]_vars
  PROVE  StartFrame \/ DialBox \/ QuietStep \/ IdleStep
  BY DEF Next, Program, QuietStep, IdleStep, ResolveBoxes, Environment, Ended, vars

LEMMA DialPanelSteps ==
  ASSUME StartFrame \/ DialBox \/ QuietStep
  PROVE  PanelStep(Layout, "code")
  BY DEF StartFrame, DialBox, QuietStep, PanelStep

LEMMA IdleTypes ==
  ASSUME LoopTypeOK(Steps), PanelTypeOK, PanelInv, IdleStep
  PROVE  LoopTypeOK(Steps)' /\ PanelTypeOK' /\ PanelInv' /\ UNCHANGED <<panelVars, dialVars>>
<1>1. UNCHANGED <<panelVars, dialVars>>
  BY DEF IdleStep, CheckCode, vars
<1>2. PanelTypeOK'
  BY <1>1 DEF PanelTypeOK, panelVars
<1>3. CASE Tick \/ SetClockBack
  BY <1>1, <1>2, <1>3, LoopTypeTime, PanelInvStutter DEF Tick, SetClockBack
<1>4. CASE CheckCode
  <2>1. LoopTypeOK(Steps)'
    BY <1>4, LoopAssumption DEF CheckCode, LoopTypeOK, Steps, Stopped, Step, cameraVars
  <2>2. pc = "code" /\ pc' \in {"key", "unlocked"}
    BY <1>4 DEF CheckCode
  <2> QED
    BY <1>1, <1>2, <2>1, <2>2 DEF PanelInv, panelVars, Crowded, ActiveBoxes
<1>5. CASE UNCHANGED vars
  BY <1>1, <1>2, <1>5, PanelInvStutter DEF vars, loopVars, timeVars, cameraVars, LoopTypeOK
<1> QED
  BY <1>3, <1>4, <1>5 DEF IdleStep

DialInv ==
  /\ LoopTypeOK(Steps) /\ PanelTypeOK /\ PanelInv
  /\ numbers \in Seq(0 .. 9) /\ label \in Nat
  /\ pc = "boxes" => label = next \/ \E b \in opened : b < next

(* The label of a box is its index unless a box before it was pressed in    *)
(* the same frame; a box that is pressed then has its own digit.            *)
LEMMA PressedLabel ==
  ASSUME DialInv, DialBox, Pressed(Layout)
  PROVE  /\ next \in Boxes /\ boxes[next].active /\ next \in opened
         /\ label = next
         /\ numbers' = Append(numbers, next)
<1>1. next \in Boxes /\ pc = "boxes"
  BY DEF DialBox, ProcessBox, DialInv, PanelInv
<1>2. boxes[next].active
  BY DEF Pressed, OneMore
<1>3. next \in opened
  BY <1>1, <1>2, PanelAssumption DEF DialInv, PanelInv, Boxes
<1>4. label = next
  BY <1>1, <1>3, PanelAssumption DEF DialInv, PanelInv, Boxes
<1>5. Decimal(label) = <<next>>
  BY <1>1, <1>4, PanelAssumption, DialAssumption DEF Decimal, Boxes
<1>6. numbers' = numbers \o <<next>>
  BY <1>5 DEF DialBox
<1>7. next \in 0 .. 9
  BY <1>1, PanelAssumption, DialAssumption DEF Boxes
<1>8. numbers \o <<next>> = Append(numbers, next)
  BY <1>7 DEF DialInv
<1> QED
  BY <1>1, <1>2, <1>3, <1>4, <1>6, <1>8

(* The types and the labels.                                                *)
THEOREM DialInvariant == Spec => []DialInv
<1>1. Init => DialInv
  <2> SUFFICES ASSUME Init PROVE DialInv
    OBVIOUS
  <2>1. LoopTypeOK(Steps) /\ PanelTypeOK /\ PanelInv
    BY LoopTypeInit, PanelTypeInit, PanelInvInit DEF Init
  <2> QED
    BY <2>1 DEF Init, DialInv, LoopInit
<1>2. DialInv /\ [Next]_vars => DialInv'
  <2> SUFFICES ASSUME DialInv, [Next]_vars PROVE DialInv'
    OBVIOUS
  <2>1. LoopTypeOK(Steps)' /\ PanelTypeOK' /\ PanelInv'
    BY DialSteps, DialPanelSteps, PanelTypeStep, PanelInvStep, IdleTypes DEF DialInv
  <2>2. CASE StartFrame
    <3>1. next' = 0 /\ label' = 0 /\ numbers' = numbers
      BY <2>2 DEF StartFrame, FindBlobs
    <3> QED
      BY <2>1, <3>1 DEF DialInv
  <2>3. CASE DialBox
    <3>1. next \in Boxes /\ next' = next + 1 /\ opened' = opened /\ pc = "boxes"
      BY <2>3 DEF DialBox, ProcessBox, DialInv, PanelInv
    <3>2. CASE Pressed(Layout)
      <4>1. next \in opened /\ numbers' = Append(numbers, next) /\ label = next
        BY <2>3, <3>2, PressedLabel
      <4>2. numbers' \in Seq(0 .. 9)
        BY <3>1, <4>1, PanelAssumption, DialAssumption DEF DialInv, Boxes
      <4>3. label' \in Nat
        BY <2>3, <3>2 DEF DialBox, DialInv
      <4>4. \E b \in opened' : b < next'
        BY <3>1, <4>1, PanelAssumption DEF Boxes
      <4> QED
        BY <2>1, <4>2, <4>3, <4>4 DEF DialInv
    <3>3. CASE ~Pressed(Layout)
      <4>1. numbers' = numbers /\ label' = label + 1
        BY <2>3, <3>3 DEF DialBox
      <4>2. label' = next' \/ \E b \in opened' : b < next'
        BY <3>1, <4>1, PanelAssumption DEF DialInv, Boxes, PanelTypeOK
      <4> QED
        BY <2>1, <4>1, <4>2 DEF DialInv
    <3> QED
      BY <3>2, <3>3
  <2>4. CASE QuietStep
    <3>1. pc' # "boxes"
      BY <2>4, LoopStepPc DEF QuietStep, Resolve, Stopped
    <3> QED
      BY <2>1, <2>4, <3>1 DEF QuietStep, dialVars, DialInv
  <2>5. CASE IdleStep
    <3>1. UNCHANGED <<panelVars, dialVars>>
      BY <2>5 DEF IdleStep, CheckCode, vars
    <3>2. pc' = "boxes" => pc = "boxes"
      BY <2>5 DEF IdleStep, CheckCode, Tick, SetClockBack, vars, loopVars
    <3> QED
      BY <2>1, <3>1, <3>2 DEF panelVars, dialVars, DialInv
  <2> QED
    BY <2>2, <2>3, <2>4, <2>5, DialSteps
<1> QED
  BY <1>1, <1>2, PTL DEF Spec

(* Every variable keeps its type.                                           *)
THEOREM DialTyped == Spec => []TypeOK
<1>1. DialInv => TypeOK
  BY DEF DialInv, TypeOK, Steps
<1> QED
  BY <1>1, DialInvariant, PTL

-------------------------------------------------------------------------------
(* Between two frames one box at most is active (DialMode.cpp 95-99).       *)
THEOREM DialSoleHolder == Spec => []SoleHolder
<1>1. DialInv => SoleHolder
  BY DEF DialInv, PanelInv, SoleHolder, FrameSteps
<1> QED
  BY <1>1, DialInvariant, PTL

(* A frame counts one box at most, the one that alone was active before it. *)
THEOREM DialCountNeedsSoleHolder == Spec => CountNeedsSoleHolder
<1> DEFINE Counted ==
      \A b \in Boxes : boxes'[b].count # boxes[b].count
        => /\ opened = {b}
           /\ \A other \in Boxes \ {b} : boxes'[other].count = boxes[other].count
<1>1. DialInv /\ [Next]_vars => [Counted]_allVars
  <2> SUFFICES ASSUME DialInv, [Next]_vars PROVE [Counted]_allVars
    OBVIOUS
  <2>1. CASE StartFrame \/ DialBox \/ QuietStep
    BY <2>1, DialPanelSteps, CountStep DEF DialInv
  <2>2. CASE IdleStep
    <3>1. boxes' = boxes
      BY <2>2 DEF IdleStep, CheckCode, vars, panelVars
    <3> QED
      BY <3>1
  <2> QED
    BY <2>1, <2>2, DialSteps
<1> QED
  BY <1>1, DialInvariant, PTL DEF Spec, CountNeedsSoleHolder

(* A press appends the digit of the box that is pressed, although the label *)
(* is not the index of every box (DialMode.cpp 74-83).                      *)
THEOREM DialDigitIsBox == Spec => DigitIsBox
<1>1. DialInv /\ [Next]_vars => [numbers' # numbers => numbers' = Append(numbers, next)]_vars
  <2> SUFFICES ASSUME DialInv, [Next]_vars, numbers' # numbers
               PROVE  numbers' = Append(numbers, next)
    OBVIOUS
  <2>1. DialBox
    BY DialSteps DEF StartFrame, QuietStep, IdleStep, CheckCode, dialVars, vars
  <2>2. Pressed(Layout)
    BY <2>1 DEF DialBox
  <2> QED
    BY <2>1, <2>2, PressedLabel
<1> QED
  BY <1>1, DialInvariant, PTL DEF Spec, DigitIsBox

(***************************************************************************)
(* While the clock is not set back, the row of digits keeps the promise of *)
(* Poll.                                                                   *)
(***************************************************************************)
THEOREM DialHolds ==
  ASSUME SteadyClock
  PROVE  Spec => []HoldInv /\ Kept
<1>1. Init => HoldInv /\ Promise!Init
  BY HoldInvInit, PromiseInit DEF Init
<1>2. DialInv /\ HoldInv /\ [Next]_vars => HoldInv' /\ [Promise!Next]_(Promise!vars)
  <2> SUFFICES ASSUME DialInv, HoldInv, [Next]_vars
               PROVE  HoldInv' /\ [Promise!Next]_(Promise!vars)
    OBVIOUS
  <2>1. CASE StartFrame \/ DialBox \/ QuietStep
    BY <2>1, DialPanelSteps, HoldInvStep, PromiseStep DEF DialInv
  <2>2. CASE (Tick \/ SetClockBack) /\ UNCHANGED <<panelVars, dialVars>>
    BY <2>2, HoldInvTime, PromiseTime DEF DialInv
  <2>3. CASE CheckCode \/ UNCHANGED vars
    <3>1. UNCHANGED <<clock, panelVars>> /\ (pc' \in {"boxes", "resolve"} => pc' = pc)
      BY <2>3 DEF CheckCode, Step, vars, loopVars, timeVars
    <3> QED
      BY <3>1, PromiseStutter DEF HoldInv, ActiveBoxes, panelVars
  <2> QED
    BY <2>1, <2>2, <2>3, DialSteps DEF IdleStep
<1> QED
  BY <1>1, <1>2, DialInvariant, PTL DEF Spec, Kept, Promise!Spec

(* The refinement alone.                                                    *)
THEOREM DialKept ==
  ASSUME SteadyClock
  PROVE  Spec => Kept
  BY DialHolds, PTL

-------------------------------------------------------------------------------
(* What a step of DialMode does to the counts and to the number: both, or   *)
(* neither.                                                                 *)
LEMMA CountsAndDigits ==
  ASSUME DialInv, [Next]_vars
  PROVE  \/ /\ next \in Boxes
            /\ numbers' = Append(numbers, next)
            /\ boxes'[next].count = boxes[next].count + 1
            /\ \A b \in Boxes \ {next} : boxes'[b].count = boxes[b].count
         \/ /\ numbers' = numbers
            /\ \A b \in Boxes : boxes'[b].count = boxes[b].count
<1>1. CASE DialBox
  <2>1. next \in Boxes /\ ProcessBox(Layout)
    BY <1>1 DEF DialBox, ProcessBox, DialInv, PanelInv
  <2>2. \A b \in Boxes \ {next} : boxes'[b].count = boxes[b].count
    BY <2>1, ProcessBoxStep DEF DialInv
  <2>3. CASE Pressed(Layout)
    <3>1. numbers' = Append(numbers, next)
      BY <1>1, <2>3, PressedLabel
    <3>2. boxes'[next].count = boxes[next].count + 1
      BY <2>1, <2>3, ProcessBoxStep DEF DialInv
    <3> QED
      BY <2>1, <2>2, <3>1, <3>2
  <2>4. CASE ~Pressed(Layout)
    <3>1. numbers' = numbers
      BY <1>1, <2>4 DEF DialBox
    <3>2. boxes'[next].count = boxes[next].count
      BY <2>1, <2>4, ProcessBoxStep DEF DialInv
    <3> QED
      BY <2>2, <3>1, <3>2
  <2> QED
    BY <2>3, <2>4
<1>2. CASE Resolve("code") /\ UNCHANGED dialVars
  BY <1>2, DeactivateType DEF Resolve, dialVars, DialInv, PanelTypeOK
<1>3. CASE UNCHANGED <<boxes, numbers>>
  BY <1>3
<1> QED
  BY <1>1, <1>2, <1>3, DialSteps
  DEF StartFrame, FindBlobs, QuietStep, IdleStep, CheckCode, panelVars, dialVars, vars

(* The digits of the number are the presses of the boxes (DialMode.cpp      *)
(* 73-84), on any camera and under any clock.                               *)
THEOREM DialNumberTellsCounts == Spec => []NumberTellsCounts
<1>1. Init => NumberTellsCounts
  <2> SUFFICES ASSUME Init, NEW b \in Boxes PROVE boxes[b].count = Cardinality(Places(b))
    BY DEF NumberTellsCounts
  <2>1. Places(b) = {} /\ boxes[b].count = 0
    BY DEF Init, PanelInit, NewObject, Places
  <2> QED
    BY <2>1, FS_EmptySet
<1>2. DialInv /\ NumberTellsCounts /\ [Next]_vars => NumberTellsCounts'
  <2> SUFFICES ASSUME DialInv, NumberTellsCounts, [Next]_vars, NEW b \in Boxes
               PROVE  boxes'[b].count = Cardinality(Places(b)')
    BY DEF NumberTellsCounts
  <2>1. CASE /\ next \in Boxes
             /\ numbers' = Append(numbers, next)
             /\ boxes'[next].count = boxes[next].count + 1
             /\ \A other \in Boxes \ {next} : boxes'[other].count = boxes[other].count
    <3> DEFINE n == Len(numbers)
    <3>1. n \in Nat /\ next \in 0 .. 9 /\ numbers \in Seq(0 .. 9)
      BY <2>1, PanelAssumption, DialAssumption DEF DialInv, Boxes
    <3>2. Len(numbers') = n + 1 /\ numbers'[n + 1] = next /\ \A k \in 1 .. n : numbers'[k] = numbers[k]
      BY <2>1, <3>1
    <3>3. IsFiniteSet(Places(b))
      <4>1. IsFiniteSet(1 .. n)
        BY <3>1, FS_Interval
      <4>2. Places(b) \in SUBSET (1 .. n)
        BY DEF Places
      <4> QED
        BY <4>1, <4>2, FS_Subset
    <3>4. n + 1 \notin Places(b)
      BY <3>1 DEF Places
    <3>5. CASE b = next
      <4>1. Places(b)' = Places(b) \cup {n + 1}
        BY <3>1, <3>2, <3>5 DEF Places
      <4> QED
        <5>1. Cardinality(Places(b) \cup {n + 1}) = Cardinality(Places(b)) + 1
          BY <3>3, <3>4, FS_AddElement
        <5>2. boxes[b].count = Cardinality(Places(b))
          BY DEF NumberTellsCounts
        <5> QED
          BY <2>1, <3>5, <4>1, <5>1, <5>2
    <3>6. CASE b # next
      <4>1. Places(b)' = Places(b)
        BY <3>1, <3>2, <3>6 DEF Places
      <4> QED
        BY <2>1, <3>6, <4>1 DEF NumberTellsCounts
    <3> QED
      BY <3>5, <3>6
  <2>2. CASE /\ numbers' = numbers
             /\ \A other \in Boxes : boxes'[other].count = boxes[other].count
    <3>1. Places(b)' = Places(b)
      BY <2>2 DEF Places
    <3> QED
      BY <2>2, <3>1 DEF NumberTellsCounts
  <2> QED
    BY <2>1, <2>2, CountsAndDigits
<1> QED
  BY <1>1, <1>2, DialInvariant, PTL DEF Spec

-------------------------------------------------------------------------------
(***************************************************************************)
(* No hold of a box begins before the last digit was dialled, except that  *)
(* of a box activated in the very frame in which an earlier box is counted *)
(* - and such a frame ends with all boxes deactivated.                     *)
(***************************************************************************)
Spent == Len(numbers) * (ActivationTime + 1)

DoomedIn(b) ==
  /\ pc \in {"boxes", "resolve"}
  /\ \E a \in opened \ {b} : a < next /\ boxes[a].active /\ boxes[a].counted

PaceInv ==
  /\ DiallingTakesTime
  /\ \A b \in Boxes : boxes[b].active /\ ~boxes[b].counted => Spent <= since[b] \/ DoomedIn(b)

LEMMA SpentType ==
  ASSUME DialInv
  PROVE  Spent \in Nat
<1>1. Len(numbers) \in Nat /\ ActivationTime + 1 \in Nat
  BY ObjectAssumption DEF DialInv
<1> QED
  BY <1>1, SMT DEF Spent

LEMMA SpentMore ==
  ASSUME DialInv, NEW d \in 0 .. 9, numbers' = Append(numbers, d)
  PROVE  Spent' = Spent + ActivationTime + 1
<1>1. Len(numbers) \in Nat /\ ActivationTime \in Nat /\ Len(numbers') = Len(numbers) + 1
  BY ObjectAssumption DEF DialInv
<1>2. (Len(numbers) + 1) * (ActivationTime + 1)
        = Len(numbers) * (ActivationTime + 1) + ActivationTime + 1
  BY <1>1, SMT
<1> QED
  BY <1>1, <1>2 DEF Spent

LEMMA PaceBoxStep ==
  ASSUME DialInv, HoldInv, PaceInv, DialBox
  PROVE  PaceInv'
<1>1. /\ next \in Boxes /\ pc = "boxes" /\ pc' \in {"boxes", "resolve"}
      /\ next' = next + 1 /\ opened' = opened /\ clock' = clock
      /\ ProcessBox(Layout)
  BY DEF DialBox, ProcessBox, DialInv, PanelInv, Step
<1>2. /\ clock \in Nat /\ since \in [Boxes -> Nat] /\ boxes \in [Boxes -> Object]
      /\ opened \in SUBSET Boxes /\ Boxes \subseteq Nat /\ next \in 0 .. 9
      /\ ActivationTime \in Nat /\ Spent \in Nat
  BY <1>1, SpentType, PanelAssumption, DialAssumption, ObjectAssumption
  DEF DialInv, LoopTypeOK, PanelTypeOK, Boxes
<1>3. \A b \in Boxes \ {next} : boxes'[b] = boxes[b] /\ since'[b] = since[b]
  BY <1>1, ProcessBoxStep DEF DialInv
<1>4. /\ boxes[next].active <=> next \in opened
      /\ \A a, b \in opened : a = b
  BY <1>1, <1>2 DEF DialInv, PanelInv
<1>5. Spent <= clock
  BY DEF PaceInv, DiallingTakesTime, Spent
<1>6. DiallingTakesTime' <=> Spent' <= clock'
  BY DEF DiallingTakesTime, Spent
<1>7. CASE Pressed(Layout)
  <2>1. /\ next \in opened /\ numbers' = Append(numbers, next)
        /\ boxes[next].active /\ ~boxes[next].counted
        /\ boxes'[next].active /\ boxes'[next].counted
        /\ Minus(Timestamp(clock), boxes[next].activeStamp) > ActivationTime
    BY <1>1, <1>7, PressedLabel, ProcessBoxStep DEF DialInv
  <2>2. Spent <= since[next]
    <3>1. ~DoomedIn(next)
      BY <1>4, <2>1 DEF DoomedIn
    <3> QED
      BY <1>1, <2>1, <3>1 DEF PaceInv
  <2>3. clock - since[next] > ActivationTime
    <3>1. Minus(Timestamp(clock), Timestamp(since[next])) <= clock - since[next]
      BY <1>1, <1>2, MinusBound DEF HoldInv
    <3>2. boxes[next].activeStamp = Timestamp(since[next])
      BY <1>1, <2>1 DEF HoldInv, ActiveBoxes
    <3>3. Minus(Timestamp(clock), Timestamp(since[next])) \in Int
      BY <1>1, <1>2, ObjectAssumption DEF Minus, Timestamp
    <3> QED
      BY <1>1, <1>2, <2>1, <3>1, <3>2, <3>3
  <2>4. Spent' = Spent + ActivationTime + 1
    BY <1>2, <2>1, SpentMore
  <2>5. Spent' <= clock'
    BY <1>1, <1>2, <2>2, <2>3, <2>4
  <2>6. \A b \in Boxes : boxes'[b].active /\ ~boxes'[b].counted => DoomedIn(b)'
    BY <1>1, <1>2, <2>1 DEF DoomedIn
  <2> QED
    BY <1>6, <2>5, <2>6 DEF PaceInv
<1>8. CASE ~Pressed(Layout)
  <2>1. numbers' = numbers /\ Spent' = Spent
    BY <1>8 DEF DialBox, Spent
  <2>2. /\ \/ ~boxes'[next].active
           \/ ~boxes[next].active /\ since'[next] = clock
           \/ boxes' = boxes /\ since' = since
    BY <1>1, <1>8, ProcessBoxStep DEF DialInv
  <2>3. \A b \in Boxes : boxes[b].active /\ DoomedIn(b) => DoomedIn(b)'
    <3> SUFFICES ASSUME NEW b \in Boxes, boxes[b].active, DoomedIn(b)
                 PROVE  DoomedIn(b)'
      OBVIOUS
    <3>1. PICK a \in opened \ {b} : a < next /\ boxes[a].active /\ boxes[a].counted
      BY DEF DoomedIn
    <3>2. a \in Boxes /\ a # next /\ boxes'[a] = boxes[a] /\ a < next'
      BY <1>1, <1>2, <1>3, <3>1
    <3> QED
      BY <1>1, <3>1, <3>2 DEF DoomedIn
  <2>4. ASSUME NEW b \in Boxes, boxes'[b].active, ~boxes'[b].counted
        PROVE  Spent' <= since'[b] \/ DoomedIn(b)'
    <3>1. CASE b # next
      BY <1>3, <2>1, <2>3, <2>4, <3>1 DEF PaceInv
    <3>2. CASE b = next
      BY <1>1, <1>5, <2>1, <2>2, <2>3, <2>4, <3>2 DEF PaceInv
    <3> QED
      BY <3>1, <3>2
  <2> QED
    BY <1>1, <1>5, <1>6, <2>1, <2>4 DEF PaceInv
<1> QED
  BY <1>7, <1>8

LEMMA PaceStep ==
  ASSUME SteadyClock, DialInv, HoldInv, PaceInv, [Next]_vars
  PROVE  PaceInv'
<1> USE DEF DiallingTakesTime, Spent, PaceInv
<1>1. CASE DialBox
  BY <1>1, PaceBoxStep
<1>2. CASE StartFrame
  <2>1. UNCHANGED <<clock, boxes, since, numbers>> /\ ~DoomedIn(0)
    BY <1>2 DEF StartFrame, FindBlobs, Step, DoomedIn
  <2>2. \A b \in Boxes : ~DoomedIn(b)
    BY <1>2 DEF StartFrame, FindBlobs, DoomedIn
  <2> QED
    BY <2>1, <2>2
<1>3. CASE LoopStep("findBlobs", "code") /\ UNCHANGED <<panelVars, dialVars>>
  <2>1. clock' = clock
    BY <1>3, LoopStepPc
  <2>2. \A b \in Boxes : ~DoomedIn(b)
    BY <1>3, LoopStepPc DEF DoomedIn
  <2> QED
    BY <1>3, <2>1, <2>2 DEF panelVars, dialVars
<1>4. CASE Resolve("code") /\ UNCHANGED dialVars
  <2>1. clock' = clock /\ since' = since /\ numbers' = numbers
    BY <1>4 DEF Resolve, Step, dialVars
  <2>2. CASE Crowded
    <3>1. \A b \in Boxes : ~boxes'[b].active
      BY <1>4, <2>2, DeactivateType DEF Resolve, DialInv, PanelTypeOK
    <3> QED
      BY <2>1, <3>1
  <2>3. CASE ~Crowded
    <3>1. boxes' = boxes
      BY <1>4, <2>3 DEF Resolve
    <3>2. \A b \in Boxes : boxes[b].active => ~DoomedIn(b)
      BY <2>3 DEF DoomedIn, Crowded, ActiveBoxes, DialInv, PanelTypeOK
    <3> QED
      BY <2>1, <3>1, <3>2
  <2> QED
    BY <2>2, <2>3
<1>5. CASE IdleStep
  <2>1. UNCHANGED <<panelVars, dialVars>>
    BY <1>5 DEF IdleStep, CheckCode, vars
  <2>2. clock \in Nat /\ clock' \in Nat /\ clock <= clock'
    BY <1>5 DEF IdleStep, CheckCode, vars, loopVars, timeVars, Step, Tick, SetClockBack,
                SteadyClock, DialInv, LoopTypeOK
  <2>3. \A b \in Boxes : DoomedIn(b) => DoomedIn(b)'
    BY <1>5, <2>1
    DEF IdleStep, CheckCode, vars, loopVars, Tick, SetClockBack, DoomedIn, panelVars
  <2>4. Spent \in Nat
    BY SpentType
  <2> QED
    BY <2>1, <2>2, <2>3, <2>4 DEF panelVars, dialVars
<1> QED
  BY <1>1, <1>2, <1>3, <1>4, <1>5, DialSteps DEF QuietStep

(* Every digit takes a hold of its own (DialMode.cpp 73-99).                *)
THEOREM DialTakesTime ==
  ASSUME SteadyClock
  PROVE  Spec => []DiallingTakesTime
<1>1. Init => PaceInv
  BY LoopAssumption, ObjectAssumption
  DEF Init, LoopInit, PanelInit, NewObject, PaceInv, DiallingTakesTime
<1>2. DialInv /\ HoldInv /\ PaceInv /\ [Next]_vars => PaceInv'
  BY PaceStep
<1>3. PaceInv => DiallingTakesTime
  BY DEF PaceInv
<1> QED
  BY <1>1, <1>2, <1>3, DialInvariant, DialHolds, PTL DEF Spec
===============================================================================
