---------------------------- MODULE BgRemovalProofs ----------------------------
(***************************************************************************)
(* The counting line of HandCounter_bgRemoval.cpp, for every size of the   *)
(* picture, every place of the line and all blobs, and for every sequence  *)
(* of keys.                                                                *)
(***************************************************************************)
EXTENDS BgRemoval, TLAPS, FiniteSetTheorems

(* Every variable keeps its type: no sequence of keys takes the line above  *)
(* the picture, where its row would be negative.                            *)
THEOREM LineTyped == Spec => []TypeOK
<1>1. Init => TypeOK
  <2> SUFFICES ASSUME Init PROVE TypeOK
    OBVIOUS
  <2>1. height \in Nat /\ counter \in Nat
    BY LineAssumption DEF Init
  <2>2. processed \in BOOLEAN /\ cameraGone \in BOOLEAN
    BY DEF Init
  <2> QED
    BY <2>1, <2>2 DEF Init, TypeOK
<1>2. TypeOK /\ [Next]_vars => TypeOK'
  <2> SUFFICES ASSUME TypeOK, [Next]_vars PROVE TypeOK'
    OBVIOUS
  <2> USE LineAssumption DEF TypeOK
  <2>1. CASE CountAtLine
    <3>1. IsFiniteSet(blobs)
      BY FS_EmptySet
    <3>2. IsFiniteSet(Counted)
      BY <3>1, FS_Subset DEF Counted
    <3>3. Cardinality(Counted) \in Nat
      BY <3>2, FS_CardinalityType
    <3> QED
      BY <2>1, <3>3 DEF CountAtLine
  <2>2. CASE KeyUp
    BY <2>2 DEF KeyUp
  <2>3. CASE KeyDown
    <3>1. frameHeight \in Nat
      OBVIOUS
    <3> QED
      BY <2>3, <3>1 DEF KeyDown
  <2>4. CASE Grab \/ CameraLost \/ NoUpperPart \/ KeyOther \/ KeyEscape
    BY <2>4 DEF Grab, CameraLost, NoUpperPart, KeyOther, KeyEscape
  <2>5. CASE Ended \/ UNCHANGED vars
    BY <2>5 DEF Ended, vars
  <2> QED
    BY <2>1, <2>2, <2>3, <2>4, <2>5 DEF Next
<1> QED
  BY <1>1, <1>2, PTL DEF Spec

-------------------------------------------------------------------------------
(***************************************************************************)
(* Once a frame was processed the line is in the picture and stays there:  *)
(* both keys keep it so.  The keyboard is only polled after a frame was    *)
(* processed, so no key is pressed while the line is below the picture.    *)
(***************************************************************************)
LineInv ==
  /\ processed => height <= frameHeight
  /\ pc = "key" => processed
  /\ LineEndsOnlyAtEdges

THEOREM LineInvariant == Spec => []LineInv
<1>1. Init => LineInv
  BY DEF Init, LineInv, LineEndsOnlyAtEdges
<1>2. TypeOK /\ LineInv /\ [Next]_vars => LineInv'
  <2> SUFFICES ASSUME TypeOK, LineInv, [Next]_vars PROVE LineInv'
    OBVIOUS
  <2> USE LineAssumption DEF LineInv, LineEndsOnlyAtEdges
  <2>1. CASE KeyUp
    BY <2>1 DEF KeyUp, TypeOK
  <2>2. CASE KeyDown
    <3>1. height' <= frameHeight
      BY <2>2 DEF KeyDown, TypeOK
    <3> QED
      BY <2>2, <3>1 DEF KeyDown
  <2>3. CASE NoUpperPart
    BY <2>3 DEF NoUpperPart, TypeOK
  <2>4. CASE CountAtLine
    BY <2>4 DEF CountAtLine
  <2>5. CASE Grab \/ CameraLost \/ KeyOther \/ KeyEscape
    BY <2>5 DEF Grab, CameraLost, KeyOther, KeyEscape
  <2>6. CASE Ended \/ UNCHANGED vars
    BY <2>6 DEF Ended, vars
  <2> QED
    BY <2>1, <2>2, <2>3, <2>4, <2>5, <2>6 DEF Next
<1> QED
  BY <1>1, <1>2, LineTyped, PTL DEF Spec

(* No sequence of keys ends the program by a line below the picture.        *)
THEOREM LineStaysInPicture == Spec => []LineEndsOnlyAtEdges
<1>1. LineInv => LineEndsOnlyAtEdges
  BY DEF LineInv
<1> QED
  BY <1>1, LineInvariant, PTL

-------------------------------------------------------------------------------
(* A blob that reaches the line from far enough above is cut in the row     *)
(* next to the line, and that row is in the band where blobs count.         *)
LEMMA CutAtLine ==
  ASSUME NEW b \in Blobs, height \in Nat, Band > 1,
         b.top + MinRows <= height, height <= b.bottom
  PROVE  HasHull(Cut(b)) /\ AtLine(Cut(b))
<1>1. b.top \in Nat /\ b.bottom \in Nat /\ Band \in Nat /\ MinRows \in Nat
  BY LineAssumption DEF Blobs
<1>2. Cut(b).bottom = height - 1 /\ Cut(b).top = b.top
  BY <1>1 DEF Cut, Blobs
<1>3. height - 1 - b.top + 1 >= MinRows
  BY <1>1
<1>4. height - 1 < height /\ height - 1 > height - Band
  BY <1>1
<1> QED
  BY <1>2, <1>3, <1>4 DEF HasHull, AtLine

(***************************************************************************)
(* Who crosses the line with enough of him above it is counted.  The band  *)
(* must be wider than one row: the code compares "greater than line - 10", *)
(* so of a band of one row nothing would be left.                          *)
(***************************************************************************)
THEOREM LineCountsCrossing ==
  ASSUME Band > 1
  PROVE  Spec => []CrossingIsCounted
<1>1. Init => CrossingIsCounted
  BY DEF Init, CrossingIsCounted
<1>2. TypeOK /\ CrossingIsCounted /\ [Next]_vars => CrossingIsCounted'
  <2> SUFFICES ASSUME TypeOK, CrossingIsCounted, [Next]_vars PROVE CrossingIsCounted'
    OBVIOUS
  <2>1. CASE CountAtLine
    <3> DEFINE Crossing == {b \in blobs : b.top + MinRows <= height /\ height <= b.bottom}
    <3>1. IsFiniteSet(blobs) /\ blobs \subseteq Blobs /\ height \in Nat
      BY LineAssumption, FS_EmptySet DEF TypeOK
    <3>2. Crossing \subseteq Counted
      BY <3>1, CutAtLine DEF Counted
    <3>3. IsFiniteSet(Counted)
      BY <3>1, FS_Subset DEF Counted
    <3>4. Cardinality(Crossing) <= Cardinality(Counted)
      BY <3>2, <3>3, FS_Subset
    <3>5. Crossing' = Crossing
      BY <2>1 DEF CountAtLine
    <3>6. counter' = Cardinality(Counted)
      BY <2>1 DEF CountAtLine
    <3> QED
      BY <3>4, <3>5, <3>6 DEF CrossingIsCounted
  <2>2. CASE Grab \/ CameraLost \/ NoUpperPart \/ KeyOther \/ KeyEscape \/ KeyUp \/ KeyDown
    BY <2>2 DEF CrossingIsCounted, Grab, CameraLost, NoUpperPart, KeyOther, KeyEscape, KeyUp, KeyDown
  <2>3. CASE Ended \/ UNCHANGED vars
    BY <2>3 DEF CrossingIsCounted, Ended, vars
  <2> QED
    BY <2>1, <2>2, <2>3 DEF Next
<1> QED
  BY <1>1, <1>2, LineTyped, PTL DEF Spec
===============================================================================
