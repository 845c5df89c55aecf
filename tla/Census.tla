--------------------------------- MODULE Census ---------------------------------
(***************************************************************************)
(* What the tracker promises about how many objects it keeps, with no      *)
(* positions, no prediction and no assignment: in every frame, every blob  *)
(* is the sighting of one object, a known or a new one; an object that is  *)
(* not sighted grows one frame older, and beyond the last age it is gone.  *)
(***************************************************************************)
EXTENDS Integers, FiniteSets

CONSTANTS
  MaxBlobs,     \* the blobs that a frame may have
  MaxUnseen     \* frames an object survives without a sighting

VARIABLES
  blobs,    \* the blobs of the last frame
  ages      \* ages[a]: the objects last sighted a frames ago

vars == <<blobs, ages>>

Ages == 0 .. MaxUnseen

Init == blobs = 0 /\ ages = [a \in Ages |-> 0]

(* The objects, which have no name: the first, second and so on of an age.  *)
Known == UNION {{a} \X (1 .. ages[a]) : a \in Ages}

OfAge(os, a) == Cardinality({o \in os : o[1] = a})

(* A frame with n blobs, some of which are the known objects "sighted".     *)
Frame(n, sighted) ==
  /\ Cardinality(sighted) <= n
  /\ blobs' = n
  /\ ages' = [a \in Ages |-> IF a = 0 THEN n ELSE ages[a - 1] - OfAge(sighted, a - 1)]

Next == \E n \in 0 .. MaxBlobs : \E sighted \in SUBSET Known : Frame(n, sighted)

Spec == Init /\ [][Next]_vars
===============================================================================
