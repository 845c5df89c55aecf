--------------------------------- MODULE Tracker ---------------------------------
(***************************************************************************)
(* Tracking/Tracker.cpp with TrackObj.cpp and MKalman.cpp: objects that    *)
(* are followed from frame to frame by a Kalman filter each.  In every     *)
(* frame the filters predict where their objects are, the centroids of the *)
(* blobs ("measurements") are assigned to the predictions, an assigned     *)
(* blob that is near enough corrects its filter, an object that was not    *)
(* sighted for too long is erased, and the blobs that are left over become *)
(* new objects.                                                            *)
(*                                                                         *)
(* A point is one coordinate here, a whole number of units, PixelUnits to  *)
(* the pixel.  What the filter does to an estimate is kept up to the gain: *)
(* a correction moves it some part of the way to the measurement.          *)
(***************************************************************************)
EXTENDS Assignment

CONSTANTS
  Spots,        \* where the centroid of a blob may be
  MaxBlobs,     \* bound: blobs of a frame
  Speeds,       \* bound: the velocities that a filter may estimate
  PixelUnits,   \* units of length in a pixel
  UnitCost,     \* cost of a unit of distance: -100 per pixel in the code
  Tresh,        \* how far a blob may be from its prediction (100 pixels)
  MaxUnseen     \* frames an object survives without a sighting (3)

ASSUME TrackerAssumption ==
  /\ Spots \subseteq Nat
  /\ MaxBlobs \in Nat
  /\ Speeds \subseteq Int /\ 0 \in Speeds
  /\ PixelUnits \in Nat \ {0}
  /\ UnitCost \in Nat
  /\ Tresh \in Nat
  /\ MaxUnseen \in Nat

VARIABLES
  initialized,    \* has init been called?
  objects,        \* the objects, in the order of the vector
  assignments,    \* of the last frame: the column of each row
  scene,          \* history: the centroids of the blobs of the last frame
  steady          \* history: has every frame shown the same centroids so far?

vars == <<initialized, objects, assignments, scene, steady>>

(* The numbers of a finite set in their order.                              *)
InOrder(K) ==
  CHOOSE f \in [1 .. Cardinality(K) -> K] : \A i, j \in DOMAIN f : i < j => f[i] < f[j]

AbsDiff(a, b) == IF a < b THEN b - a ELSE a - b

(* A float that becomes an int: the whole pixels, towards zero.             *)
Truncate(p) ==
  IF p < 0 THEN -((-p) \div PixelUnits) * PixelUnits ELSE (p \div PixelUnits) * PixelUnits

-------------------------------------------------------------------------------
(***************************************************************************)
(* A tracked object.  Of the history only its end matters, "last", and     *)
(* whether it has one point only, "fresh".  The filter is the predicted    *)
(* state "pre", the corrected state "post" and its velocity "vel"; "blind" *)
(* says that it has not predicted yet, so that its gain is zero.           *)
(***************************************************************************)
TrackObj ==
  [last : Int, fresh : BOOLEAN, unseen : 0 .. MaxUnseen,
   pre : Int, post : Int, vel : Int, blind : BOOLEAN]

(* Mutated form: the filter is told the origin as well.                     *)
NewAtOrigin(p) ==
  [last |-> p, fresh |-> TRUE, unseen |-> 0,
   pre |-> 0, post |-> 0, vel |-> 0, blind |-> TRUE]

(* The constructors (TrackObj.hpp 23-27, MKalman.cpp 7-27): the filter is   *)
(* told the first position as its prediction; the corrected state, from     *)
(* which it predicts, is the zero that OpenCV leaves there.                 *)
NewObj(p) ==
  [last |-> p, fresh |-> TRUE, unseen |-> 0,
   pre |-> Truncate(p), post |-> 0, vel |-> 0, blind |-> TRUE]

(* Mutated form: an object is as young as at its last sighting.             *)
PredictAgeless(o) ==
  IF o.fresh
    THEN [o EXCEPT !.fresh = FALSE]
    ELSE LET p == o.post + o.vel
         IN  [o EXCEPT !.last = Truncate(p), !.pre = p, !.post = p, !.blind = FALSE]

(* TrackObj::predict and MKalman::predict: the first time, the first        *)
(* position again, without the filter.                                      *)
Predict(o) ==
  IF o.fresh
    THEN [o EXCEPT !.fresh = FALSE, !.unseen = @ + 1]
    ELSE LET p == o.post + o.vel
         IN  [o EXCEPT !.last = Truncate(p), !.pre = p, !.post = p, !.blind = FALSE,
                       !.unseen = @ + 1]

(* The numbers from a to b, in either direction.                            *)
Between(a, b) == a .. b \cup b .. a

(* Mutated form: the counter of the unseen frames is not reset.             *)
SightedUnreset(o, p, v) == [o EXCEPT !.post = p, !.vel = v]

(* The object in a frame in which it is sighted: its filter now estimates   *)
(* the position p and the velocity v.                                       *)
Sighted(o, p, v) == [o EXCEPT !.post = p, !.vel = v, !.unseen = 0]

(* TrackObj::correct and MKalman::correct: what the object may become.      *)
Corrected(o, m) ==
  IF o.blind THEN {Sighted(o, o.pre, 0)}
  ELSE {Sighted(o, p, v) :
          p \in Between(o.pre, m), v \in Speeds \cap Between(o.vel, o.vel + m - o.pre)}

(* Mutated form: an object survives one frame more.                         *)
LostLater(o) == o.unseen > MaxUnseen + 1

(* objectIsLost of Tracker.hpp, the condition of the erasure.               *)
ObjectIsLost(o) == o.unseen > MaxUnseen

-------------------------------------------------------------------------------
(***************************************************************************)
(* The matrix that is handed to max_cost_assignment: the row of a          *)
(* measurement, the column of an object; cells that are neither are        *)
(* numbered from 1 on (smallN), row by row.                                *)
(***************************************************************************)
Larger(a, b) == IF a < b THEN b ELSE a

Padding(i, j, lins, cols, n) ==
  IF i <= lins THEN (i - 1) * (n - cols) + j - cols
               ELSE lins * (n - cols) + (i - lins - 1) * n + j

DistanceMatrix(ms, predicted) ==
  LET lins == Len(ms)
      cols == Len(predicted)
      n    == Larger(lins, cols)
  IN  [i \in 1 .. n |-> [j \in 1 .. n |->
         IF i > lins \/ j > cols THEN Padding(i, j, lins, cols, n)
         ELSE -UnitCost * AbsDiff(ms[i], predicted[j].last)]]

-------------------------------------------------------------------------------
(* What findBlobs may find.                                                 *)
Scenes == UNION {[1 .. n -> Spots] : n \in 0 .. MaxBlobs}

Init ==
  /\ initialized = FALSE
  /\ objects = <<>>
  /\ assignments = <<>>
  /\ scene = <<>>
  /\ steady = TRUE

Occurrences(ms, p) == Cardinality({i \in DOMAIN ms : ms[i] = p})

SameScene(ms) == \A p \in Spots : Occurrences(ms, p) = Occurrences(scene, p)

(* The centroids of the frame are ms.                                       *)
Observe(ms) ==
  /\ scene' = ms
  /\ steady' = (steady /\ (initialized => SameScene(ms)))

(* Mutated form: the tracker does not note that it was initialised.         *)
InitForgets(ms) ==
  /\ ~initialized
  /\ objects' = [i \in DOMAIN ms |-> NewObj(ms[i])]
  /\ Observe(ms)
  /\ UNCHANGED <<initialized, assignments>>

(* Tracker::init (lines 31-40): every blob becomes an object.               *)
InitObjects(ms) ==
  /\ ~initialized
  /\ initialized' = TRUE
  /\ objects' = [i \in DOMAIN ms |-> NewObj(ms[i])]
  /\ Observe(ms)
  /\ UNCHANGED assignments

(* Line 120: blob i was assigned to an object, and is near its prediction.  *)
Near(ms, predicted, a, i) ==
  a[i] <= Len(predicted) /\ AbsDiff(predicted[a[i]].last, ms[i]) <= Tresh

(* Mutated form: a blob that is assigned to an object far away is dropped.  *)
LeftOverFar(ms, predicted, a) == {i \in DOMAIN ms : a[i] > Len(predicted)}

(* The blobs of which msNotAssigned is true.                                *)
LeftOver(ms, predicted, a) == {i \in DOMAIN ms : ~Near(ms, predicted, a, i)}

(* What object k may be after the corrections (lines 115-123).              *)
Outcomes(ms, predicted, a, k) ==
  LET sightings == {i \in DOMAIN ms : a[i] = k /\ Near(ms, predicted, a, i)}
  IN  IF sightings = {} THEN {predicted[k]}
      ELSE UNION {Corrected(predicted[k], ms[i]) : i \in sightings}

(* The members of s with the indices in K, in their order.                  *)
Picked(s, K) ==
  LET index == InOrder(K)
  IN  [i \in 1 .. Cardinality(K) |-> s[index[i]]]

(* The objects that remove_if leaves (line 126).                            *)
Survivors(after) == Picked(after, {k \in DOMAIN after : ~ObjectIsLost(after[k])})

(* The objects of the blobs left over (lines 129-133).                      *)
Newborn(ms, left) == LET found == Picked(ms, left) IN [i \in DOMAIN found |-> NewObj(found[i])]

(* Tracker::track (lines 87-134): predict, assign, correct what is near,    *)
(* erase what is lost, and start new objects for the blobs left over.       *)
Track(ms) ==
  /\ initialized
  /\ LET predicted == [k \in DOMAIN objects |-> Predict(objects[k])]
         out(a)    == [k \in DOMAIN objects |-> Outcomes(ms, predicted, a, k)]
     IN  \E a \in MaxCostAssignments(DistanceMatrix(ms, predicted)) :
         \E after \in [DOMAIN objects -> UNION Range(out(a))] :
           /\ \A k \in DOMAIN objects : after[k] \in out(a)[k]
           /\ objects' = Survivors(after) \o Newborn(ms, LeftOver(ms, predicted, a))
           /\ assignments' = a
  /\ Observe(ms)
  /\ UNCHANGED initialized

Next == \E ms \in Scenes : InitObjects(ms) \/ Track(ms)

Spec == Init /\ [][Next]_vars

TypeOK ==
  /\ initialized \in BOOLEAN
  /\ objects \in Seq(TrackObj)
  /\ scene \in Scenes
  /\ steady \in BOOLEAN
  /\ \A i \in DOMAIN assignments : assignments[i] \in DOMAIN assignments

-------------------------------------------------------------------------------
(***************************************************************************)
(* After every frame the objects sighted in it are as many as its blobs:   *)
(* no blob counts for two objects, none is lost, wherever the predictions  *)
(* are and however the costs tie (lines 113-133).                          *)
(***************************************************************************)
EveryBlobIsOneObject ==
  Len(scene) = Cardinality({k \in DOMAIN objects : objects[k].unseen = 0})

(***************************************************************************)
(* The vector does not grow without bound: it holds no more objects than   *)
(* the frames that an object survives can show blobs (lines 125-133).      *)
(***************************************************************************)
ObjectsBounded == Len(objects) <= (MaxUnseen + 1) * MaxBlobs

(***************************************************************************)
(* In a scene where nothing moves, no object is lost or found: there are   *)
(* exactly the objects of the first frame, although the blobs come in a    *)
(* different order in every frame (lines 94-133).                          *)
(***************************************************************************)
StillSceneIsKept ==
  steady /\ initialized =>
    /\ Len(objects) = Len(scene)
    /\ \A k \in DOMAIN objects : objects[k].unseen = 0

(***************************************************************************)
(* The tracker keeps the promise of Census.                                *)
(***************************************************************************)
Promise == INSTANCE Census WITH
  blobs <- Len(scene),
  ages <- [a \in 0 .. MaxUnseen |-> Cardinality({k \in DOMAIN objects : objects[k].unseen = a})]

Kept == Promise!Spec

(***************************************************************************)
(* The history of an object is where it has been, as TrackObj.hpp line 18  *)
(* says of it: between the places of the blobs, where nothing moves.  It   *)
(* does not hold: an object that is not sighted in the frame after its     *)
(* first one is next predicted at the origin, for the filter predicts from *)
(* a corrected state that nothing has set (MKalman.cpp 17-21).             *)
(***************************************************************************)
HistoryInScene ==
  Speeds = {0} => \A k \in DOMAIN objects : objects[k].last \in Min(Spots) .. Max(Spots)

(* How far the blobs are, all told, from the objects they are assigned to.  *)
PairedDistance(ms, predicted, a) ==
  MapThenSumSet(LAMBDA i : AbsDiff(ms[i], predicted[a[i]].last),
                {i \in DOMAIN ms : a[i] \in DOMAIN predicted})

(***************************************************************************)
(* Of all the ways to pair blobs with objects, the one chosen has the      *)
(* least total distance, as Tracker.cpp lines 81-83 say.  It does not      *)
(* hold: the cells of the matrix that pair nothing hold 1, 2, 3 and so on  *)
(* (lines 65 and 73), and which of them are taken adds to the cost.        *)
(***************************************************************************)
NearestPairing ==
  [][initialized =>
       LET predicted == [k \in DOMAIN objects |-> Predict(objects[k])]
       IN  \A b \in Injection(DOMAIN assignments', DOMAIN assignments') :
             PairedDistance(scene', predicted, assignments') <= PairedDistance(scene', predicted, b)]_vars
===============================================================================
