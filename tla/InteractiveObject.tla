--------------------------- MODULE InteractiveObject ---------------------------
(***************************************************************************)
(* proc/InteractiveObject.cpp: a rectangle of the picture that a hand can  *)
(* press.  A hand inside activates the object; an object that was active   *)
(* for more than activationTime is counted, once until the hand leaves.    *)
(*                                                                         *)
(* The object is a record of the class's fields, its methods are operators *)
(* on the record.  Line numbers are those of proc/InteractiveObject.cpp.   *)
(***************************************************************************)
EXTENDS Integers

CONSTANTS
  StampMod,        \* a timestamp is an unsigned int: 2^32 in the code
  ActivationTime   \* activationTime (500 ms), in clock quanta

ASSUME ObjectAssumption ==
  /\ StampMod \in Nat \ {0}
  /\ ActivationTime \in 0 .. StampMod - 1

(* The fields that change: activeStamp, count, counted, active.             *)
Object ==
  [activeStamp : 0 .. StampMod - 1, count : Nat, counted : BOOLEAN, active : BOOLEAN]

(* The constructor (lines 3-11).                                            *)
NewObject == [activeStamp |-> 0, count |-> 0, counted |-> FALSE, active |-> FALSE]

(* Mutated form: the time is not cut to an unsigned int.                    *)
TimestampWide(clock) == clock

(* GetTimestamp: the wall clock in milliseconds, cut to the width of an     *)
(* unsigned int (lines 74-80).                                              *)
Timestamp(clock) == clock % StampMod

(* A difference of two unsigned ints.                                       *)
Minus(a, b) == (a - b) % StampMod

-------------------------------------------------------------------------------
(* A point strictly inside the rectangle, the border does not count (82-91).*)
IsInsider(rect, pt) ==
  /\ pt[1] > rect.x
  /\ pt[1] < rect.x + rect.width
  /\ pt[2] > rect.y
  /\ pt[2] < rect.y + rect.height

(* Has some hull a vertex inside?  A hull that covers the rectangle with no *)
(* vertex inside does not count (lines 14-22).                              *)
FoundInsider(rect, hulls) == \E hull \in hulls : \E pt \in hull : IsInsider(rect, pt)

-------------------------------------------------------------------------------
(* Mutated form: the object keeps being counted.                            *)
DeactivateHalf(o) == [o EXCEPT !.active = FALSE, !.activeStamp = 0]

(* Deactivate (lines 60-64).                                                *)
Deactivate(o) == [o EXCEPT !.active = FALSE, !.activeStamp = 0, !.counted = FALSE]

(* Mutated forms: the time is not tested; an inactive object is counted.    *)
OneMoreAtOnce(o, found, now) == o.active /\ found /\ ~o.counted

OneMoreInactive(o, found, now) ==
  /\ found
  /\ ~o.counted
  /\ Minus(now, o.activeStamp) > ActivationTime

(* What ProcessHulls returns, oneMore: the object is counted now (26-34).   *)
OneMore(o, found, now) ==
  /\ o.active
  /\ found
  /\ ~o.counted
  /\ Minus(now, o.activeStamp) > ActivationTime

(* Mutated form: the time stamp is renewed in every frame.                  *)
ProcessHullsRestamp(o, found, now) ==
  CASE o.active /\ ~found      -> Deactivate(o)
    [] OneMore(o, found, now)  -> [o EXCEPT !.count = @ + 1, !.counted = TRUE]
    [] found                   -> [o EXCEPT !.active = TRUE, !.activeStamp = now]
    [] OTHER                   -> o

(* The object after ProcessHulls (lines 13-43); found says whether a hull   *)
(* has a vertex inside, now is the timestamp.                               *)
ProcessHulls(o, found, now) ==
  CASE o.active /\ ~found      -> Deactivate(o)
    [] OneMore(o, found, now)  -> [o EXCEPT !.count = @ + 1, !.counted = TRUE]
    [] ~o.active /\ found      -> [o EXCEPT !.active = TRUE, !.activeStamp = now]
    [] OTHER                   -> o
===============================================================================
