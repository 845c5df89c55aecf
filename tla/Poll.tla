---------------------------------- MODULE Poll ----------------------------------
(***************************************************************************)
(* What a panel of boxes promises, with no frames, no camera and no order  *)
(* of processing: one box at most is held at a time, and holding a box for *)
(* longer than the activation time counts it, once.                        *)
(***************************************************************************)
EXTENDS Integers

CONSTANTS Boxes, None, ActivationTime

VARIABLES
  clock,      \* real time
  holder,     \* the box that is held, or None
  since,      \* since when it is held
  credited,   \* was this hold counted?
  tally       \* how often each box was counted

vars == <<clock, holder, since, credited, tally>>

Init ==
  /\ clock \in Nat
  /\ holder = None
  /\ since = 0
  /\ credited = FALSE
  /\ tally = [b \in Boxes |-> 0]

(* Nobody holds a box any more.                                             *)
Release ==
  /\ holder # None
  /\ holder' = None
  /\ since' = 0
  /\ credited' = FALSE
  /\ UNCHANGED <<clock, tally>>

(* Box b is touched while no box is held.                                   *)
Touch(b) ==
  /\ holder = None
  /\ holder' = b
  /\ since' = clock
  /\ credited' = FALSE
  /\ UNCHANGED <<clock, tally>>

(* The hand on the held box is withdrawn and another remains, on a box that *)
(* was touched later than the first.                                        *)
PassOn(b) ==
  /\ holder \notin {None, b}
  /\ holder' = b
  /\ since' \in since .. clock
  /\ credited' = FALSE
  /\ UNCHANGED <<clock, tally>>

(* The held box is counted.                                                 *)
Credit(b) ==
  /\ holder = b
  /\ ~credited
  /\ clock - since > ActivationTime
  /\ credited' = TRUE
  /\ tally' = [tally EXCEPT ![b] = @ + 1]
  /\ UNCHANGED <<clock, holder, since>>

Pass ==
  /\ clock' \in Nat
  /\ clock' > clock
  /\ UNCHANGED <<holder, since, credited, tally>>

Next == Release \/ Pass \/ \E b \in Boxes : Touch(b) \/ PassOn(b) \/ Credit(b)

Spec == Init /\ [][Next]_vars
===============================================================================
