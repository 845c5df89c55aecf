----------------------------- MODULE ReadersWriter -----------------------------
(***************************************************************************)
(* What read_write_mutex_extension_abstract.h promises of a mutex with     *)
(* readonly locks: up to MaxLocks readers, or one writer, never both.      *)
(***************************************************************************)
EXTENDS Integers

CONSTANTS Threads, MaxLocks, MaxHeld

VARIABLES
  free,      \* the readonly locks that are left
  reading,   \* the readonly locks that are taken, as pairs <<thread, number>>
  writing    \* the threads that have the write lock

vars == <<free, reading, writing>>

Init == free = MaxLocks /\ reading = {} /\ writing = {}

LockReadonly(t) ==
  /\ writing = {} /\ free > 0
  /\ free' = free - 1
  /\ \E k \in 1 .. MaxHeld : <<t, k>> \notin reading /\ reading' = reading \cup {<<t, k>>}
  /\ UNCHANGED writing

UnlockReadonly(t) ==
  /\ free' = free + 1
  /\ \E l \in reading : l[1] = t /\ reading' = reading \ {l}
  /\ UNCHANGED writing

Lock(t) == writing = {} /\ reading = {} /\ writing' = {t} /\ UNCHANGED <<free, reading>>

Unlock(t) == t \in writing /\ writing' = {} /\ UNCHANGED <<free, reading>>

Next == \E t \in Threads : LockReadonly(t) \/ UnlockReadonly(t) \/ Lock(t) \/ Unlock(t)

Spec == Init /\ [][Next]_vars
===============================================================================
