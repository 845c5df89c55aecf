SPECIFICATION FairSpec
CONSTANTS
  Threads = {t1, t2, t3, t4, t5}
  MaxLocks = 3
  MaxHeld = 1
INVARIANTS
  LocksAccounted
  SleepersHaveReason
PROPERTIES
  Kept
  AllServed
