-------------------------- MODULE ReadWriteMutexProofs -------------------------
(***************************************************************************)
(* The read-write mutex of dlib, for any number of threads, of locks, and  *)
(* of readonly locks per thread.                                           *)
(***************************************************************************)
EXTENDS ReadWriteMutex, FiniteSetTheorems, TLAPS

(* Who gathers has set write_lock_in_progress, what it has obtained is a    *)
(* local variable of lock(), and the write lock belongs to one thread.      *)
WritersAgree ==
  /\ write_lock_in_progress = (Gatherers # {})
  /\ \A t \in Threads : pc[t] # "gather" => locks_obtained[t] = 0
  /\ IF write_lock_active THEN \E t \in Threads : writing = {t} ELSE writing = {}

(* The inductive invariant.                                                 *)
MutexInv == TypeOK /\ WritersAgree /\ LocksAccounted /\ SleepersHaveReason

-------------------------------------------------------------------------------
(* The readonly locks can be counted.                                       *)
LEMMA ReadingFinite ==
  ASSUME TypeOK
  PROVE  IsFiniteSet(reading) /\ Cardinality(reading) \in Nat
<1>1. IsFiniteSet(1 .. MaxHeld)
  BY ReadWriteMutexAssumption, FS_Interval
<1>2. IsFiniteSet(Threads \X (1 .. MaxHeld))
  BY <1>1, ReadWriteMutexAssumption, FS_Product
<1>3. reading \in SUBSET (Threads \X (1 .. MaxHeld))
  BY DEF TypeOK
<1> QED
  BY <1>2, <1>3, FS_Subset, FS_CardinalityType

(* The count after a lock was given or given back.                          *)
LEMMA OneMoreReads ==
  ASSUME TypeOK, NEW t \in Threads, GivenTo(t)
  PROVE  /\ Cardinality(reading') = Cardinality(reading) + 1
         /\ reading' \subseteq Threads \X (1 .. MaxHeld)
<1>1. PICK k \in 1 .. MaxHeld : <<t, k>> \notin reading /\ reading' = reading \cup {<<t, k>>}
  BY DEF GivenTo
<1>2. IsFiniteSet(reading)
  BY ReadingFinite
<1>3. Cardinality(reading') = Cardinality(reading) + 1
  BY <1>1, <1>2, FS_AddElement
<1> QED
  BY <1>1, <1>3 DEF TypeOK

LEMMA OneLessReads ==
  ASSUME TypeOK, NEW t \in Threads, NEW l \in Given(t), reading' = reading \ {l}
  PROVE  /\ Cardinality(reading') = Cardinality(reading) - 1
         /\ Cardinality(reading) > 0
         /\ reading' \subseteq Threads \X (1 .. MaxHeld)
<1>1. l \in reading /\ reading # {}
  BY DEF Given
<1>2. IsFiniteSet(reading) /\ Cardinality(reading) \in Nat
  BY ReadingFinite
<1>3. Cardinality(reading') = Cardinality(reading) - 1
  BY <1>1, <1>2, FS_RemoveElement
<1>4. Cardinality(reading) # 0
  BY <1>1, <1>2, FS_EmptySet
<1> QED
  BY <1>2, <1>3, <1>4 DEF TypeOK

LEMMA NobodyReads ==
  ASSUME TypeOK
  PROVE  Cardinality(reading) = 0 <=> reading = {}
BY ReadingFinite, FS_EmptySet

(* While there is a readonly lock, there is no write lock, and a lock is    *)
(* missing from max_locks: unlock_readonly sees it.                         *)
LEMMA ReaderIsSeen ==
  ASSUME MutexInv, reading # {}
  PROVE  ~write_lock_active /\ available_locks < MaxLocks
<1>1. Cardinality(reading) \in Nat /\ Cardinality(reading) # 0
  BY ReadingFinite, NobodyReads DEF MutexInv
<1>2. ~write_lock_active
  BY DEF MutexInv, LocksAccounted
<1>3. available_locks + Cardinality(reading) <= MaxLocks
  <2>1. CASE Gatherers = {}
    BY <1>1, <1>2, <2>1 DEF MutexInv, LocksAccounted, TypeOK
  <2>2. CASE Gatherers # {}
    <3>1. PICK t \in Gatherers : TRUE
      BY <2>2
    <3>2. available_locks + Cardinality(reading) + locks_obtained[t] = MaxLocks
      BY <1>2, <3>1 DEF MutexInv, LocksAccounted
    <3>3. locks_obtained[t] \in 0 .. MaxLocks /\ available_locks \in 0 .. MaxLocks
      BY <3>1 DEF MutexInv, TypeOK, Gatherers
    <3> QED
      BY <1>1, <3>2, <3>3, ReadWriteMutexAssumption
  <2> QED
    BY <2>1, <2>2
<1>4. available_locks \in 0 .. MaxLocks /\ MaxLocks \in Nat
  BY ReadWriteMutexAssumption DEF MutexInv, TypeOK
<1> QED
  BY <1>1, <1>2, <1>3, <1>4

(* unlock_readonly sees nothing when there is nothing, unless a writer      *)
(* gathers.                                                                 *)
LEMMA NothingIsSeen ==
  ASSUME MutexInv, reading = {}, ~write_lock_in_progress
  PROVE  write_lock_active \/ available_locks = MaxLocks
<1>1. Gatherers = {}
  BY DEF MutexInv, WritersAgree
<1>2. Cardinality(reading) = 0
  BY NobodyReads DEF MutexInv
<1> QED
  BY <1>1, <1>2 DEF MutexInv, LocksAccounted, TypeOK

-------------------------------------------------------------------------------
LEMMA MutexInit == Init => MutexInv
<1> SUFFICES ASSUME Init PROVE MutexInv
  OBVIOUS
<1> USE ReadWriteMutexAssumption DEF Init
<1>1. Gatherers = {}
  BY DEF Gatherers
<1>2. Cardinality(reading) = 0
  BY FS_EmptySet
<1>3. TypeOK
  <2>1. available_locks \in 0 .. MaxLocks /\ locks_obtained \in [Threads -> 0 .. MaxLocks]
    OBVIOUS
  <2> QED
    BY <2>1 DEF TypeOK
<1>4. WritersAgree
  BY <1>1 DEF WritersAgree
<1>5. LocksAccounted
  BY <1>1, <1>2 DEF LocksAccounted
<1> QED
  BY <1>3, <1>4, <1>5 DEF MutexInv, SleepersHaveReason

(* A writer has n locks now: what it has obtained before and what it finds  *)
(* available.                                                               *)
LEMMA GatherKeeps ==
  ASSUME MutexInv, NEW t \in Threads, NEW n \in 0 .. MaxLocks,
         Gatherers \subseteq {t}, t \notin asleep,
         write_lock_active => n = 0,
         ~write_lock_active => n + Cardinality(reading) = MaxLocks,
         Gather(t, n)
  PROVE  MutexInv'
<1> USE ReadWriteMutexAssumption DEF MutexInv
<1>0. /\ available_locks' = 0 /\ reading' = reading
      /\ Cardinality(reading') = Cardinality(reading) /\ Cardinality(reading) \in Nat
  BY ReadingFinite DEF Gather
<1>1. CASE AllGathered(n)
  <2>1. /\ write_lock_in_progress' = FALSE /\ write_lock_active' = TRUE
        /\ locks_obtained' = [locks_obtained EXCEPT ![t] = 0]
        /\ pc' = [pc EXCEPT ![t] = "idle"]
        /\ writing' = writing \cup {t} /\ asleep' = asleep
    BY <1>1 DEF Gather
  <2>2. ~write_lock_active /\ Cardinality(reading) = 0
    BY <1>0, <1>1 DEF AllGathered
  <2>3. reading = {} /\ writing = {}
    BY <2>2, NobodyReads DEF WritersAgree
  <2>4. Gatherers' = {}
    BY <2>1 DEF Gatherers, TypeOK
  <2>5. \A u \in Threads : locks_obtained'[u] = 0
    BY <2>1 DEF WritersAgree, Gatherers, TypeOK
  <2>6. t \notin asleep'
    BY <2>1
  <2>7. TypeOK'
    <3>1. locks_obtained' \in [Threads -> 0 .. MaxLocks] /\ available_locks' \in 0 .. MaxLocks
      BY <1>0, <2>1 DEF TypeOK
    <3>2. pc' \in [Threads -> {"idle", "turn", "gather", "read"}]
      BY <2>1 DEF TypeOK
    <3>3. asleep' \subseteq {u \in Threads : pc'[u] # "idle"}
      BY <2>1, <2>6 DEF TypeOK
    <3> QED
      BY <1>0, <2>1, <3>1, <3>2, <3>3 DEF TypeOK
  <2>8. WritersAgree'
    BY <2>1, <2>3, <2>4, <2>5 DEF WritersAgree
  <2>9. LocksAccounted'
    BY <1>0, <2>1, <2>3, <2>4, <2>5 DEF LocksAccounted
  <2>10. SleepersHaveReason'
    BY <1>0, <2>1 DEF SleepersHaveReason
  <2> QED
    BY <2>7, <2>8, <2>9, <2>10
<1>2. CASE ~AllGathered(n)
  <2>1. /\ write_lock_in_progress' = TRUE /\ write_lock_active' = write_lock_active
        /\ locks_obtained' = [locks_obtained EXCEPT ![t] = n]
        /\ pc' = [pc EXCEPT ![t] = "gather"]
        /\ writing' = writing /\ asleep' = asleep \cup {t}
    BY <1>2 DEF Gather, WaitsAt
  <2>2. Gatherers' = {t}
    BY <2>1 DEF Gatherers, TypeOK
  <2>3. /\ locks_obtained'[t] = n
        /\ \A u \in Threads \ {t} : locks_obtained'[u] = 0
    BY <2>1 DEF WritersAgree, Gatherers, TypeOK
  <2>4. TypeOK'
    <3>1. locks_obtained' \in [Threads -> 0 .. MaxLocks] /\ available_locks' \in 0 .. MaxLocks
      BY <1>0, <2>1 DEF TypeOK
    <3>2. pc' \in [Threads -> {"idle", "turn", "gather", "read"}]
      BY <2>1 DEF TypeOK
    <3>3. asleep' \subseteq {u \in Threads : pc'[u] # "idle"}
      BY <2>1 DEF TypeOK
    <3> QED
      BY <1>0, <2>1, <3>1, <3>2, <3>3 DEF TypeOK
  <2>5. WritersAgree'
    <3>1. \A u \in Threads : pc'[u] # "gather" => locks_obtained'[u] = 0
      BY <2>2, <2>3 DEF Gatherers
    <3> QED
      BY <2>1, <2>2, <3>1 DEF WritersAgree
  <2>6. LocksAccounted'
    <3>1. write_lock_active => reading = {}
      BY DEF LocksAccounted
    <3> QED
      BY <1>0, <2>1, <2>2, <2>3, <3>1 DEF LocksAccounted
  <2>7. SleepersHaveReason'
    BY <1>0, <2>1 DEF SleepersHaveReason
  <2> QED
    BY <2>4, <2>5, <2>6, <2>7
<1> QED
  BY <1>1, <1>2

(* Nobody gathers: the locks that are not available are readonly locks.     *)
LEMMA BeginGatherKeeps ==
  ASSUME MutexInv, NEW t \in Threads, BeginGather(t)
  PROVE  MutexInv'
<1>1. ~write_lock_in_progress /\ Gather(t, available_locks)
  BY DEF BeginGather
<1>2. Gatherers = {}
  BY <1>1 DEF MutexInv, WritersAgree
<1>3. /\ available_locks \in 0 .. MaxLocks
      /\ write_lock_active => available_locks = 0
      /\ ~write_lock_active => available_locks + Cardinality(reading) = MaxLocks
  BY <1>2 DEF MutexInv, LocksAccounted, TypeOK
<1>4. t \notin asleep
  BY DEF BeginGather, MayLock, At, MutexInv, TypeOK
<1> QED
  BY <1>1, <1>2, <1>3, <1>4, GatherKeeps

(* The writer that gathers adds what it finds.                              *)
LEMMA GoOnGatheringKeeps ==
  ASSUME MutexInv, NEW t \in Threads, GoOnGathering(t)
  PROVE  MutexInv'
<1> DEFINE n == locks_obtained[t] + available_locks
<1>1. t \in Gatherers /\ t \notin asleep /\ Gather(t, n)
  BY DEF GoOnGathering, At, Gatherers
<1>2. Gatherers = {t}
  BY <1>1 DEF MutexInv, LocksAccounted
<1>3. available_locks \in 0 .. MaxLocks /\ locks_obtained[t] \in 0 .. MaxLocks
  BY DEF MutexInv, TypeOK
<1>4. Cardinality(reading) \in Nat
  BY ReadingFinite DEF MutexInv
<1>5. /\ write_lock_active => n = 0
      /\ ~write_lock_active => n + Cardinality(reading) = MaxLocks
  BY <1>1, <1>3, <1>4 DEF MutexInv, LocksAccounted
<1>6. n \in 0 .. MaxLocks
  BY <1>3, <1>4, <1>5, ReadWriteMutexAssumption
<1> HIDE DEF n
<1> QED
  BY <1>1, <1>2, <1>5, <1>6, GatherKeeps

-------------------------------------------------------------------------------
LEMMA AwaitTurnKeeps ==
  ASSUME MutexInv, NEW t \in Threads, AwaitTurn(t)
  PROVE  MutexInv'
<1> USE DEF MutexInv
<1>1. /\ UNCHANGED <<state, given>> /\ write_lock_in_progress
      /\ pc' = [pc EXCEPT ![t] = "turn"] /\ asleep' = asleep \cup {t}
      /\ pc[t] # "gather"
  BY DEF AwaitTurn, WaitsAt, MayLock, At
<1>2. Gatherers' = Gatherers
  BY <1>1 DEF Gatherers, TypeOK
<1>3. TypeOK'
  BY <1>1 DEF TypeOK, state, given
<1>4. WritersAgree'
  <2>1. \A u \in Threads : pc'[u] # "gather" => pc[u] # "gather"
    BY <1>1 DEF TypeOK
  <2> QED
    BY <1>1, <1>2, <2>1 DEF WritersAgree, state, given
<1>5. LocksAccounted'
  BY <1>1, <1>2 DEF LocksAccounted, state, given
<1>6. SleepersHaveReason'
  BY <1>1 DEF SleepersHaveReason, state, TypeOK
<1> QED
  BY <1>3, <1>4, <1>5, <1>6

LEMMA UnlockKeeps ==
  ASSUME MutexInv, NEW t \in Threads, Unlock(t)
  PROVE  MutexInv'
<1> USE DEF MutexInv
<1>1. /\ write_lock_active /\ ~write_lock_active' /\ available_locks' = MaxLocks
      /\ asleep' = {} /\ t \in writing /\ writing' = writing \ {t}
      /\ UNCHANGED <<write_lock_in_progress, locks_obtained, pc, reading>>
  BY DEF Unlock, TypeOK
<1>2. Gatherers' = Gatherers
  BY <1>1 DEF Gatherers
<1>3. TypeOK'
  <2>1. available_locks' \in 0 .. MaxLocks
    BY <1>1, ReadWriteMutexAssumption
  <2>2. write_lock_active' = FALSE
    BY DEF Unlock
  <2> QED
    BY <1>1, <2>1, <2>2 DEF TypeOK
<1>4. WritersAgree'
  <2>1. writing' = {}
    BY <1>1 DEF WritersAgree
  <2> QED
    BY <1>1, <1>2, <2>1 DEF WritersAgree
<1>5. LocksAccounted'
  <2>1. Cardinality(reading) = 0 /\ \A u \in Threads : locks_obtained[u] = 0
    BY <1>1, NobodyReads DEF LocksAccounted
  <2> QED
    BY <1>1, <1>2, <2>1, ReadWriteMutexAssumption DEF LocksAccounted, Gatherers
<1>6. SleepersHaveReason'
  BY <1>1 DEF SleepersHaveReason
<1> QED
  BY <1>3, <1>4, <1>5, <1>6

LEMMA LockReadonlyWaitsKeeps ==
  ASSUME MutexInv, NEW t \in Threads, LockReadonlyWaits(t)
  PROVE  MutexInv'
<1> USE DEF MutexInv
<1>1. /\ UNCHANGED <<state, given>> /\ available_locks = 0
      /\ pc' = [pc EXCEPT ![t] = "read"] /\ asleep' = asleep \cup {t}
      /\ pc[t] # "gather"
  BY DEF LockReadonlyWaits, WaitsAt, MayRead, At
<1>2. Gatherers' = Gatherers
  BY <1>1 DEF Gatherers, TypeOK
<1>3. TypeOK'
  BY <1>1 DEF TypeOK, state, given
<1>4. WritersAgree'
  <2>1. \A u \in Threads : pc'[u] # "gather" => pc[u] # "gather"
    BY <1>1 DEF TypeOK
  <2> QED
    BY <1>1, <1>2, <2>1 DEF WritersAgree, state, given
<1>5. LocksAccounted'
  BY <1>1, <1>2 DEF LocksAccounted, state, given
<1>6. SleepersHaveReason'
  BY <1>1 DEF SleepersHaveReason, state, TypeOK
<1> QED
  BY <1>3, <1>4, <1>5, <1>6

LEMMA LockReadonlyKeeps ==
  ASSUME MutexInv, NEW t \in Threads, LockReadonly(t)
  PROVE  MutexInv'
<1> USE DEF MutexInv
<1>1. /\ available_locks # 0 /\ available_locks' = available_locks - 1
      /\ pc' = [pc EXCEPT ![t] = "idle"] /\ pc[t] # "gather" /\ t \notin asleep
      /\ UNCHANGED <<write_lock_in_progress, write_lock_active, locks_obtained, asleep, writing>>
  BY DEF LockReadonly, MayRead, At, TypeOK
<1>2. /\ Cardinality(reading') = Cardinality(reading) + 1
      /\ reading' \subseteq Threads \X (1 .. MaxHeld)
  BY OneMoreReads DEF LockReadonly
<1>3. Cardinality(reading) \in Nat /\ available_locks \in 0 .. MaxLocks
  BY ReadingFinite DEF TypeOK
<1>4. Gatherers' = Gatherers
  BY <1>1 DEF Gatherers, TypeOK
<1>5. ~write_lock_active
  BY <1>1 DEF LocksAccounted
<1>6. TypeOK'
  <2>1. available_locks' \in 0 .. MaxLocks
    BY <1>1, <1>3, ReadWriteMutexAssumption
  <2>2. pc' \in [Threads -> {"idle", "turn", "gather", "read"}]
    BY <1>1 DEF TypeOK
  <2>3. asleep' \subseteq {u \in Threads : pc'[u] # "idle"}
    BY <1>1 DEF TypeOK
  <2> QED
    BY <1>1, <1>2, <2>1, <2>2, <2>3 DEF TypeOK
<1>7. WritersAgree'
  <2>1. \A u \in Threads : pc'[u] # "gather" => pc[u] # "gather"
    BY <1>1 DEF TypeOK
  <2> QED
    BY <1>1, <1>4, <2>1 DEF WritersAgree
<1>8. LocksAccounted'
  <2>1. Gatherers = {} => available_locks' + Cardinality(reading') = MaxLocks
    BY <1>1, <1>2, <1>3, <1>5 DEF LocksAccounted
  <2>2. ASSUME NEW u \in Gatherers
        PROVE  /\ Gatherers = {u}
               /\ available_locks' + Cardinality(reading') + locks_obtained[u] = MaxLocks
    <3>1. locks_obtained[u] \in 0 .. MaxLocks
      BY DEF Gatherers, TypeOK
    <3>2. Gatherers = {u} /\ available_locks + Cardinality(reading) + locks_obtained[u] = MaxLocks
      BY <1>5 DEF LocksAccounted
    <3> QED
      BY <1>1, <1>2, <1>3, <3>1, <3>2
  <2> QED
    BY <1>1, <1>4, <1>5, <2>1, <2>2 DEF LocksAccounted
<1>9. SleepersHaveReason'
  <2>1. \A u \in asleep : pc'[u] = pc[u]
    BY <1>1 DEF TypeOK
  <2> QED
    BY <1>1, <2>1 DEF SleepersHaveReason
<1> QED
  BY <1>6, <1>7, <1>8, <1>9

(* A wake-up is left out only if nobody sleeps who could go on: the lock is *)
(* not the first one that is free, so no reader sleeps.                     *)
LEMMA UnlockReadonlyKeeps ==
  ASSUME MutexInv, NEW t \in Threads, UnlockReadonly(t)
  PROVE  MutexInv'
<1> USE DEF MutexInv
<1>1. PICK l \in Given(t) : reading' = reading \ {l}
  BY DEF UnlockReadonly
<1>2. /\ Cardinality(reading') = Cardinality(reading) - 1
      /\ Cardinality(reading) > 0
      /\ reading' \subseteq Threads \X (1 .. MaxHeld)
  BY <1>1, OneLessReads
<1>3. Cardinality(reading) \in Nat /\ available_locks \in 0 .. MaxLocks
  BY ReadingFinite DEF TypeOK
<1>4. ~write_lock_active /\ available_locks < MaxLocks
  BY <1>1, ReaderIsSeen DEF Given
<1>5. available_locks # MaxLocks
  BY <1>3, <1>4, ReadWriteMutexAssumption
<1>6. /\ available_locks' = available_locks + 1
      /\ asleep' = asleep \ WokenByUnlock(available_locks + 1)
      /\ UNCHANGED <<write_lock_in_progress, write_lock_active, locks_obtained, pc, writing>>
  BY <1>4, <1>5 DEF UnlockReadonly, GiveBack
<1>7. Gatherers' = Gatherers
  BY <1>6 DEF Gatherers
<1>8. TypeOK'
  <2>1. available_locks' \in 0 .. MaxLocks
    BY <1>3, <1>4, <1>6, ReadWriteMutexAssumption
  <2> QED
    BY <1>2, <1>6, <2>1 DEF TypeOK
<1>9. WritersAgree'
  BY <1>6, <1>7 DEF WritersAgree
<1>10. LocksAccounted'
  <2>1. Gatherers = {} => available_locks' + Cardinality(reading') = MaxLocks
    BY <1>2, <1>3, <1>4, <1>6 DEF LocksAccounted
  <2>2. ASSUME NEW u \in Gatherers
        PROVE  /\ Gatherers = {u}
               /\ available_locks' + Cardinality(reading') + locks_obtained[u] = MaxLocks
    <3>1. locks_obtained[u] \in 0 .. MaxLocks
      BY DEF Gatherers, TypeOK
    <3>2. Gatherers = {u} /\ available_locks + Cardinality(reading) + locks_obtained[u] = MaxLocks
      BY <1>4 DEF LocksAccounted
    <3> QED
      BY <1>2, <1>3, <1>6, <3>1, <3>2
  <2> QED
    BY <1>4, <1>6, <1>7, <2>1, <2>2 DEF LocksAccounted
<1>11. SleepersHaveReason'
  <2>1. CASE available_locks + 1 = 1 \/ write_lock_in_progress
    BY <1>6, <2>1 DEF WokenByUnlock, SleepersHaveReason
  <2>2. CASE ~(available_locks + 1 = 1 \/ write_lock_in_progress)
    <3>1. asleep' = asleep /\ available_locks # 0
      BY <1>3, <1>6, <2>2 DEF WokenByUnlock
    <3> QED
      BY <1>6, <3>1 DEF SleepersHaveReason
  <2> QED
    BY <2>1, <2>2
<1> QED
  BY <1>8, <1>9, <1>10, <1>11

(* There is nothing to give back, and the code sees that.                   *)
LEMMA UnlockNothingKeeps ==
  ASSUME MutexInv, NEW t \in Threads, UnlockNothing(t)
  PROVE  UNCHANGED vars
<1>1. write_lock_active \/ available_locks = MaxLocks
  BY NothingIsSeen DEF UnlockNothing
<1> QED
  BY <1>1 DEF UnlockNothing, GiveBack, vars, state, given

LEMMA SpuriousWakeupKeeps ==
  ASSUME MutexInv, NEW t \in Threads, SpuriousWakeup(t)
  PROVE  MutexInv'
<1> USE DEF MutexInv
<1>1. UNCHANGED <<state, pc, given>> /\ asleep' \subseteq asleep
  BY DEF SpuriousWakeup
<1>2. Gatherers' = Gatherers
  BY <1>1 DEF Gatherers
<1> QED
  BY <1>1, <1>2
  DEF TypeOK, WritersAgree, LocksAccounted, SleepersHaveReason, state, given

LEMMA StutterKeeps ==
  ASSUME MutexInv, UNCHANGED vars
  PROVE  MutexInv'
<1>1. Gatherers' = Gatherers
  BY DEF Gatherers, vars
<1> QED
  BY <1>1
  DEF MutexInv, TypeOK, WritersAgree, LocksAccounted, SleepersHaveReason, vars, state, given

LEMMA MutexNext == MutexInv /\ [Next]_vars => MutexInv'
<1> SUFFICES ASSUME MutexInv, [Next]_vars PROVE MutexInv'
  OBVIOUS
<1>1. CASE UNCHANGED vars
  BY <1>1, StutterKeeps
<1>2. ASSUME NEW t \in Threads, Locks(t)
      PROVE  MutexInv'
  BY <1>2, AwaitTurnKeeps, BeginGatherKeeps, GoOnGatheringKeeps DEF Locks
<1>3. ASSUME NEW t \in Threads, Reads(t)
      PROVE  MutexInv'
  BY <1>3, LockReadonlyWaitsKeeps, LockReadonlyKeeps DEF Reads
<1>4. ASSUME NEW t \in Threads, Gives(t)
      PROVE  MutexInv'
  BY <1>4, UnlockKeeps, UnlockReadonlyKeeps DEF Gives
<1>5. ASSUME NEW t \in Threads, UnlockNothing(t)
      PROVE  MutexInv'
  BY <1>5, UnlockNothingKeeps, StutterKeeps
<1>6. ASSUME NEW t \in Threads, SpuriousWakeup(t)
      PROVE  MutexInv'
  BY <1>6, SpuriousWakeupKeeps
<1> QED
  BY <1>1, <1>2, <1>3, <1>4, <1>5, <1>6 DEF Next

-------------------------------------------------------------------------------
(* Which step of the promise each step is.                                  *)

(* A writer that has gathered all locks finds neither readers nor a writer. *)
LEMMA GatherIsLock ==
  ASSUME MutexInv, NEW t \in Threads, NEW n \in 0 .. MaxLocks,
         write_lock_active => n = 0,
         ~write_lock_active => n + Cardinality(reading) = MaxLocks,
         Gather(t, n)
  PROVE  Promise!Lock(t) \/ UNCHANGED Promise!vars
<1>1. CASE AllGathered(n)
  <2>1. ~write_lock_active /\ Cardinality(reading) = 0
    BY <1>1, ReadingFinite, ReadWriteMutexAssumption DEF AllGathered, MutexInv
  <2>2. reading = {} /\ writing = {}
    BY <2>1, NobodyReads DEF MutexInv, WritersAgree
  <2> QED
    BY <1>1, <2>2 DEF Gather, Promise!Lock
<1>2. CASE ~AllGathered(n)
  BY <1>2 DEF Gather, Promise!vars
<1> QED
  BY <1>1, <1>2

LEMMA LocksIsLock ==
  ASSUME MutexInv, NEW t \in Threads, Locks(t)
  PROVE  Promise!Lock(t) \/ UNCHANGED Promise!vars
<1>1. CASE AwaitTurn(t)
  BY <1>1 DEF AwaitTurn, given, Promise!vars
<1>2. CASE BeginGather(t)
  <2>1. ~write_lock_in_progress /\ Gather(t, available_locks)
    BY <1>2 DEF BeginGather
  <2>2. Gatherers = {}
    BY <2>1 DEF MutexInv, WritersAgree
  <2> QED
    BY <2>1, <2>2, GatherIsLock DEF MutexInv, LocksAccounted, TypeOK
<1>3. CASE GoOnGathering(t)
  <2> DEFINE n == locks_obtained[t] + available_locks
  <2>1. t \in Gatherers /\ Gather(t, n)
    BY <1>3 DEF GoOnGathering, At, Gatherers
  <2>2. /\ available_locks \in 0 .. MaxLocks /\ locks_obtained[t] \in 0 .. MaxLocks
        /\ Cardinality(reading) \in Nat
    BY ReadingFinite DEF MutexInv, TypeOK
  <2>3. /\ write_lock_active => n = 0
        /\ ~write_lock_active => n + Cardinality(reading) = MaxLocks
    BY <2>1, <2>2 DEF MutexInv, LocksAccounted
  <2>4. n \in 0 .. MaxLocks
    BY <2>2, <2>3, ReadWriteMutexAssumption
  <2> HIDE DEF n
  <2> QED
    BY <2>1, <2>3, <2>4, GatherIsLock
<1> QED
  BY <1>1, <1>2, <1>3 DEF Locks

(* A lock that is available is one that no reader has.                      *)
LEMMA ReadsIsLockReadonly ==
  ASSUME MutexInv, NEW t \in Threads, Reads(t)
  PROVE  Promise!LockReadonly(t) \/ UNCHANGED Promise!vars
<1>1. CASE LockReadonlyWaits(t)
  BY <1>1 DEF LockReadonlyWaits, given, Promise!vars
<1>2. CASE LockReadonly(t)
  <2>1. available_locks # 0 /\ GivenTo(t) /\ UNCHANGED writing
    BY <1>2 DEF LockReadonly
  <2>2. /\ available_locks \in 0 .. MaxLocks /\ MaxLocks \in Nat
        /\ Cardinality(reading) \in Nat
    BY ReadingFinite, ReadWriteMutexAssumption DEF MutexInv, TypeOK
  <2>3. ~write_lock_active /\ writing = {}
    BY <2>1 DEF MutexInv, LocksAccounted, WritersAgree
  <2>4. Cardinality(reading) < MaxLocks
    <3>1. CASE Gatherers = {}
      BY <2>1, <2>2, <2>3, <3>1 DEF MutexInv, LocksAccounted
    <3>2. CASE Gatherers # {}
      <4>1. PICK u \in Gatherers : TRUE
        BY <3>2
      <4>2. available_locks + Cardinality(reading) + locks_obtained[u] = MaxLocks
        BY <2>3, <4>1 DEF MutexInv, LocksAccounted
      <4>3. locks_obtained[u] \in 0 .. MaxLocks
        BY <4>1 DEF MutexInv, TypeOK, Gatherers
      <4> QED
        BY <2>1, <2>2, <4>2, <4>3
    <3> QED
      BY <3>1, <3>2
  <2>5. Cardinality(reading') = Cardinality(reading) + 1
    BY <2>1, OneMoreReads DEF MutexInv
  <2> QED
    BY <2>1, <2>2, <2>3, <2>4, <2>5 DEF GivenTo, Promise!LockReadonly
<1> QED
  BY <1>1, <1>2 DEF Reads

LEMMA GivesIsUnlock ==
  ASSUME MutexInv, NEW t \in Threads, Gives(t)
  PROVE  Promise!Unlock(t) \/ Promise!UnlockReadonly(t)
<1>1. CASE Unlock(t)
  <2>1. write_lock_active /\ t \in writing /\ writing' = writing \ {t} /\ UNCHANGED reading
    BY <1>1 DEF Unlock
  <2>2. writing' = {}
    BY <2>1 DEF MutexInv, WritersAgree
  <2> QED
    BY <2>1, <2>2 DEF Promise!Unlock
<1>2. CASE UnlockReadonly(t)
  <2>1. PICK l \in Given(t) : reading' = reading \ {l}
    BY <1>2 DEF UnlockReadonly
  <2>2. Cardinality(reading') = Cardinality(reading) - 1 /\ Cardinality(reading) \in Nat
    BY <2>1, OneLessReads, ReadingFinite DEF MutexInv
  <2>3. UNCHANGED writing
    BY <1>2 DEF UnlockReadonly
  <2> QED
    BY <2>1, <2>2, <2>3, ReadWriteMutexAssumption DEF Given, Promise!UnlockReadonly
<1> QED
  BY <1>1, <1>2 DEF Gives

LEMMA MutexStepKept == MutexInv /\ [Next]_vars => [Promise!Next]_(Promise!vars)
<1> SUFFICES ASSUME MutexInv, [Next]_vars PROVE [Promise!Next]_(Promise!vars)
  OBVIOUS
<1>1. CASE UNCHANGED vars
  BY <1>1 DEF vars, given, Promise!vars
<1>2. ASSUME NEW t \in Threads, Locks(t) \/ Reads(t) \/ Gives(t)
      PROVE  [Promise!Next]_(Promise!vars)
  BY <1>2, LocksIsLock, ReadsIsLockReadonly, GivesIsUnlock DEF Promise!Next
<1>3. ASSUME NEW t \in Threads, UnlockNothing(t)
      PROVE  UNCHANGED Promise!vars
  BY <1>3 DEF UnlockNothing, given, Promise!vars
<1>4. ASSUME NEW t \in Threads, SpuriousWakeup(t)
      PROVE  UNCHANGED Promise!vars
  BY <1>4 DEF SpuriousWakeup, given, Promise!vars
<1> QED
  BY <1>1, <1>2, <1>3, <1>4 DEF Next

-------------------------------------------------------------------------------
(***************************************************************************)
(* The inductive invariant of the mutex, whatever its threads do but for   *)
(* the call that UnlockNothing leaves out.                                 *)
(***************************************************************************)
THEOREM MutexInvariant == Spec => []MutexInv
BY MutexInit, MutexNext, PTL DEF Spec

(***************************************************************************)
(* The mutex is type correct: the unsigned available_locks never wraps,    *)
(* neither below zero nor above max_locks.                                 *)
(***************************************************************************)
THEOREM MutexTyped == Spec => []TypeOK
<1>1. MutexInv => TypeOK
  BY DEF MutexInv
<1> QED
  BY <1>1, MutexInvariant, PTL

(***************************************************************************)
(* Every lock is available, with a reader, or with a writer, through all   *)
(* interleavings of a gathering writer with readers (lines 84-100).        *)
(***************************************************************************)
THEOREM MutexLocks == Spec => []LocksAccounted
<1>1. MutexInv => LocksAccounted
  BY DEF MutexInv
<1> QED
  BY <1>1, MutexInvariant, PTL

(***************************************************************************)
(* No wake-up is lost, however few unlock_readonly sends (lines 142-146).  *)
(***************************************************************************)
THEOREM MutexSleepers == Spec => []SleepersHaveReason
<1>1. MutexInv => SleepersHaveReason
  BY DEF MutexInv
<1> QED
  BY <1>1, MutexInvariant, PTL

(***************************************************************************)
(* Many readers or one writer: the mutex implements ReadersWriter.         *)
(***************************************************************************)
THEOREM MutexKept == Spec => Kept
<1>1. Init => Promise!Init
  BY FS_EmptySet, ReadWriteMutexAssumption DEF Init, Promise!Init
<1> QED
  BY <1>1, MutexInvariant, MutexStepKept, PTL DEF Spec, Kept, Promise!Spec

===============================================================================
