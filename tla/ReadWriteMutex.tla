---------------------------- MODULE ReadWriteMutex ----------------------------
(***************************************************************************)
(* dlib/threads/read_write_mutex_extension.h: a mutex with readonly locks. *)
(* A reader takes one of max_locks locks, a writer gathers all of them.    *)
(* All state is guarded by the mutex m, so an action is what a thread does *)
(* from the time it has m until it returns or waits on the signaler s.     *)
(***************************************************************************)
EXTENDS Integers, FiniteSets

CONSTANTS
  Threads,
  MaxLocks,    \* max_locks
  MaxHeld      \* the readonly locks that a thread takes at a time

ASSUME ReadWriteMutexAssumption ==
  /\ IsFiniteSet(Threads)
  /\ MaxLocks \in Nat \ {0}
  /\ MaxHeld \in Nat

VARIABLES
  available_locks, write_lock_in_progress, write_lock_active,
  locks_obtained,  \* per thread: the local variable of lock()
  pc,              \* per thread: "idle", or the loop it is in: "turn", "gather", "read"
  asleep,          \* the threads that wait on s
  reading,         \* the readonly locks that were given, as pairs <<thread, number>>
  writing          \* the threads that were given the write lock

state == <<available_locks, write_lock_in_progress, write_lock_active, locks_obtained>>
given == <<reading, writing>>
vars  == <<state, pc, asleep, given>>

Init ==
  /\ available_locks = MaxLocks
  /\ write_lock_in_progress = FALSE /\ write_lock_active = FALSE
  /\ locks_obtained = [t \in Threads |-> 0]
  /\ pc = [t \in Threads |-> "idle"]
  /\ asleep = {}
  /\ reading = {} /\ writing = {}

-------------------------------------------------------------------------------
Given(t) == {l \in reading : l[1] = t}

(* A thread in a loop that has the mutex again.                             *)
At(t, loop) == pc[t] = loop /\ t \notin asleep

WaitsAt(t, loop) ==
  /\ pc' = [pc EXCEPT ![t] = loop]
  /\ asleep' = asleep \cup {t}

MayLock(t) == pc[t] = "idle" /\ t \notin writing /\ Given(t) = {}

(* lock: another writer is gathering locks.                                 *)
AwaitTurn(t) ==
  /\ MayLock(t) \/ At(t, "turn")
  /\ write_lock_in_progress
  /\ WaitsAt(t, "turn")
  /\ UNCHANGED <<state, given>>

(* Mutated form: the locks of those who still read are not waited for.      *)
AllGatheredButOne(n) == n >= MaxLocks - 1

AllGathered(n) == n = MaxLocks

(* lock: the writer has n locks now, and waits for the rest.                *)
Gather(t, n) ==
  /\ available_locks' = 0
  /\ \/ /\ AllGathered(n)
        /\ write_lock_in_progress' = FALSE /\ write_lock_active' = TRUE
        /\ locks_obtained' = [locks_obtained EXCEPT ![t] = 0]
        /\ pc' = [pc EXCEPT ![t] = "idle"]
        /\ writing' = writing \cup {t}
        /\ UNCHANGED asleep
     \/ /\ ~AllGathered(n)
        /\ write_lock_in_progress' = TRUE
        /\ locks_obtained' = [locks_obtained EXCEPT ![t] = n]
        /\ WaitsAt(t, "gather")
        /\ UNCHANGED <<write_lock_active, writing>>
  /\ UNCHANGED reading

BeginGather(t) ==
  /\ MayLock(t) \/ At(t, "turn")
  /\ ~write_lock_in_progress
  /\ Gather(t, available_locks)

(* Mutated form: the locks gathered before are forgotten.                   *)
GatherAnew(t) == At(t, "gather") /\ Gather(t, available_locks)

GoOnGathering(t) == At(t, "gather") /\ Gather(t, locks_obtained[t] + available_locks)

(* unlock, which does something only if a write lock is active.             *)
Unlock(t) ==
  /\ pc[t] = "idle" /\ t \in writing
  /\ write_lock_active
  /\ available_locks' = MaxLocks /\ write_lock_active' = FALSE
  /\ asleep' = {}
  /\ writing' = writing \ {t}
  /\ UNCHANGED <<write_lock_in_progress, locks_obtained, pc, reading>>

MayRead(t) == pc[t] = "idle" /\ t \notin writing /\ \E k \in 1 .. MaxHeld : <<t, k>> \notin reading

(* A thread is given one more readonly lock.                                *)
GivenTo(t) == \E k \in 1 .. MaxHeld : <<t, k>> \notin reading /\ reading' = reading \cup {<<t, k>>}

LockReadonlyWaits(t) ==
  /\ MayRead(t) \/ At(t, "read")
  /\ available_locks = 0
  /\ WaitsAt(t, "read")
  /\ UNCHANGED <<state, given>>

LockReadonly(t) ==
  /\ MayRead(t) \/ At(t, "read")
  /\ available_locks # 0
  /\ available_locks' = available_locks - 1
  /\ pc' = [pc EXCEPT ![t] = "idle"]
  /\ GivenTo(t)
  /\ UNCHANGED <<write_lock_in_progress, write_lock_active, locks_obtained, asleep, writing>>

(* Mutated form: only a writer is told of a free lock.                      *)
WokenIfWriter(free) == IF write_lock_in_progress THEN asleep ELSE {}

(* Who is woken when that many locks are free.                              *)
WokenByUnlock(free) == IF free = 1 \/ write_lock_in_progress THEN asleep ELSE {}

(* unlock_readonly gives a lock back if it sees that one was taken.         *)
GiveBack ==
  IF available_locks # MaxLocks /\ ~write_lock_active
  THEN /\ available_locks' = available_locks + 1
       /\ asleep' = asleep \ WokenByUnlock(available_locks + 1)
  ELSE UNCHANGED <<available_locks, asleep>>

UnlockReadonly(t) ==
  /\ pc[t] = "idle"
  /\ GiveBack
  /\ \E l \in Given(t) : reading' = reading \ {l}
  /\ UNCHANGED <<write_lock_in_progress, write_lock_active, locks_obtained, pc, writing>>

(* unlock_readonly when there is no readonly lock.  Left out is the call    *)
(* while a writer gathers its locks: line 138 takes those for readonly      *)
(* locks, so that it would have an effect after all.                        *)
UnlockNothing(t) ==
  /\ pc[t] = "idle" /\ reading = {} /\ ~write_lock_in_progress
  /\ GiveBack
  /\ UNCHANGED <<write_lock_in_progress, write_lock_active, locks_obtained, pc, given>>

SpuriousWakeup(t) ==
  /\ t \in asleep
  /\ asleep' = asleep \ {t}
  /\ UNCHANGED <<state, pc, given>>

Locks(t)  == AwaitTurn(t) \/ BeginGather(t) \/ GoOnGathering(t)
Reads(t)  == LockReadonlyWaits(t) \/ LockReadonly(t)
Gives(t)  == Unlock(t) \/ UnlockReadonly(t)

Next == \E t \in Threads : Locks(t) \/ Reads(t) \/ Gives(t) \/ UnlockNothing(t) \/ SpuriousWakeup(t)

Spec == Init /\ [][Next]_vars

(* A thread that does not sleep gets the mutex in the end, and who has a    *)
(* lock gives it back.                                                      *)
FairSpec ==
  Spec /\ \A t \in Threads : WF_vars(pc[t] # "idle" /\ (Locks(t) \/ Reads(t))) /\ WF_vars(Gives(t))

-------------------------------------------------------------------------------
Gatherers == {t \in Threads : pc[t] = "gather"}

TypeOK ==
  /\ available_locks \in 0 .. MaxLocks
  /\ {write_lock_in_progress, write_lock_active} \subseteq BOOLEAN
  /\ locks_obtained \in [Threads -> 0 .. MaxLocks]
  /\ pc \in [Threads -> {"idle", "turn", "gather", "read"}]
  /\ asleep \subseteq {t \in Threads : pc[t] # "idle"}
  /\ reading \subseteq Threads \X (1 .. MaxHeld) /\ writing \subseteq Threads

(***************************************************************************)
(* Many readers or one writer: the mutex keeps the promise of              *)
(* ReadersWriter, from its count of locks alone.                           *)
(***************************************************************************)
Promise == INSTANCE ReadersWriter WITH free <- MaxLocks - Cardinality(reading)

Kept == Promise!Spec

(***************************************************************************)
(* No lock is lost or made up: but for a writer that has all of them, each *)
(* is available, with a reader, or with the one writer that gathers        *)
(* (CONVENTION, lines 23-40).                                              *)
(***************************************************************************)
LocksAccounted ==
  /\ write_lock_active =>
       available_locks = 0 /\ reading = {} /\ \A t \in Threads : locks_obtained[t] = 0
  /\ ~write_lock_active /\ Gatherers = {} =>
       available_locks + Cardinality(reading) = MaxLocks
  /\ \A t \in Gatherers :
       /\ Gatherers = {t}
       /\ ~write_lock_active =>
            available_locks + Cardinality(reading) + locks_obtained[t] = MaxLocks

(***************************************************************************)
(* Nobody sleeps without a reason, although unlock_readonly wakes others   *)
(* only when the first lock becomes free or a writer gathers (lines        *)
(* 142-146), and lock wakes nobody when it is through (lines 96-99).       *)
(***************************************************************************)
SleepersHaveReason ==
  \A t \in asleep :
    /\ pc[t] = "turn" => write_lock_in_progress \/ write_lock_active
    /\ pc[t] \in {"gather", "read"} => available_locks = 0

(***************************************************************************)
(* Nobody waits forever once no more locks are asked for: every lock comes *)
(* back to who waits for it.                                               *)
(***************************************************************************)
Asks == \E t \in Threads : pc[t] = "idle" /\ (Locks(t) \/ Reads(t))

AllServed == []<><<Asks>>_vars \/ <>[](\A t \in Threads : pc[t] = "idle")

===============================================================================
