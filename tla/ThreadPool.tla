------------------------------- MODULE ThreadPool ------------------------------
(***************************************************************************)
(* dlib/threads/thread_pool_extension: a fixed number of threads, as many  *)
(* slots for tasks, and tasks that add tasks of their own.  All state is   *)
(* guarded by the mutex m, so an action is what a thread does from the     *)
(* time it has m until it gives it up, by returning or by waiting on       *)
(* task_done_signaler or task_ready_signaler.                              *)
(*                                                                         *)
(* What a task does is the user's: it adds its tasks one after the other,  *)
(* waits for them, by their ids or for all of them, and ends.  So does the *)
(* program of a client; the last client shuts the pool down.               *)
(***************************************************************************)
EXTENDS Integers, FiniteSets, Sequences, SequencesExt

CONSTANTS
  Workers, Clients,
  Tasks, Children, Forgetful,   \* see ForkJoin
  Program,                      \* per client: the task that is its program
  ByIds                         \* the tasks that join with wait_for_task; the others
                                \* call wait_for_all_tasks

ASSUME ThreadPoolAssumption ==
  /\ IsFiniteSet(Workers) /\ IsFiniteSet(Clients) /\ Workers \cap Clients = {}
  /\ Children \in [Tasks -> Seq(Tasks)] /\ Forgetful \subseteq Tasks
  /\ Program \in [Clients -> Tasks]
  /\ ByIds \subseteq Tasks

Roots == {Program[c] : c \in Clients}

(* A task is one call of add_task: added once, by one task, or the program  *)
(* of one client; going back from a task to who added it ends at a program. *)
ASSUME TaskForest ==
  /\ \A c, d \in Clients : Program[c] = Program[d] => c = d
  /\ \A p, q \in Tasks : \A i \in DOMAIN Children[p], j \in DOMAIN Children[q] :
       Children[p][i] = Children[q][j] => p = q /\ i = j
  /\ \A p \in Tasks : \A i \in DOMAIN Children[p] : Children[p][i] \notin Roots
  /\ \A K \in SUBSET (Tasks \ Roots) : K # {} =>
       \E k \in K, p \in Tasks \ K : k \in ToSet(Children[p])

Threads == Workers \cup Clients
Size    == Cardinality(Workers)     \* tasks.size()
Slots   == 0 .. Size - 1

VARIABLES
  tasks,              \* per slot: task_id, is_being_processed, thread_id, next_task_id, task
  we_are_destructing,
  stack,              \* per thread: the tasks it is in, each with how many it added and awaited
  slot,               \* per worker: the slot of the task it executes, or -1
  id,                 \* per task: the id that add_task returned, or 0
  asleep,             \* the threads that wait on a signaler
  gone                \* the workers that have ended

vars == <<tasks, we_are_destructing, stack, slot, id, asleep, gone>>

Frame(k) == [task |-> k, added |-> 0, joined |-> 0]

Nobody == "nobody"

(* register_thread and start: every worker enters its id before it looks    *)
(* for a task.                                                              *)
Init ==
  /\ tasks = [i \in Slots |-> [task_id |-> 0, is_being_processed |-> FALSE, thread_id |-> Nobody,
                               next_task_id |-> 2, task |-> Nobody]]
  /\ we_are_destructing = FALSE
  /\ stack = [t \in Threads |-> IF t \in Clients THEN <<Frame(Program[t])>> ELSE <<>>]
  /\ slot = [w \in Workers |-> -1]
  /\ id = [k \in Tasks |-> 0]
  /\ asleep = {} /\ gone = {}

-------------------------------------------------------------------------------
IsEmpty(i) == tasks[i].task_id = 0
IsReady(i) == ~tasks[i].is_being_processed /\ ~IsEmpty(i)

EmptySlots == {i \in Slots : IsEmpty(i)}
ReadySlots == {i \in Slots : IsReady(i)}

First(slots) == CHOOSE i \in slots : \A j \in slots : i <= j

IsWorkerThread(t) == t \in Workers \/ Size = 0

NextTaskId(i) == tasks[i].next_task_id * Size + i

Awake(t) == t \notin asleep /\ t \notin gone

(* Who waits on a signaler: a worker without a task on task_ready_signaler, *)
(* everybody else on task_done_signaler.                                    *)
OnReadySig == {w \in asleep \cap Workers : stack[w] = <<>>}
OnDoneSig  == asleep \ OnReadySig

OneOf(threads) == IF threads = {} THEN {{}} ELSE {{t} : t \in threads}

Top(t) == Last(stack[t])

Executes(t) == Awake(t) /\ stack[t] # <<>>

MoreToAdd(t) == Top(t).added < Len(Children[Top(t).task])

NextChild(t) == Children[Top(t).task][Top(t).added + 1]

(* The task on top is one child further.                                    *)
Added(t) == [Top(t) EXCEPT !.added = @ + 1]

(* The stack of t with other frames instead of the top one.                 *)
WithTop(t, frames) == [stack EXCEPT ![t] = Front(@) \o frames]

(* add_task finds an empty slot.                                            *)
AddToSlot(t) ==
  /\ Executes(t) /\ MoreToAdd(t)
  /\ EmptySlots # {}
  /\ LET i == First(EmptySlots) IN
       /\ tasks' = [tasks EXCEPT ![i].task_id = NextTaskId(i), ![i].next_task_id = @ + 1,
                                 ![i].thread_id = t, ![i].task = NextChild(t)]
       /\ id' = [id EXCEPT ![NextChild(t)] = NextTaskId(i)]
  /\ stack' = WithTop(t, <<Added(t)>>)
  /\ \E woken \in OneOf(OnReadySig) : asleep' = asleep \ woken
  /\ UNCHANGED <<we_are_destructing, slot, gone>>

(* A worker finds none: it does the task in place, and returns the id 1.    *)
AddInPlace(t) ==
  /\ Executes(t) /\ MoreToAdd(t)
  /\ EmptySlots = {} /\ IsWorkerThread(t)
  /\ id' = [id EXCEPT ![NextChild(t)] = 1]
  /\ stack' = WithTop(t, <<Added(t), Frame(NextChild(t))>>)
  /\ UNCHANGED <<tasks, we_are_destructing, slot, asleep, gone>>

(* Anybody else waits for one.                                              *)
AddWaits(t) ==
  /\ Executes(t) /\ MoreToAdd(t)
  /\ EmptySlots = {} /\ ~IsWorkerThread(t)
  /\ asleep' = asleep \cup {t}
  /\ UNCHANGED <<tasks, we_are_destructing, stack, slot, id, gone>>

MoreToJoin(t) ==
  /\ Top(t).task \notin Forgetful
  /\ Top(t).joined < Len(Children[Top(t).task])

(* Mutated form: a task that nobody has begun is not waited for.            *)
TaskPendingIfBegun(k) ==
  Size # 0 /\ tasks[id[k] % Size].task_id = id[k] /\ tasks[id[k] % Size].is_being_processed

(* The condition of the loop in wait_for_task.                              *)
TaskPending(k) == Size # 0 /\ tasks[id[k] % Size].task_id = id[k]

WaitForTask(t) ==
  /\ Executes(t) /\ ~MoreToAdd(t) /\ MoreToJoin(t) /\ Top(t).task \in ByIds
  /\ \/ /\ TaskPending(Children[Top(t).task][Top(t).joined + 1])
        /\ asleep' = asleep \cup {t}
        /\ UNCHANGED stack
     \/ /\ ~TaskPending(Children[Top(t).task][Top(t).joined + 1])
        /\ stack' = WithTop(t, <<[Top(t) EXCEPT !.joined = @ + 1]>>)
        /\ UNCHANGED asleep
  /\ UNCHANGED <<tasks, we_are_destructing, slot, id, gone>>

(* Mutated form: whose task it is does not matter.                          *)
AnyPending(t) == \E i \in Slots : ~IsEmpty(i)

(* The condition of the loop in wait_for_all_tasks.                         *)
MinePending(t) == \E i \in Slots : ~IsEmpty(i) /\ tasks[i].thread_id = t

WaitForAllTasks(t) ==
  /\ Executes(t) /\ ~MoreToAdd(t) /\ MoreToJoin(t) /\ Top(t).task \notin ByIds
  /\ \/ /\ MinePending(t)
        /\ asleep' = asleep \cup {t}
        /\ UNCHANGED stack
     \/ /\ ~MinePending(t)
        /\ stack' = WithTop(t, <<[Top(t) EXCEPT !.joined = Len(Children[Top(t).task])]>>)
        /\ UNCHANGED asleep
  /\ UNCHANGED <<tasks, we_are_destructing, slot, id, gone>>

AtEnd(t) == Executes(t) /\ ~MoreToAdd(t) /\ ~MoreToJoin(t)

(* The end of a program, or of a task that was done in place.               *)
EndInPlace(t) ==
  /\ AtEnd(t) /\ (t \in Workers => Len(stack[t]) > 1)
  /\ stack' = WithTop(t, <<>>)
  /\ UNCHANGED <<tasks, we_are_destructing, slot, id, asleep, gone>>

-------------------------------------------------------------------------------
(* The threads of the pool.                                                 *)
Free(w) == Awake(w) /\ stack[w] = <<>>

(* Mutated form: the slot is not marked.                                    *)
BeingProcessedNot == FALSE

BeingProcessed == TRUE

TakeTask(w) ==
  /\ Free(w) /\ ReadySlots # {} /\ ~we_are_destructing
  /\ LET i == First(ReadySlots) IN
       /\ tasks' = [tasks EXCEPT ![i].is_being_processed = BeingProcessed]
       /\ stack' = [stack EXCEPT ![w] = <<Frame(tasks[i].task)>>]
       /\ slot' = [slot EXCEPT ![w] = i]
  /\ UNCHANGED <<we_are_destructing, id, asleep, gone>>

WorkerWaits(w) ==
  /\ Free(w) /\ ReadySlots = {} /\ ~we_are_destructing
  /\ asleep' = asleep \cup {w}
  /\ UNCHANGED <<tasks, we_are_destructing, stack, slot, id, gone>>

WorkerEnds(w) ==
  /\ Free(w) /\ we_are_destructing
  /\ gone' = gone \cup {w}
  /\ UNCHANGED <<tasks, we_are_destructing, stack, slot, id, asleep>>

(* Mutated form: one of those who wait is told.                             *)
DoneWakesOne == OneOf(OnDoneSig)

DoneWakes == {OnDoneSig}

EndTask(w) ==
  /\ w \in Workers /\ AtEnd(w) /\ Len(stack[w]) = 1
  /\ tasks' = [tasks EXCEPT ![slot[w]].is_being_processed = FALSE, ![slot[w]].task_id = 0,
                            ![slot[w]].task = Nobody]
  /\ stack' = [stack EXCEPT ![w] = <<>>]
  /\ slot' = [slot EXCEPT ![w] = -1]
  /\ \E woken \in DoneWakes : asleep' = asleep \ woken
  /\ UNCHANGED <<we_are_destructing, id, gone>>

-------------------------------------------------------------------------------
(* shutdown_pool, by a client when all programs are through.                *)
ProgramsOver == \A c \in Clients : stack[c] = <<>>

PoolBusy == EmptySlots # Slots

ShutdownWaits(c) ==
  /\ ProgramsOver /\ Awake(c) /\ ~we_are_destructing
  /\ PoolBusy
  /\ asleep' = asleep \cup {c}
  /\ UNCHANGED <<tasks, we_are_destructing, stack, slot, id, gone>>

Shutdown(c) ==
  /\ ProgramsOver /\ Awake(c) /\ ~we_are_destructing
  /\ ~PoolBusy
  /\ we_are_destructing' = TRUE
  /\ asleep' = asleep \ OnReadySig
  /\ UNCHANGED <<tasks, stack, slot, id, gone>>

(* wait() returns when all threads of the pool have ended.                  *)
Ended == we_are_destructing /\ gone = Workers /\ UNCHANGED vars

SpuriousWakeup(t) ==
  /\ t \in asleep
  /\ asleep' = asleep \ {t}
  /\ UNCHANGED <<tasks, we_are_destructing, stack, slot, id, gone>>

Work(t) ==
  \/ AddToSlot(t) \/ AddInPlace(t) \/ AddWaits(t)
  \/ WaitForTask(t) \/ WaitForAllTasks(t) \/ EndInPlace(t)
  \/ t \in Workers /\ (TakeTask(t) \/ WorkerWaits(t) \/ WorkerEnds(t) \/ EndTask(t))
  \/ t \in Clients /\ (ShutdownWaits(t) \/ Shutdown(t))

Next == (\E t \in Threads : Work(t) \/ SpuriousWakeup(t)) \/ Ended

Spec == Init /\ [][Next]_vars

(* A thread that does not sleep gets the mutex in the end.                  *)
FairSpec == Spec /\ \A t \in Threads : WF_vars(Work(t))

-------------------------------------------------------------------------------
In(k)    == {t \in Threads : \E n \in 1 .. Len(stack[t]) : stack[t][n].task = k}
Queued(k) == {i \in Slots : IsReady(i) /\ tasks[i].task = k}

TypeOK ==
  /\ \A i \in Slots : tasks[i].task \in Tasks \cup {Nobody} /\ tasks[i].thread_id \in Threads \cup {Nobody}
  /\ we_are_destructing \in BOOLEAN
  /\ \A t \in Threads : \A n \in 1 .. Len(stack[t]) : stack[t][n].task \in Tasks
  /\ \A w \in Workers : IF stack[w] = <<>> THEN slot[w] = -1 ELSE tasks[slot[w]].is_being_processed
  /\ \A w1, w2 \in Workers : slot[w1] = slot[w2] => slot[w1] = -1 \/ w1 = w2
  /\ asleep \subseteq Threads /\ gone \subseteq Workers

Status ==
  [k \in Tasks |->
     CASE In(k) # {} -> "running"
       [] Queued(k) # {} -> "added"
       [] In(k) = {} /\ Queued(k) = {} ->
            IF id[k] # 0 \/ k \in Roots THEN "done" ELSE "new"]

Promise == INSTANCE ForkJoin WITH status <- Status, closed <- we_are_destructing

(***************************************************************************)
(* Every task is executed once, by whoever; a join returns when what it    *)
(* waits for is done, although an id may be 1 and slots are used again;    *)
(* the pool is shut down when nothing is left (ForkJoin).                  *)
(***************************************************************************)
Kept == Promise!Spec

(***************************************************************************)
(* Nobody sleeps without a reason: a client that adds while all slots are  *)
(* taken, a join while what it waits for is pending, a shutdown while      *)
(* there are tasks, a worker while every ready task has a worker that is   *)
(* awake and comes for it, although add_task signals only one.             *)
(***************************************************************************)
SleepersHaveReason ==
  /\ OnReadySig # {} =>
       /\ ~we_are_destructing
       /\ Cardinality(ReadySlots) <= Cardinality({w \in Workers : Free(w)})
  /\ \A t \in OnDoneSig :
       IF stack[t] = <<>> THEN PoolBusy
       ELSE IF MoreToAdd(t) THEN EmptySlots = {}
       ELSE IF Top(t).task \notin ByIds THEN MinePending(t)
       ELSE TaskPending(Children[Top(t).task][Top(t).joined + 1])

(***************************************************************************)
(* Everything is done in the end, and the pool is shut down, although more *)
(* tasks wait for others than there are workers.  This asks one thing of   *)
(* the tasks: none that is added below a task of a worker that does not    *)
(* wait for its own may call wait_for_all_tasks.  What was left behind is  *)
(* still counted as added by that worker (lines 112-122); when the same    *)
(* worker takes it up, it waits for itself.                                *)
(***************************************************************************)
Untangled ==
  \E below \in SUBSET Tasks :
    /\ \A k \in (Forgetful \ Roots) \cup below : ToSet(Children[k]) \subseteq below
    /\ \A k \in below : k \in Forgetful \cup ByIds \/ Children[k] = <<>>

EverythingEnds == Untangled => <>(we_are_destructing /\ gone = Workers)
===============================================================================
