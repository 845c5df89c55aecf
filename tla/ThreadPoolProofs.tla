--------------------------- MODULE ThreadPoolProofs ----------------------------
(***************************************************************************)
(* The pool of threads, at any number of workers, clients and tasks: types,*)
(* the order of slots, stacks and ids (PoolInv), sleepers that have a      *)
(* reason (SleepersHaveReason), and ForkJoin, which the pool implements.   *)
(*                                                                         *)
(* What a step does to the tasks is put as one of six effects (Queues,     *)
(* Begins, Joins, EndsInPlace, Takes, EndsTask): of each it is shown which *)
(* action has it, what it changes of what is running, waiting and known,   *)
(* that it keeps PoolInv, and which step of ForkJoin it is.                *)
(***************************************************************************)
EXTENDS ThreadPool, FiniteSetTheorems, WellFoundedInduction, TLAPS

(* The frames of a thread: the task, and how many it added and joined.      *)
Depth(t)       == Len(stack[t])
TaskAt(t, n)   == stack[t][n].task
AddedAt(t, n)  == stack[t][n].added
JoinedAt(t, n) == stack[t][n].joined
Kids(k) == DOMAIN Children[k]

(* A task runs on a stack, waits in a slot, or is over; it is known when it *)
(* was added.                                                               *)
Running(k) == \E t \in Threads : \E n \in 1 .. Depth(t) : TaskAt(t, n) = k
Waiting(k) == \E i \in Slots : IsReady(i) /\ tasks[i].task = k
Over(k)    == ~Running(k) /\ ~Waiting(k)
Known(k)   == k \in Roots \/ id[k] # 0

FrameSet == [task : Tasks, added : Nat, joined : Nat]
TaskState == [task_id : Nat, is_being_processed : BOOLEAN, thread_id : Threads \cup {Nobody},
              next_task_id : Nat, task : Tasks \cup {Nobody}]

(* The types.                                                               *)
PoolTyped ==
  /\ tasks \in [Slots -> TaskState]
  /\ we_are_destructing \in BOOLEAN
  /\ stack \in [Threads -> Seq(FrameSet)]
  /\ slot \in [Workers -> Slots \cup {-1}]
  /\ id \in [Tasks -> Nat]
  /\ asleep \subseteq Threads /\ gone \subseteq Workers

(* A slot that is not empty has a task, whose id tells the slot.            *)
SlotInv == \A i \in Slots :
  /\ tasks[i].next_task_id >= 2
  /\ IsEmpty(i) => ~tasks[i].is_being_processed
  /\ ~IsEmpty(i) => /\ tasks[i].task \in Tasks
                    /\ id[tasks[i].task] = tasks[i].task_id
                    /\ tasks[i].task_id % Size = i

(* A worker in a task and the slot that is marked belong together.          *)
WorkerInv ==
  /\ \A w \in Workers :
       IF Depth(w) = 0 THEN slot[w] = -1
       ELSE /\ slot[w] \in Slots /\ tasks[slot[w]].is_being_processed
            /\ tasks[slot[w]].task = TaskAt(w, 1)
  /\ \A w1, w2 \in Workers : slot[w1] = slot[w2] => slot[w1] = -1 \/ w1 = w2
  /\ \A i \in Slots : tasks[i].is_being_processed => \E w \in Workers : slot[w] = i
  /\ \A c \in Clients : Depth(c) > 0 => TaskAt(c, 1) = Program[c]

(* A frame of the task p, its a added and its x joined children.            *)
FrameOf(t, n, p, a, x) ==
  /\ x <= a /\ a <= Len(Children[p]) /\ Known(p)
  /\ n > 1 => AddedAt(t, n - 1) > 0 /\ p = Children[TaskAt(t, n - 1)][AddedAt(t, n - 1)]
  /\ \A j \in Kids(p) :
       /\ id[Children[p][j]] # 0 <=> j <= a
       /\ j <= x => Over(Children[p][j])
       /\ \A i \in Slots : ~IsEmpty(i) /\ tasks[i].task = Children[p][j] => tasks[i].thread_id = t

FrameInv == \A t \in Threads : \A n \in 1 .. Depth(t) : \A p \in Tasks : \A a, x \in Nat :
  p = TaskAt(t, n) /\ a = AddedAt(t, n) /\ x = JoinedAt(t, n) => FrameOf(t, n, p, a, x)

(* A task is in one frame, or in a slot for somebody to take it.            *)
OnceInv ==
  /\ \A t, u \in Threads : \A n \in 1 .. Depth(t), m \in 1 .. Depth(u) :
       TaskAt(t, n) = TaskAt(u, m) => t = u /\ n = m
  /\ \A k \in Tasks : ~(Running(k) /\ Waiting(k))

(* Of a task that nobody has begun, no child was added.                     *)
FreshInv == \A k \in Tasks : ~Known(k) \/ Waiting(k) => \A j \in Kids(k) : id[Children[k][j]] = 0

(* Of a task that is over, all were.                                        *)
EndedInv == \A k \in Tasks : Known(k) /\ Over(k) => \A j \in Kids(k) : id[Children[k][j]] # 0

PoolInv == PoolTyped /\ SlotInv /\ WorkerInv /\ FrameInv /\ OnceInv /\ FreshInv /\ EndedInv

-------------------------------------------------------------------------------
(* Stacks.                                                                  *)
LEMMA TopType ==
  ASSUME PoolTyped, NEW t \in Threads, stack[t] # <<>>
  PROVE  /\ Depth(t) \in Nat \ {0} /\ Top(t) = stack[t][Depth(t)] /\ Top(t) \in FrameSet
         /\ \A n \in 1 .. Depth(t) : stack[t][n] \in FrameSet
         /\ Front(stack[t]) \in Seq(FrameSet) /\ Len(Front(stack[t])) = Depth(t) - 1
         /\ \A n \in 1 .. Depth(t) - 1 : Front(stack[t])[n] = stack[t][n]
<1>1. stack[t] \in Seq(FrameSet)
  BY DEF PoolTyped
<1>2. PICK s \in Seq(FrameSet) : s = stack[t] /\ s # <<>>
  BY <1>1
<1>3. Len(s) \in Nat \ {0} /\ Last(s) \in FrameSet /\ \A n \in 1 .. Len(s) : s[n] \in FrameSet
  BY <1>2 DEF Last
<1>4. /\ Front(s) \in Seq(FrameSet) /\ Len(Front(s)) = Len(s) - 1
      /\ \A n \in 1 .. Len(s) - 1 : Front(s)[n] = s[n]
  BY <1>2, <1>3 DEF Front
<1> QED
  BY <1>2, <1>3, <1>4 DEF Top, Last, Depth

(* One frame for the top one.                                               *)
LEMMA TopReplaced ==
  ASSUME PoolTyped, NEW t \in Threads, stack[t] # <<>>, NEW f \in FrameSet,
         stack' = WithTop(t, <<f>>)
  PROVE  /\ stack' \in [Threads -> Seq(FrameSet)]
         /\ \A u \in Threads : Depth(u)' = Depth(u)
         /\ \A u \in Threads : \A m \in 1 .. Depth(u) :
              stack'[u][m] = IF u = t /\ m = Depth(t) THEN f ELSE stack[u][m]
<1>1. PICK s \in Seq(FrameSet), n \in Nat \ {0} :
        /\ s = Front(stack[t]) /\ n = Depth(t) /\ Len(s) = n - 1
        /\ \A m \in 1 .. n - 1 : s[m] = stack[t][m]
  BY TopType
<1>2. /\ s \o <<f>> \in Seq(FrameSet) /\ Len(s \o <<f>>) = n
      /\ \A m \in 1 .. n : (s \o <<f>>)[m] = IF m = n THEN f ELSE s[m]
  BY <1>1
<1>3. stack \in [Threads -> Seq(FrameSet)]
  BY DEF PoolTyped
<1>4. stack' = [stack EXCEPT ![t] = s \o <<f>>]
  BY <1>1 DEF WithTop
<1>5. /\ stack' \in [Threads -> Seq(FrameSet)] /\ stack'[t] = s \o <<f>>
      /\ \A u \in Threads : u # t => stack'[u] = stack[u]
  BY <1>2, <1>3, <1>4
<1>6. \A u \in Threads : Depth(u)' = Depth(u)
  BY <1>1, <1>2, <1>5 DEF Depth
<1>7. ASSUME NEW u \in Threads, NEW m \in 1 .. Depth(u)
      PROVE  stack'[u][m] = IF u = t /\ m = Depth(t) THEN f ELSE stack[u][m]
  <2>1. CASE u = t
    <3>1. m \in 1 .. n /\ (m # n => m \in 1 .. n - 1)
      BY <1>1, <2>1
    <3> QED
      BY <1>1, <1>2, <1>5, <2>1, <3>1
  <2>2. CASE u # t
    BY <1>5, <2>2
  <2> QED
    BY <2>1, <2>2
<1> QED
  BY <1>5, <1>6, <1>7

(* Two frames for the top one.                                              *)
LEMMA TopGrown ==
  ASSUME PoolTyped, NEW t \in Threads, stack[t] # <<>>, NEW f \in FrameSet, NEW g \in FrameSet,
         stack' = WithTop(t, <<f, g>>)
  PROVE  /\ stack' \in [Threads -> Seq(FrameSet)]
         /\ \A u \in Threads : Depth(u)' = IF u = t THEN Depth(t) + 1 ELSE Depth(u)
         /\ \A u \in Threads : \A m \in 1 .. Depth(u) :
              stack'[u][m] = IF u = t /\ m = Depth(t) THEN f ELSE stack[u][m]
         /\ stack'[t][Depth(t) + 1] = g
<1>1. PICK s \in Seq(FrameSet), n \in Nat \ {0} :
        /\ s = Front(stack[t]) /\ n = Depth(t) /\ Len(s) = n - 1
        /\ \A m \in 1 .. n - 1 : s[m] = stack[t][m]
  BY TopType
<1>2. /\ s \o <<f, g>> \in Seq(FrameSet) /\ Len(s \o <<f, g>>) = n + 1
      /\ \A m \in 1 .. n : (s \o <<f, g>>)[m] = IF m = n THEN f ELSE s[m]
      /\ (s \o <<f, g>>)[n + 1] = g
  BY <1>1
<1>3. stack \in [Threads -> Seq(FrameSet)]
  BY DEF PoolTyped
<1>4. stack' = [stack EXCEPT ![t] = s \o <<f, g>>]
  BY <1>1 DEF WithTop
<1>5. /\ stack' \in [Threads -> Seq(FrameSet)] /\ stack'[t] = s \o <<f, g>>
      /\ \A u \in Threads : u # t => stack'[u] = stack[u]
  BY <1>2, <1>3, <1>4
<1>6. \A u \in Threads : Depth(u)' = IF u = t THEN Depth(t) + 1 ELSE Depth(u)
  BY <1>1, <1>2, <1>5 DEF Depth
<1>7. ASSUME NEW u \in Threads, NEW m \in 1 .. Depth(u)
      PROVE  stack'[u][m] = IF u = t /\ m = Depth(t) THEN f ELSE stack[u][m]
  <2>1. CASE u = t
    <3>1. m \in 1 .. n /\ (m # n => m \in 1 .. n - 1)
      BY <1>1, <2>1
    <3> QED
      BY <1>1, <1>2, <1>5, <2>1, <3>1
  <2>2. CASE u # t
    BY <1>5, <2>2
  <2> QED
    BY <2>1, <2>2
<1> QED
  BY <1>1, <1>2, <1>5, <1>6, <1>7

(* The top frame is gone.                                                   *)
LEMMA TopGone ==
  ASSUME PoolTyped, NEW t \in Threads, stack[t] # <<>>, stack' = WithTop(t, <<>>)
  PROVE  /\ stack' \in [Threads -> Seq(FrameSet)]
         /\ \A u \in Threads : Depth(u)' = IF u = t THEN Depth(t) - 1 ELSE Depth(u)
         /\ \A u \in Threads : \A m \in 1 .. Depth(u)' : stack'[u][m] = stack[u][m]
<1>1. PICK s \in Seq(FrameSet), n \in Nat \ {0} :
        /\ s = Front(stack[t]) /\ n = Depth(t) /\ Len(s) = n - 1
        /\ \A m \in 1 .. n - 1 : s[m] = stack[t][m]
  BY TopType
<1>2. s \o << >> = s
  BY <1>1
<1>3. stack \in [Threads -> Seq(FrameSet)]
  BY DEF PoolTyped
<1>4. stack' = [stack EXCEPT ![t] = s]
  BY <1>1, <1>2 DEF WithTop
<1>5. /\ stack' \in [Threads -> Seq(FrameSet)] /\ stack'[t] = s
      /\ \A u \in Threads : u # t => stack'[u] = stack[u]
  BY <1>1, <1>3, <1>4
<1>6. \A u \in Threads : Depth(u)' = IF u = t THEN Depth(t) - 1 ELSE Depth(u)
  BY <1>1, <1>5 DEF Depth
<1> QED
  BY <1>1, <1>5, <1>6 DEF Depth

(* How many frames a thread has, and of what.                               *)
LEMMA DepthType ==
  ASSUME PoolTyped, NEW t \in Threads
  PROVE  /\ Depth(t) \in Nat /\ (Depth(t) = 0 <=> stack[t] = <<>>)
         /\ \A n \in 1 .. Depth(t) : /\ TaskAt(t, n) \in Tasks /\ AddedAt(t, n) \in Nat /\ JoinedAt(t, n) \in Nat
<1>1. stack[t] \in Seq(FrameSet)
  BY DEF PoolTyped
<1> QED
  <2>1. \A n \in 1 .. Len(stack[t]) : stack[t][n] \in FrameSet
    BY <1>1
  <2>2. Len(stack[t]) \in Nat /\ (Len(stack[t]) = 0 <=> stack[t] = <<>>)
    BY <1>1
  <2>3. \A f \in FrameSet : f.task \in Tasks /\ f.added \in Nat /\ f.joined \in Nat
    BY DEF FrameSet
  <2> QED
    BY <2>1, <2>2, <2>3 DEF Depth, TaskAt, AddedAt, JoinedAt

LEMMA DepthTypePrime ==
  ASSUME PoolTyped', NEW t \in Threads
  PROVE  Depth(t)' \in Nat /\ (Depth(t)' = 0 <=> stack'[t] = <<>>)
<1>1. stack'[t] \in Seq(FrameSet)
  BY DEF PoolTyped
<1> QED
  BY <1>1 DEF Depth

-------------------------------------------------------------------------------
(* What is added, and by whom.                                              *)
LEMMA ChildType ==
  ASSUME NEW k \in Tasks
  PROVE  /\ Children[k] \in Seq(Tasks) /\ Len(Children[k]) \in Nat /\ Kids(k) = 1 .. Len(Children[k])
         /\ \A j \in Kids(k) : Children[k][j] \in Tasks \ Roots
<1>1. Children[k] \in Seq(Tasks)
  BY ThreadPoolAssumption
<1>2. \A j \in Kids(k) : Children[k][j] \notin Roots
  BY TaskForest DEF Kids
<1> QED
  BY <1>1, <1>2 DEF Kids

(* A task has one parent and one place among its children.                  *)
LEMMA OneParent ==
  ASSUME NEW p \in Tasks, NEW q \in Tasks, NEW i \in Kids(p), NEW j \in Kids(q),
         Children[p][i] = Children[q][j]
  PROVE  p = q /\ i = j
  BY TaskForest DEF Kids

(* What the invariant says of a frame.                                      *)
LEMMA FrameFacts ==
  ASSUME PoolInv
  PROVE  \A t \in Threads : \A n \in 1 .. Depth(t) :
         /\ TaskAt(t, n) \in Tasks /\ AddedAt(t, n) \in Nat /\ JoinedAt(t, n) \in Nat
         /\ JoinedAt(t, n) <= AddedAt(t, n) /\ AddedAt(t, n) <= Len(Children[TaskAt(t, n)])
         /\ Known(TaskAt(t, n))
         /\ n > 1 => /\ AddedAt(t, n - 1) > 0
                     /\ TaskAt(t, n) = Children[TaskAt(t, n - 1)][AddedAt(t, n - 1)]
         /\ \A j \in Kids(TaskAt(t, n)) :
              /\ id[Children[TaskAt(t, n)][j]] # 0 <=> j <= AddedAt(t, n)
              /\ j <= JoinedAt(t, n) => Over(Children[TaskAt(t, n)][j])
              /\ \A i \in Slots : ~IsEmpty(i) /\ tasks[i].task = Children[TaskAt(t, n)][j] =>
                                  tasks[i].thread_id = t
<1> TAKE t \in Threads
<1> TAKE n \in 1 .. Depth(t)
<1>1. TaskAt(t, n) \in Tasks /\ AddedAt(t, n) \in Nat /\ JoinedAt(t, n) \in Nat
  BY DepthType DEF PoolInv
<1>2. PICK p \in Tasks, a \in Nat, x \in Nat : p = TaskAt(t, n) /\ a = AddedAt(t, n) /\ x = JoinedAt(t, n)
  BY <1>1
<1>3. FrameOf(t, n, p, a, x)
  BY <1>2 DEF PoolInv, FrameInv
<1> QED
  BY <1>2, <1>3 DEF FrameOf

(* The child that is added next: nothing was heard of it before.            *)
LEMMA NextChildNew ==
  ASSUME PoolInv, NEW t \in Threads, stack[t] # <<>>, MoreToAdd(t)
  PROVE  LET n == Depth(t)
             p == TaskAt(t, n)
             a == AddedAt(t, n)
             c == NextChild(t)
         IN  /\ n \in Nat \ {0} /\ p \in Tasks /\ a \in Nat /\ a + 1 \in Kids(p)
             /\ c = Children[p][a + 1] /\ c \in Tasks \ Roots
             /\ id[c] = 0 /\ ~Known(c) /\ Over(c)
<1>0. PICK n, p, a : n = Depth(t) /\ p = TaskAt(t, n) /\ a = AddedAt(t, n)
  OBVIOUS
<1>1. n \in Nat \ {0} /\ n \in 1 .. Depth(t) /\ p \in Tasks /\ a \in Nat
  BY <1>0, DepthType DEF PoolInv
<1>2. Top(t).task = p /\ Top(t).added = a
  BY <1>0, TopType DEF PoolInv, TaskAt, AddedAt
<1>3. a + 1 \in Kids(p) /\ NextChild(t) = Children[p][a + 1]
  BY <1>1, <1>2, ChildType DEF MoreToAdd, NextChild
<1>4. NextChild(t) \in Tasks \ Roots
  BY <1>1, <1>3, ChildType
<1>5. id[NextChild(t)] = 0
  <2>1. id[NextChild(t)] # 0 <=> a + 1 <= a
    BY <1>0, <1>1, <1>3, FrameFacts DEF PoolInv
  <2> QED
    BY <1>1, <2>1
<1>6. ~Known(NextChild(t))
  BY <1>4, <1>5 DEF Known
<1>7. ~Running(NextChild(t))
  BY <1>6, FrameFacts DEF Running, PoolInv
<1>8. ~Waiting(NextChild(t))
  BY <1>5 DEF Waiting, IsReady, IsEmpty, PoolInv, SlotInv
<1> QED
  BY <1>0, <1>1, <1>3, <1>4, <1>5, <1>6, <1>7, <1>8 DEF Over

-------------------------------------------------------------------------------
(* Slots.                                                                   *)
LEMMA SizeType == Size \in Nat /\ Slots \subseteq Nat /\ \A i \in Slots : i < Size /\ i % Size = i
<1>1. Size \in Nat
  BY ThreadPoolAssumption, FS_CardinalityType DEF Size
<1>2. \A i \in 0 .. Size - 1 : i \in Nat /\ i < Size /\ i % Size = i
  <2> HIDE DEF Size
  <2>1. PICK z \in Nat : z = Size
    BY <1>1
  <2>2. \A i \in 0 .. z - 1 : i \in Nat /\ i < z /\ i % z = i
    BY SMT
  <2> QED
    BY <2>1, <2>2
<1> QED
  BY <1>1, <1>2 DEF Slots

(* find_empty_task_slot and find_ready_task_slot find one if there is one.  *)
LEMMA FirstIsOne ==
  ASSUME NEW K \in SUBSET Slots, K # {}
  PROVE  First(K) \in K
<1> DEFINE R == {ss \in Nat \X Nat : ss[1] < ss[2]}
<1>1. IsWellFoundedOn(R, Nat)
  BY NatLessThanWellFounded DEF OpToRel
<1>2. K \in SUBSET Nat
  BY SizeType
<1> HIDE DEF R
<1>3. \E a \in K : \A b \in K : <<b, a>> \notin R
  BY <1>1, <1>2, WFMin, Zenon
<1>4. \A a, b \in Nat : <<b, a>> \notin R => a <= b
  BY DEF R
<1>5. \E a \in K : \A b \in K : a <= b
  BY <1>2, <1>3, <1>4
<1> QED
  BY <1>5 DEF First

(* The number of a task tells its slot, and is never zero.                  *)
LEMMA IdTellsSlot ==
  ASSUME NEW n \in Nat, n >= 2, NEW i \in Slots
  PROVE  /\ n * Size + i \in Nat \ {0}
         /\ (n * Size + i) % Size = i
<1>1. PICK z \in Nat \ {0} : z = Size /\ i \in 0 .. z - 1
  <2>1. Size \in Nat /\ i \in Nat /\ i < Size
    BY SizeType
  <2> QED
    BY <2>1
<1>2. n * z \in Nat /\ n * z # 0
  BY <1>1
<1>3. PICK s \in Nat \ {0} : s = n * z
  BY <1>2
<1>4. (s + i) % z = i
  <2>1. PICK k \in Nat, r \in 0 .. z - 1 : k = (s + i) \div z /\ r = (s + i) % z /\ s + i = z * k + r
    BY <1>1, <1>3
  <2>2. k = n
    <3>1. z * k + r = z * n + i /\ k \in Nat
      BY <1>1, <1>3, <2>1
    <3>2. \A x, y \in Nat : x < y => \E d \in Nat \ {0} : y = x + d
      <4> TAKE x, y \in Nat
      <4> HAVE x < y
      <4>1. y - x \in Nat \ {0} /\ y = x + (y - x)
        OBVIOUS
      <4> QED
        BY <4>1
    <3>3. CASE k < n
      <4>1. PICK d \in Nat \ {0} : n = k + d
        BY <3>1, <3>2, <3>3
      <4>2. z * n = z * k + z * d /\ z * d >= z
        BY <1>1, <3>1, <4>1
      <4> QED
        BY <1>1, <2>1, <3>1, <4>2
    <3>4. CASE k > n
      <4>1. PICK d \in Nat \ {0} : k = n + d
        BY <3>1, <3>2, <3>4
      <4>2. z * k = z * n + z * d /\ z * d >= z
        BY <1>1, <3>1, <4>1
      <4> QED
        BY <1>1, <2>1, <3>1, <4>2
    <3> QED
      BY <3>1, <3>3, <3>4
  <2> QED
    BY <1>1, <1>3, <2>1, <2>2
<1> QED
  BY <1>1, <1>3, <1>4

(* The entry of a slot.                                                     *)
LEMMA SlotType ==
  ASSUME PoolTyped, NEW i \in Slots
  PROVE  /\ tasks[i].task_id \in Nat /\ tasks[i].is_being_processed \in BOOLEAN
         /\ tasks[i].next_task_id \in Nat /\ tasks[i].thread_id \in Threads \cup {Nobody}
         /\ tasks[i].task \in Tasks \cup {Nobody}
  BY DEF PoolTyped, TaskState

-------------------------------------------------------------------------------
(* What the actions do, in these terms.  A task p of thread t, its n-th     *)
(* frame and the top one, that has added a tasks, adds the task c.          *)
Adding(t, n, p, a, c) ==
  /\ n \in Nat \ {0} /\ n = Depth(t) /\ p \in Tasks /\ p = TaskAt(t, n)
  /\ a \in Nat /\ a = AddedAt(t, n) /\ a + 1 \in Kids(p)
  /\ c \in Tasks \ Roots /\ c = Children[p][a + 1]
  /\ id[c] = 0 /\ ~Known(c) /\ Over(c)

OneMoreAdded(t, n, a) ==
  \A u \in Threads : \A m \in 1 .. Depth(u) :
    /\ TaskAt(u, m)' = TaskAt(u, m) /\ JoinedAt(u, m)' = JoinedAt(u, m)
    /\ AddedAt(u, m)' = IF u = t /\ m = n THEN a + 1 ELSE AddedAt(u, m)

(* It goes to the empty slot i and gets the id v.                           *)
Queues(t, n, p, a, c, i, v) ==
  /\ Adding(t, n, p, a, c)
  /\ i \in Slots /\ IsEmpty(i)
  /\ v \in Nat \ {0} /\ v % Size = i
  /\ OneMoreAdded(t, n, a)
  /\ \A u \in Threads : Depth(u)' = Depth(u)
  /\ id' = [id EXCEPT ![c] = v]
  /\ \A j \in Slots : j # i => tasks'[j] = tasks[j]
  /\ tasks'[i].task = c /\ tasks'[i].task_id = v /\ tasks'[i].thread_id = t
  /\ tasks'[i].is_being_processed = tasks[i].is_being_processed
  /\ tasks'[i].next_task_id >= 2
  /\ slot' = slot

(* add_task, with an empty slot.                                            *)
LEMMA AddToSlotQueues ==
  ASSUME PoolInv, NEW t \in Threads, AddToSlot(t)
  PROVE  PoolTyped' /\ \E n, p, a, c, i, v : Queues(t, n, p, a, c, i, v)
<1>1. stack[t] # <<>> /\ MoreToAdd(t) /\ EmptySlots # {}
  BY DEF AddToSlot, Executes
<1>2. PICK n, p, a, c : Adding(t, n, p, a, c) /\ c = NextChild(t)
  BY <1>1, NextChildNew DEF Adding
<1>3. PICK i \in Slots : i = First(EmptySlots) /\ IsEmpty(i)
  BY <1>1, FirstIsOne DEF EmptySlots
<1>4. PICK v \in Nat \ {0} : v = NextTaskId(i) /\ v % Size = i
  <2>1. tasks[i].next_task_id \in Nat /\ tasks[i].next_task_id >= 2
    BY SlotType DEF PoolInv, SlotInv
  <2> QED
    BY <2>1, IdTellsSlot DEF NextTaskId
<1>5. /\ tasks' = [tasks EXCEPT ![i].task_id = v, ![i].next_task_id = @ + 1,
                                ![i].thread_id = t, ![i].task = c]
      /\ id' = [id EXCEPT ![c] = v]
      /\ stack' = WithTop(t, <<Added(t)>>)
      /\ slot' = slot /\ we_are_destructing' = we_are_destructing /\ gone' = gone
      /\ asleep' \subseteq asleep
  BY <1>2, <1>3, <1>4 DEF AddToSlot
<1>6. PICK f \in FrameSet : f = Added(t) /\ f.task = p /\ f.added = a + 1 /\ f.joined = JoinedAt(t, n)
  <2>1. Top(t) \in FrameSet /\ Top(t) = stack[t][n]
    BY <1>1, <1>2, TopType DEF PoolInv, Adding
  <2>2. Top(t).task = p /\ Top(t).added = a /\ Top(t).joined = JoinedAt(t, n)
    BY <1>2, <2>1 DEF Adding, TaskAt, AddedAt, JoinedAt
  <2>3. [Top(t) EXCEPT !.added = @ + 1] = [task |-> p, added |-> a + 1, joined |-> JoinedAt(t, n)]
    BY <2>1, <2>2 DEF FrameSet
  <2>4. [task |-> p, added |-> a + 1, joined |-> JoinedAt(t, n)] \in FrameSet
    BY <1>2, <2>1, <2>2 DEF Adding, FrameSet
  <2> QED
    BY <2>3, <2>4 DEF Added
<1>7. /\ stack' \in [Threads -> Seq(FrameSet)]
      /\ \A u \in Threads : Depth(u)' = Depth(u)
      /\ \A u \in Threads : \A m \in 1 .. Depth(u) :
              stack'[u][m] = IF u = t /\ m = Depth(t) THEN f ELSE stack[u][m]
  BY <1>1, <1>5, <1>6, TopReplaced DEF PoolInv
<1>8. OneMoreAdded(t, n, a)
  BY <1>2, <1>6, <1>7 DEF OneMoreAdded, TaskAt, AddedAt, JoinedAt, Adding
<1>9. /\ tasks' \in [Slots -> TaskState]
      /\ \A j \in Slots : j # i => tasks'[j] = tasks[j]
      /\ tasks'[i].task = c /\ tasks'[i].task_id = v /\ tasks'[i].thread_id = t
      /\ tasks'[i].is_being_processed = tasks[i].is_being_processed
      /\ tasks'[i].next_task_id >= 2
  <2>1. tasks \in [Slots -> TaskState] /\ tasks[i] \in TaskState /\ tasks[i].next_task_id >= 2
    BY DEF PoolInv, PoolTyped, SlotInv
  <2>2. c \in Tasks
    BY <1>2 DEF Adding
  <2>3. tasks' = [tasks EXCEPT ![i] = [task_id |-> v, is_being_processed |-> tasks[i].is_being_processed,
                     thread_id |-> t, next_task_id |-> tasks[i].next_task_id + 1, task |-> c]]
    BY <1>5, <2>1 DEF TaskState
  <2>4. [task_id |-> v, is_being_processed |-> tasks[i].is_being_processed,
         thread_id |-> t, next_task_id |-> tasks[i].next_task_id + 1, task |-> c] \in TaskState
    BY <2>1, <2>2 DEF TaskState
  <2> QED
    BY <2>1, <2>3, <2>4 DEF TaskState
<1>10. id' \in [Tasks -> Nat]
  BY <1>2, <1>5 DEF PoolInv, PoolTyped, Adding
<1>11. PoolTyped'
  BY <1>5, <1>7, <1>9, <1>10 DEF PoolInv, PoolTyped
<1>12. Queues(t, n, p, a, c, i, v)
  BY <1>2, <1>3, <1>4, <1>5, <1>7, <1>8, <1>9 DEF Queues
<1> QED
  BY <1>11, <1>12

(* It is begun at once, in a frame of its own.                              *)
Begins(t, n, p, a, c) ==
  /\ Adding(t, n, p, a, c)
  /\ OneMoreAdded(t, n, a)
  /\ \A u \in Threads : Depth(u)' = IF u = t THEN n + 1 ELSE Depth(u)
  /\ TaskAt(t, n + 1)' = c /\ AddedAt(t, n + 1)' = 0 /\ JoinedAt(t, n + 1)' = 0
  /\ id' = [id EXCEPT ![c] = 1]
  /\ tasks' = tasks /\ slot' = slot

(* add_task of a worker, without one.                                       *)
LEMMA AddInPlaceBegins ==
  ASSUME PoolInv, NEW t \in Threads, AddInPlace(t)
  PROVE  PoolTyped' /\ \E n, p, a, c : Begins(t, n, p, a, c)
<1>1. stack[t] # <<>> /\ MoreToAdd(t)
  BY DEF AddInPlace, Executes
<1>2. PICK n, p, a, c : Adding(t, n, p, a, c) /\ c = NextChild(t)
  BY <1>1, NextChildNew DEF Adding
<1>3. /\ id' = [id EXCEPT ![c] = 1]
      /\ stack' = WithTop(t, <<Added(t), Frame(c)>>)
      /\ UNCHANGED <<tasks, we_are_destructing, slot, asleep, gone>>
  BY <1>2 DEF AddInPlace
<1>4. PICK f \in FrameSet : f = Added(t) /\ f.task = p /\ f.added = a + 1 /\ f.joined = JoinedAt(t, n)
  <2>1. Top(t) \in FrameSet /\ Top(t) = stack[t][n]
    BY <1>1, <1>2, TopType DEF PoolInv, Adding
  <2>2. Top(t).task = p /\ Top(t).added = a /\ Top(t).joined = JoinedAt(t, n)
    BY <1>2, <2>1 DEF Adding, TaskAt, AddedAt, JoinedAt
  <2>3. [Top(t) EXCEPT !.added = @ + 1] = [task |-> p, added |-> a + 1, joined |-> JoinedAt(t, n)]
    BY <2>1, <2>2 DEF FrameSet
  <2>4. [task |-> p, added |-> a + 1, joined |-> JoinedAt(t, n)] \in FrameSet
    BY <1>2, <2>1, <2>2 DEF Adding, FrameSet
  <2> QED
    BY <2>3, <2>4 DEF Added
<1>5. PICK g \in FrameSet : g = Frame(c) /\ g.task = c /\ g.added = 0 /\ g.joined = 0
  <2>1. [task |-> c, added |-> 0, joined |-> 0] \in FrameSet
    BY <1>2 DEF FrameSet, Adding
  <2> QED
    BY <2>1 DEF Frame
<1>6. /\ stack' \in [Threads -> Seq(FrameSet)]
      /\ \A u \in Threads : Depth(u)' = IF u = t THEN Depth(t) + 1 ELSE Depth(u)
      /\ \A u \in Threads : \A m \in 1 .. Depth(u) :
           stack'[u][m] = IF u = t /\ m = Depth(t) THEN f ELSE stack[u][m]
      /\ stack'[t][Depth(t) + 1] = g
  <2>1. stack' = WithTop(t, <<f, g>>) /\ PoolTyped
    BY <1>3, <1>4, <1>5 DEF PoolInv
  <2> QED
    BY <1>1, <2>1, TopGrown
<1>7. OneMoreAdded(t, n, a)
  BY <1>2, <1>4, <1>6 DEF OneMoreAdded, TaskAt, AddedAt, JoinedAt, Adding
<1>8. id' \in [Tasks -> Nat]
  BY <1>2, <1>3 DEF PoolInv, PoolTyped, Adding
<1>9. PoolTyped'
  BY <1>3, <1>6, <1>8 DEF PoolInv, PoolTyped
<1>10. n = Depth(t)
  BY <1>2 DEF Adding
<1>11. TaskAt(t, n + 1)' = c /\ AddedAt(t, n + 1)' = 0 /\ JoinedAt(t, n + 1)' = 0
  BY <1>5, <1>6, <1>10 DEF TaskAt, AddedAt, JoinedAt
<1>12. Begins(t, n, p, a, c)
  BY <1>2, <1>3, <1>6, <1>7, <1>10, <1>11 DEF Begins
<1> QED
  BY <1>9, <1>12

(* The top frame of t, with its numbers.                                    *)
LEMMA TopFrame ==
  ASSUME PoolTyped, NEW t \in Threads, stack[t] # <<>>
  PROVE  /\ Depth(t) \in Nat \ {0} /\ Depth(t) \in 1 .. Depth(t)
         /\ Top(t) \in FrameSet /\ Top(t) = stack[t][Depth(t)]
         /\ Top(t).task = TaskAt(t, Depth(t)) /\ Top(t).task \in Tasks
         /\ Top(t).added = AddedAt(t, Depth(t)) /\ Top(t).added \in Nat
         /\ Top(t).joined = JoinedAt(t, Depth(t)) /\ Top(t).joined \in Nat
<1>1. Depth(t) \in Nat \ {0} /\ Depth(t) \in 1 .. Depth(t) /\ Top(t) = stack[t][Depth(t)] /\ Top(t) \in FrameSet
  BY TopType
<1>2. \A f \in FrameSet : f.task \in Tasks /\ f.added \in Nat /\ f.joined \in Nat
  BY DEF FrameSet
<1> QED
  BY <1>1, <1>2 DEF TaskAt, AddedAt, JoinedAt

(* All children are added.                                                  *)
LEMMA AllAdded ==
  ASSUME PoolInv, NEW t \in Threads, stack[t] # <<>>, ~MoreToAdd(t)
  PROVE  LET p == TaskAt(t, Depth(t))
         IN  /\ p \in Tasks /\ AddedAt(t, Depth(t)) = Len(Children[p]) /\ Len(Children[p]) \in Nat
             /\ \A j \in Kids(p) : j \in 1 .. Len(Children[p]) /\ id[Children[p][j]] # 0
<1>1. PICK p, n, a : p = TaskAt(t, Depth(t)) /\ n = Depth(t) /\ a = AddedAt(t, Depth(t))
  OBVIOUS
<1>2. /\ n \in 1 .. Depth(t) /\ p \in Tasks /\ a \in Nat /\ Top(t).task = p /\ Top(t).added = a
      /\ a <= Len(Children[p]) /\ \A j \in Kids(p) : id[Children[p][j]] # 0 <=> j <= a
  <2>1. n \in 1 .. Depth(t) /\ p \in Tasks /\ a \in Nat /\ Top(t).task = p /\ Top(t).added = a
    BY <1>1, TopFrame DEF PoolInv
  <2>2. a <= Len(Children[p]) /\ \A j \in Kids(p) : id[Children[p][j]] # 0 <=> j <= a
    BY <1>1, <2>1, FrameFacts DEF PoolInv
  <2> QED
    BY <2>1, <2>2
<1>3. a = Len(Children[p])
  BY <1>2, ChildType DEF MoreToAdd
<1> QED
  BY <1>1, <1>2, <1>3, ChildType

(* A child for which nobody has to wait any more is done with.              *)
LEMMA AwaitedIsOver ==
  ASSUME PoolInv, NEW t \in Threads, stack[t] # <<>>, NEW j \in Kids(TaskAt(t, Depth(t))),
         ~TaskPending(Children[TaskAt(t, Depth(t))][j]) \/ ~MinePending(t)
  PROVE  Over(Children[TaskAt(t, Depth(t))][j])
<1>1. PICK p, n : p = TaskAt(t, Depth(t)) /\ n = Depth(t)
  OBVIOUS
<1>2. n \in Nat \ {0} /\ n \in 1 .. Depth(t) /\ p \in Tasks /\ j \in Kids(p)
  BY <1>1, TopFrame DEF PoolInv
<1>3. PICK k \in Tasks \ Roots : k = Children[p][j]
  BY <1>2, ChildType
<1>4. \A i \in Slots : ~IsEmpty(i) /\ tasks[i].task = k => tasks[i].thread_id = t
  BY <1>1, <1>2, <1>3, FrameFacts DEF PoolInv
<1>5. ASSUME NEW i \in Slots, ~IsEmpty(i), tasks[i].task = k PROVE FALSE
  <2>1. MinePending(t)
    BY <1>4, <1>5 DEF MinePending
  <2>2. tasks[i].task_id = id[k] /\ tasks[i].task_id % Size = i
    BY <1>5 DEF PoolInv, SlotInv
  <2>3. id[k] % Size = i
    BY <2>2
  <2>4. Size # 0
    BY <1>5, SizeType
  <2>5. TaskPending(k)
    BY <2>2, <2>3, <2>4 DEF TaskPending
  <2> QED
    BY <1>1, <1>3, <2>1, <2>5
<1>6. ~Waiting(k)
  BY <1>5 DEF Waiting, IsReady
<1>7. ~Running(k)
  <2> SUFFICES ASSUME NEW u \in Threads, NEW m \in 1 .. Depth(u), TaskAt(u, m) = k PROVE FALSE
    BY DEF Running
  <2>0. Depth(u) \in Nat /\ m \in Nat
    BY DepthType DEF PoolInv
  <2>1. CASE m = 1 /\ u \in Workers
    <3>1. slot[u] \in Slots /\ tasks[slot[u]].is_being_processed /\ tasks[slot[u]].task = k
      BY <2>0, <2>1 DEF PoolInv, WorkerInv
    <3>2. ~IsEmpty(slot[u])
      BY <3>1 DEF PoolInv, SlotInv
    <3> QED
      BY <1>5, <3>1, <3>2
  <2>2. CASE m = 1 /\ u \in Clients
    <3>1. k = Program[u]
      BY <2>0, <2>2 DEF PoolInv, WorkerInv
    <3> QED
      BY <1>3, <2>2, <3>1 DEF Roots
  <2>3. CASE m > 1
    <3>1. m - 1 \in 1 .. Depth(u)
      BY <2>0, <2>3
    <3>2. AddedAt(u, m - 1) > 0 /\ k = Children[TaskAt(u, m - 1)][AddedAt(u, m - 1)]
      BY <2>3, FrameFacts DEF PoolInv
    <3>3. AddedAt(u, m - 1) \in Kids(TaskAt(u, m - 1)) /\ TaskAt(u, m - 1) \in Tasks
      <4>1. TaskAt(u, m - 1) \in Tasks /\ AddedAt(u, m - 1) \in Nat
        BY <3>1, DepthType DEF PoolInv
      <4>2. AddedAt(u, m - 1) <= Len(Children[TaskAt(u, m - 1)])
        BY <3>1, FrameFacts DEF PoolInv
      <4> QED
        BY <3>2, <4>1, <4>2, ChildType
    <3>4. TaskAt(u, m - 1) = p
      <4>1. PICK q, b : q = TaskAt(u, m - 1) /\ b = AddedAt(u, m - 1)
        OBVIOUS
      <4>2. q \in Tasks /\ b \in Kids(q) /\ Children[q][b] = Children[p][j]
        BY <1>3, <3>2, <3>3, <4>1
      <4>3. q = p
        BY <1>2, <4>2, OneParent
      <4> QED
        BY <4>1, <4>3
    <3>5. u = t /\ m - 1 = n
      BY <1>1, <1>2, <3>1, <3>4 DEF PoolInv, OnceInv
    <3> QED
      BY <1>1, <2>0, <3>5
  <2> QED
    BY <2>0, <2>1, <2>2, <2>3 DEF Threads
<1> QED
  BY <1>1, <1>3, <1>6, <1>7 DEF Over

(* The task p on top of t has joined x of its children.                     *)
Joins(t, n, p, x) ==
  /\ n \in Nat \ {0} /\ n = Depth(t) /\ p \in Tasks /\ p = TaskAt(t, n)
  /\ x \in Nat /\ x <= Len(Children[p]) /\ AddedAt(t, n) = Len(Children[p])
  /\ \A j \in Kids(p) : j <= x => Over(Children[p][j])
  /\ \A u \in Threads : Depth(u)' = Depth(u)
  /\ \A u \in Threads : \A m \in 1 .. Depth(u) :
       /\ TaskAt(u, m)' = TaskAt(u, m) /\ AddedAt(u, m)' = AddedAt(u, m)
       /\ JoinedAt(u, m)' = IF u = t /\ m = n THEN x ELSE JoinedAt(u, m)
  /\ UNCHANGED <<tasks, slot, id>>

(* The top frame with more of its children joined.                          *)
LEMMA ReplaceJoined ==
  ASSUME PoolInv, NEW t \in Threads, stack[t] # <<>>, ~MoreToAdd(t), NEW x \in Nat,
         x <= Len(Children[TaskAt(t, Depth(t))]),
         \A j \in Kids(TaskAt(t, Depth(t))) : j <= x => Over(Children[TaskAt(t, Depth(t))][j]),
         stack' = WithTop(t, <<[Top(t) EXCEPT !.joined = x]>>),
         UNCHANGED <<tasks, we_are_destructing, slot, id, gone, asleep>>
  PROVE  PoolTyped' /\ \E n, p : Joins(t, n, p, x)
<1>1. PICK p, n : p = TaskAt(t, Depth(t)) /\ n = Depth(t)
  OBVIOUS
<1>2. /\ n \in Nat \ {0} /\ p \in Tasks /\ Top(t) \in FrameSet /\ Top(t).task = p /\ Top(t).added = AddedAt(t, n)
      /\ Top(t).added \in Nat
  BY <1>1, TopFrame DEF PoolInv
<1>3. PICK f \in FrameSet : f = [Top(t) EXCEPT !.joined = x] /\ f.task = p /\ f.added = AddedAt(t, n) /\ f.joined = x
  <2>1. [Top(t) EXCEPT !.joined = x] = [task |-> p, added |-> AddedAt(t, n), joined |-> x]
    BY <1>2 DEF FrameSet
  <2>2. [task |-> p, added |-> AddedAt(t, n), joined |-> x] \in FrameSet
    BY <1>2 DEF FrameSet
  <2> QED
    BY <2>1, <2>2
<1>4. /\ stack' \in [Threads -> Seq(FrameSet)]
      /\ \A u \in Threads : Depth(u)' = Depth(u)
      /\ \A u \in Threads : \A m \in 1 .. Depth(u) :
              stack'[u][m] = IF u = t /\ m = Depth(t) THEN f ELSE stack[u][m]
  <2>1. PoolTyped /\ stack' = WithTop(t, <<f>>)
    BY <1>3 DEF PoolInv
  <2> QED
    BY <2>1, TopReplaced
<1>5. PoolTyped'
  BY <1>4 DEF PoolInv, PoolTyped
<1>6. AddedAt(t, n) = Len(Children[p])
  BY <1>1, AllAdded
<1>7. \A u \in Threads : \A m \in 1 .. Depth(u) :
       /\ TaskAt(u, m)' = TaskAt(u, m) /\ AddedAt(u, m)' = AddedAt(u, m)
       /\ JoinedAt(u, m)' = IF u = t /\ m = n THEN x ELSE JoinedAt(u, m)
  BY <1>1, <1>3, <1>4 DEF TaskAt, AddedAt, JoinedAt
<1>8. Joins(t, n, p, x)
  BY <1>1, <1>2, <1>4, <1>6, <1>7 DEF Joins
<1> QED
  BY <1>5, <1>8

(* A join waits, or goes on.                                                *)
LEMMA WaitJoins ==
  ASSUME PoolInv, NEW t \in Threads, WaitForTask(t) \/ WaitForAllTasks(t)
  PROVE  PoolTyped' /\ (UNCHANGED <<tasks, stack, slot, id>> \/ \E n, p, x : Joins(t, n, p, x))
<1>1. stack[t] # <<>> /\ ~MoreToAdd(t) /\ MoreToJoin(t) /\ UNCHANGED <<tasks, we_are_destructing, slot, id, gone>>
  BY DEF WaitForTask, WaitForAllTasks, Executes
<1>2. PICK p, n, x : p = TaskAt(t, Depth(t)) /\ n = Depth(t) /\ x = JoinedAt(t, n)
  OBVIOUS
<1>3. /\ n \in Nat \ {0} /\ n \in 1 .. Depth(t) /\ p \in Tasks /\ Top(t).task = p
      /\ Top(t).joined = x /\ x \in Nat
  BY <1>1, <1>2, TopFrame DEF PoolInv
<1>4. x + 1 \in Kids(p) /\ x + 1 <= Len(Children[p]) /\ Len(Children[p]) \in Nat
  BY <1>1, <1>3, ChildType DEF MoreToJoin
<1>5. \A j \in Kids(p) : j \in Nat /\ j <= Len(Children[p]) /\ (j <= x => Over(Children[p][j]))
  BY <1>2, <1>3, ChildType, FrameFacts DEF PoolInv
<1>6. CASE stack' = stack
  <2>1. PoolTyped'
    BY <1>1, <1>6 DEF PoolInv, PoolTyped, WaitForTask, WaitForAllTasks
  <2> QED
    BY <1>1, <1>6, <2>1
<1>7. CASE WaitForTask(t) /\ stack' # stack
  <2>1. /\ ~TaskPending(Children[p][x + 1])
        /\ stack' = WithTop(t, <<[Top(t) EXCEPT !.joined = x + 1]>>)
        /\ asleep' = asleep
    BY <1>3, <1>7 DEF WaitForTask
  <2>2. Over(Children[p][x + 1])
    BY <1>1, <1>2, <1>4, <2>1, AwaitedIsOver
  <2>3. \A j \in Kids(p) : j <= x + 1 => Over(Children[p][j])
    BY <1>3, <1>5, <2>2
  <2> QED
    <3>1. PICK y \in Nat : y = x + 1
      BY <1>3
    <3>2. /\ y <= Len(Children[TaskAt(t, Depth(t))])
          /\ \A j \in Kids(TaskAt(t, Depth(t))) : j <= y => Over(Children[TaskAt(t, Depth(t))][j])
          /\ stack' = WithTop(t, <<[Top(t) EXCEPT !.joined = y]>>)
          /\ UNCHANGED <<tasks, we_are_destructing, slot, id, gone, asleep>>
      BY <1>1, <1>2, <1>4, <2>1, <2>3, <3>1
    <3>3. PoolTyped' /\ \E m, k : Joins(t, m, k, y)
      BY <1>1, <3>2, ReplaceJoined
    <3> QED
      BY <3>3
<1>8. CASE WaitForAllTasks(t) /\ stack' # stack
  <2>1. /\ ~MinePending(t)
        /\ stack' = WithTop(t, <<[Top(t) EXCEPT !.joined = Len(Children[p])]>>)
        /\ asleep' = asleep
    BY <1>3, <1>8 DEF WaitForAllTasks
  <2>2. \A j \in Kids(p) : Over(Children[p][j])
    BY <1>1, <1>2, <2>1, AwaitedIsOver
  <2> QED
    <3>1. PICK y \in Nat : y = Len(Children[p])
      BY <1>4
    <3>2. /\ y <= Len(Children[TaskAt(t, Depth(t))])
          /\ \A j \in Kids(TaskAt(t, Depth(t))) : j <= y => Over(Children[TaskAt(t, Depth(t))][j])
          /\ stack' = WithTop(t, <<[Top(t) EXCEPT !.joined = y]>>)
          /\ UNCHANGED <<tasks, we_are_destructing, slot, id, gone, asleep>>
      BY <1>1, <1>2, <2>1, <2>2, <3>1
    <3>3. PoolTyped' /\ \E m, k : Joins(t, m, k, y)
      BY <1>1, <3>2, ReplaceJoined
    <3> QED
      BY <3>3
<1> QED
  BY <1>6, <1>7, <1>8

(* What becomes of the entry of a slot.                                     *)
LEMMA EntryTaken ==
  ASSUME NEW r \in TaskState
  PROVE  LET s == [r EXCEPT !.is_being_processed = TRUE]
         IN  /\ s \in TaskState /\ s.task_id = r.task_id /\ s.is_being_processed = TRUE
             /\ s.thread_id = r.thread_id /\ s.next_task_id = r.next_task_id /\ s.task = r.task
  BY DEF TaskState

LEMMA EntryEmptied ==
  ASSUME NEW r \in TaskState
  PROVE  LET s == [[[r EXCEPT !.is_being_processed = FALSE] EXCEPT !.task_id = 0] EXCEPT !.task = Nobody]
         IN  /\ s \in TaskState /\ s.task_id = 0 /\ ~s.is_being_processed
             /\ s.next_task_id = r.next_task_id
  BY DEF TaskState

(* The task p on top of t is through: it has added and joined what it must. *)
Finished(t, n, p) ==
  /\ n \in Nat \ {0} /\ n = Depth(t) /\ p \in Tasks /\ p = TaskAt(t, n)
  /\ \A j \in Kids(p) : id[Children[p][j]] # 0 /\ (p \notin Forgetful => Over(Children[p][j]))

(* Where a task ends, it is through.                                        *)
LEMMA AtEndFinished ==
  ASSUME PoolInv, NEW t \in Threads, AtEnd(t)
  PROVE  stack[t] # <<>> /\ \E n, p : Finished(t, n, p)
<1>1. stack[t] # <<>> /\ ~MoreToAdd(t) /\ ~MoreToJoin(t)
  BY DEF AtEnd, Executes
<1>2. PICK p, n, x : p = TaskAt(t, Depth(t)) /\ n = Depth(t) /\ x = JoinedAt(t, n)
  OBVIOUS
<1>3. /\ n \in Nat \ {0} /\ n \in 1 .. Depth(t) /\ p \in Tasks /\ Top(t).task = p
      /\ Top(t).joined = x /\ x \in Nat
  BY <1>1, <1>2, TopFrame DEF PoolInv
<1>4. \A j \in Kids(p) : j \in 1 .. Len(Children[p]) /\ id[Children[p][j]] # 0
  BY <1>1, <1>2, AllAdded
<1>5. ASSUME p \notin Forgetful, NEW j \in Kids(p) PROVE Over(Children[p][j])
  <2>1. j <= x
    <3>1. ~(x < Len(Children[p]))
      BY <1>1, <1>3, <1>5 DEF MoreToJoin
    <3> QED
      BY <1>3, <1>4, <3>1, ChildType
  <2> QED
    BY <1>2, <1>3, <2>1, FrameFacts DEF PoolInv
<1> QED
  BY <1>1, <1>2, <1>3, <1>4, <1>5 DEF Finished

(* It ends where it was begun in place, or as a program.                    *)
EndsInPlace(t, n, p) ==
  /\ Finished(t, n, p) /\ (t \in Workers => n > 1)
  /\ \A u \in Threads : Depth(u)' = IF u = t THEN n - 1 ELSE Depth(u)
  /\ \A u \in Threads : \A m \in 1 .. Depth(u)' :
       /\ TaskAt(u, m)' = TaskAt(u, m) /\ AddedAt(u, m)' = AddedAt(u, m)
       /\ JoinedAt(u, m)' = JoinedAt(u, m)
  /\ UNCHANGED <<tasks, slot, id>>

LEMMA EndInPlaceEnds ==
  ASSUME PoolInv, NEW t \in Threads, EndInPlace(t)
  PROVE  PoolTyped' /\ \E n, p : EndsInPlace(t, n, p)
<1>1. PICK n, p : Finished(t, n, p) /\ stack[t] # <<>>
  BY AtEndFinished DEF EndInPlace
<1>2. t \in Workers => n > 1
  BY <1>1 DEF EndInPlace, Finished, Depth
<1>3. stack' = WithTop(t, <<>>) /\ UNCHANGED <<tasks, we_are_destructing, slot, id, asleep, gone>>
  BY DEF EndInPlace
<1>4. /\ stack' \in [Threads -> Seq(FrameSet)]
      /\ \A u \in Threads : Depth(u)' = IF u = t THEN Depth(t) - 1 ELSE Depth(u)
      /\ \A u \in Threads : \A m \in 1 .. Depth(u)' : stack'[u][m] = stack[u][m]
  BY <1>1, <1>3, TopGone DEF PoolInv
<1>5. PoolTyped'
  BY <1>3, <1>4 DEF PoolInv, PoolTyped
<1>6. \A u \in Threads : \A m \in 1 .. Depth(u)' :
       /\ TaskAt(u, m)' = TaskAt(u, m) /\ AddedAt(u, m)' = AddedAt(u, m)
       /\ JoinedAt(u, m)' = JoinedAt(u, m)
  BY <1>4 DEF TaskAt, AddedAt, JoinedAt
<1>7. n = Depth(t)
  BY <1>1 DEF Finished
<1>8. EndsInPlace(t, n, p)
  BY <1>1, <1>2, <1>3, <1>4, <1>6, <1>7 DEF EndsInPlace
<1> QED
  BY <1>5, <1>8

(* The threads but one have the frames they had.                            *)
OthersFrames(w) ==
  \A u \in Threads \ {w} :
    /\ Depth(u)' = Depth(u)
    /\ \A m \in 1 .. Depth(u) :
       /\ TaskAt(u, m)' = TaskAt(u, m) /\ AddedAt(u, m)' = AddedAt(u, m)
       /\ JoinedAt(u, m)' = JoinedAt(u, m)

(* A worker takes the task k from slot i.                                   *)
Takes(w, i, k) ==
  /\ w \in Workers /\ Depth(w) = 0 /\ i \in Slots /\ IsReady(i)
  /\ k \in Tasks /\ k = tasks[i].task
  /\ OthersFrames(w)
  /\ Depth(w)' = 1 /\ TaskAt(w, 1)' = k /\ AddedAt(w, 1)' = 0 /\ JoinedAt(w, 1)' = 0
  /\ slot' = [slot EXCEPT ![w] = i]
  /\ id' = id
  /\ \A j \in Slots : j # i => tasks'[j] = tasks[j]
  /\ tasks'[i].task = k /\ tasks'[i].task_id = tasks[i].task_id
  /\ tasks'[i].thread_id = tasks[i].thread_id /\ tasks'[i].next_task_id = tasks[i].next_task_id
  /\ tasks'[i].is_being_processed = TRUE

LEMMA TakeTaskTakes ==
  ASSUME PoolInv, NEW w \in Workers, TakeTask(w)
  PROVE  PoolTyped' /\ \E i, k : Takes(w, i, k)
<1>1. stack[w] = <<>> /\ ReadySlots # {} /\ w \in Threads
  BY DEF TakeTask, Free, Threads
<1>2. PICK i \in Slots : i = First(ReadySlots) /\ IsReady(i)
  BY <1>1, FirstIsOne DEF ReadySlots
<1>3. PICK k \in Tasks : k = tasks[i].task
  BY <1>2 DEF PoolInv, SlotInv, IsReady
<1>4. /\ tasks' = [tasks EXCEPT ![i].is_being_processed = TRUE]
      /\ stack' = [stack EXCEPT ![w] = <<Frame(k)>>]
      /\ slot' = [slot EXCEPT ![w] = i]
      /\ UNCHANGED <<we_are_destructing, id, asleep, gone>>
  BY <1>2, <1>3 DEF TakeTask, BeingProcessed
<1>5. PICK g \in FrameSet : g = Frame(k) /\ g.task = k /\ g.added = 0 /\ g.joined = 0
  <2>1. [task |-> k, added |-> 0, joined |-> 0] \in FrameSet
    BY DEF FrameSet
  <2> QED
    BY <2>1 DEF Frame
<1>6. /\ stack' \in [Threads -> Seq(FrameSet)] /\ stack'[w] = <<g>>
      /\ \A u \in Threads : u # w => stack'[u] = stack[u]
  <2>1. stack \in [Threads -> Seq(FrameSet)] /\ <<g>> \in Seq(FrameSet)
    BY DEF PoolInv, PoolTyped
  <2> QED
    BY <1>1, <1>4, <1>5, <2>1
<1>7. /\ tasks' \in [Slots -> TaskState]
      /\ \A j \in Slots : j # i => tasks'[j] = tasks[j]
      /\ tasks'[i].task = k /\ tasks'[i].task_id = tasks[i].task_id
      /\ tasks'[i].thread_id = tasks[i].thread_id /\ tasks'[i].next_task_id = tasks[i].next_task_id
      /\ tasks'[i].is_being_processed = TRUE
  <2>1. tasks \in [Slots -> TaskState] /\ tasks[i] \in TaskState
    BY DEF PoolInv, PoolTyped
  <2>2. tasks' = [tasks EXCEPT ![i] = [tasks[i] EXCEPT !.is_being_processed = TRUE]]
    BY <1>4, <2>1
  <2>3. PICK s \in TaskState : /\ s = [tasks[i] EXCEPT !.is_being_processed = TRUE]
          /\ s.task_id = tasks[i].task_id /\ s.is_being_processed = TRUE
          /\ s.thread_id = tasks[i].thread_id /\ s.next_task_id = tasks[i].next_task_id /\ s.task = tasks[i].task
    BY <2>1, EntryTaken
  <2> QED
    BY <1>3, <2>1, <2>2, <2>3
<1>8. slot' \in [Workers -> Slots \cup {-1}]
  BY <1>4 DEF PoolInv, PoolTyped
<1>9. PoolTyped'
  BY <1>4, <1>6, <1>7, <1>8 DEF PoolInv, PoolTyped
<1>10. OthersFrames(w)
  BY <1>6 DEF OthersFrames, Depth, TaskAt, AddedAt, JoinedAt
<1>11. Depth(w)' = 1 /\ TaskAt(w, 1)' = k /\ AddedAt(w, 1)' = 0 /\ JoinedAt(w, 1)' = 0
  BY <1>5, <1>6 DEF Depth, TaskAt, AddedAt, JoinedAt
<1>12. Depth(w) = 0
  BY <1>1 DEF Depth
<1>13. Takes(w, i, k)
  BY <1>2, <1>3, <1>4, <1>7, <1>10, <1>11, <1>12 DEF Takes
<1> QED
  BY <1>9, <1>13

(* The worker is through with it: the slot is empty.                        *)
EndsTask(w, p, i) ==
  /\ w \in Workers /\ Finished(w, 1, p)
  /\ i \in Slots /\ i = slot[w] /\ tasks[i].task = p /\ tasks[i].is_being_processed
  /\ OthersFrames(w)
  /\ Depth(w)' = 0
  /\ slot' = [slot EXCEPT ![w] = -1]
  /\ id' = id
  /\ \A j \in Slots : j # i => tasks'[j] = tasks[j]
  /\ tasks'[i].task_id = 0 /\ ~tasks'[i].is_being_processed
  /\ tasks'[i].next_task_id = tasks[i].next_task_id

LEMMA EndTaskEnds ==
  ASSUME PoolInv, NEW w \in Workers, EndTask(w)
  PROVE  PoolTyped' /\ \E p, i : EndsTask(w, p, i)
<1>1. w \in Threads /\ AtEnd(w) /\ Depth(w) = 1
  BY DEF EndTask, Threads, Depth
<1>2. PICK p : Finished(w, 1, p)
  <2>1. PICK n, p : Finished(w, n, p)
    BY <1>1, AtEndFinished
  <2>2. n = 1
    BY <1>1, <2>1 DEF Finished
  <2> QED
    BY <2>1, <2>2
<1>3. PICK i \in Slots : i = slot[w] /\ tasks[i].task = p /\ tasks[i].is_being_processed
  BY <1>1, <1>2 DEF PoolInv, WorkerInv, Finished
<1>4. /\ tasks' = [tasks EXCEPT ![i].is_being_processed = FALSE, ![i].task_id = 0, ![i].task = Nobody]
      /\ stack' = [stack EXCEPT ![w] = <<>>]
      /\ slot' = [slot EXCEPT ![w] = -1]
      /\ asleep' \subseteq asleep
      /\ UNCHANGED <<we_are_destructing, id, gone>>
  BY <1>3 DEF EndTask
<1>5. /\ stack' \in [Threads -> Seq(FrameSet)] /\ stack'[w] = <<>>
      /\ \A u \in Threads : u # w => stack'[u] = stack[u]
  <2>1. stack \in [Threads -> Seq(FrameSet)] /\ <<>> \in Seq(FrameSet)
    BY DEF PoolInv, PoolTyped
  <2> QED
    BY <1>1, <1>4, <2>1
<1>6. /\ tasks' \in [Slots -> TaskState]
      /\ \A j \in Slots : j # i => tasks'[j] = tasks[j]
      /\ tasks'[i].task_id = 0 /\ ~tasks'[i].is_being_processed
      /\ tasks'[i].next_task_id = tasks[i].next_task_id
  <2>1. tasks \in [Slots -> TaskState] /\ tasks[i] \in TaskState
    BY DEF PoolInv, PoolTyped
  <2>2. PICK s \in TaskState :
          /\ s = [[[tasks[i] EXCEPT !.is_being_processed = FALSE] EXCEPT !.task_id = 0] EXCEPT !.task = Nobody]
          /\ s.task_id = 0 /\ ~s.is_being_processed
          /\ s.next_task_id = tasks[i].next_task_id
    BY <2>1, EntryEmptied
  <2>3. tasks' = [tasks EXCEPT ![i] = s]
    BY <1>4, <2>1, <2>2
  <2> QED
    BY <2>1, <2>2, <2>3
<1>7. slot' \in [Workers -> Slots \cup {-1}]
  BY <1>4 DEF PoolInv, PoolTyped
<1>8. PoolTyped'
  BY <1>4, <1>5, <1>6, <1>7 DEF PoolInv, PoolTyped
<1>9. OthersFrames(w)
  BY <1>5 DEF OthersFrames, Depth, TaskAt, AddedAt, JoinedAt
<1>10. Depth(w)' = 0
  BY <1>5 DEF Depth
<1>11. EndsTask(w, p, i)
  BY <1>2, <1>3, <1>4, <1>6, <1>9, <1>10 DEF EndsTask
<1> QED
  BY <1>8, <1>11

-------------------------------------------------------------------------------
(* How the effects change what is running, waiting and known.               *)
Same(k)    == (Running(k)' <=> Running(k)) /\ (Waiting(k)' <=> Waiting(k)) /\ (Known(k)' <=> Known(k))

(* A task has one slot.                                                     *)
LEMMA OneSlot ==
  ASSUME PoolInv, NEW i \in Slots, NEW j \in Slots, ~IsEmpty(i), ~IsEmpty(j), tasks[i].task = tasks[j].task
  PROVE  i = j
<1>1. /\ id[tasks[i].task] = tasks[i].task_id /\ tasks[i].task_id % Size = i
      /\ id[tasks[j].task] = tasks[j].task_id /\ tasks[j].task_id % Size = j
  BY DEF PoolInv, SlotInv
<1> QED
  BY <1>1

(* After add_task, the task added waits, and nothing else changed.          *)
LEMMA QueuesChanges ==
  ASSUME PoolInv, NEW t \in Threads, NEW n, NEW p, NEW a, NEW c, NEW i, NEW v, Queues(t, n, p, a, c, i, v)
  PROVE  /\ \A k \in Tasks : k # c => Same(k)
         /\ ~Running(c)' /\ Waiting(c)' /\ Known(c)'
<1>1. \A k \in Tasks : Running(k)' <=> Running(k)
  BY DEF Queues, OneMoreAdded, Running
<1>2. /\ \A j \in Slots : j # i => (IsReady(j)' <=> IsReady(j)) /\ tasks'[j].task = tasks[j].task
      /\ IsReady(i)' /\ ~IsReady(i) /\ tasks'[i].task = c
  BY DEF Queues, IsReady, IsEmpty, PoolInv, SlotInv
<1>3. i \in Slots /\ c \in Tasks /\ Over(c) /\ id' = [id EXCEPT ![c] = v] /\ v # 0 /\ id \in [Tasks -> Nat]
  BY DEF Queues, Adding, PoolInv, PoolTyped
<1>4. \A k \in Tasks : k # c => (Waiting(k)' <=> Waiting(k))
  BY <1>2, <1>3 DEF Waiting
<1>5. Waiting(c)'
  BY <1>2, <1>3 DEF Waiting
<1>6. (\A k \in Tasks : k # c => (Known(k)' <=> Known(k))) /\ Known(c)'
  BY <1>3 DEF Known
<1> QED
  BY <1>1, <1>3, <1>4, <1>5, <1>6 DEF Same, Over

(* Or it runs.                                                              *)
LEMMA BeginsChanges ==
  ASSUME PoolInv, NEW t \in Threads, NEW n, NEW p, NEW a, NEW c, Begins(t, n, p, a, c)
  PROVE  /\ \A k \in Tasks : k # c => Same(k)
         /\ Running(c)' /\ ~Waiting(c)' /\ Known(c)'
<1>1. /\ n \in Nat \ {0} /\ n = Depth(t) /\ tasks' = tasks /\ TaskAt(t, n + 1)' = c
      /\ \A u \in Threads : Depth(u)' = IF u = t THEN n + 1 ELSE Depth(u)
      /\ \A u \in Threads : \A m \in 1 .. Depth(u) : TaskAt(u, m)' = TaskAt(u, m)
  BY DEF Begins, Adding, OneMoreAdded
<1>2. \A u \in Threads : Depth(u) \in Nat
  BY DepthType DEF PoolInv
<1>3. ASSUME NEW k \in Tasks, k # c PROVE Running(k)' <=> Running(k)
  <2>1. ASSUME NEW u \in Threads, NEW m \in 1 .. Depth(u), TaskAt(u, m) = k PROVE Running(k)'
    <3>1. m \in 1 .. Depth(u)' /\ TaskAt(u, m)' = k
      BY <1>1, <1>2, <2>1 DEF Depth, TaskAt
    <3> QED
      BY <3>1 DEF Running
  <2>2. ASSUME NEW u \in Threads, NEW m \in 1 .. Depth(u)', TaskAt(u, m)' = k PROVE Running(k)
    <3>1. m \in 1 .. Depth(u) /\ TaskAt(u, m) = k
      BY <1>1, <1>2, <1>3, <2>2 DEF Depth, TaskAt
    <3> QED
      BY <3>1 DEF Running
  <2> QED
    BY <2>1, <2>2 DEF Running
<1>4. Running(c)'
  <2>1. n + 1 \in 1 .. Depth(t)'
    BY <1>1 DEF Depth
  <2> QED
    BY <1>1, <2>1 DEF Running
<1>5. \A k \in Tasks : Waiting(k)' <=> Waiting(k)
  BY <1>1 DEF Waiting, IsReady, IsEmpty
<1>6. c \in Tasks /\ Over(c) /\ id' = [id EXCEPT ![c] = 1] /\ id \in [Tasks -> Nat]
  BY DEF Begins, Adding, PoolInv, PoolTyped
<1>7. (\A k \in Tasks : k # c => (Known(k)' <=> Known(k))) /\ Known(c)'
  BY <1>6 DEF Known
<1> QED
  BY <1>3, <1>4, <1>5, <1>6, <1>7 DEF Same, Over

(* A join changes nothing of it.                                            *)
LEMMA JoinsChanges ==
  ASSUME PoolInv, NEW t \in Threads, NEW n, NEW p, NEW x, Joins(t, n, p, x)
  PROVE  \A k \in Tasks : Same(k)
<1>1. \A k \in Tasks : Running(k)' <=> Running(k)
  BY DEF Joins, Running
<1>2. \A k \in Tasks : Waiting(k)' <=> Waiting(k)
  BY DEF Joins, Waiting, IsReady, IsEmpty
<1>3. \A k \in Tasks : Known(k)' <=> Known(k)
  BY DEF Joins, Known
<1> QED
  BY <1>1, <1>2, <1>3 DEF Same

(* A task that ends runs no more.                                           *)
LEMMA EndsInPlaceChanges ==
  ASSUME PoolInv, NEW t \in Threads, NEW n, NEW p, EndsInPlace(t, n, p)
  PROVE  /\ \A k \in Tasks : k # p => Same(k)
         /\ Running(p) /\ ~Running(p)' /\ ~Waiting(p)' /\ Known(p)'
<1>1. /\ n \in Nat \ {0} /\ n = Depth(t) /\ p \in Tasks /\ p = TaskAt(t, n)
      /\ UNCHANGED <<tasks, slot, id>>
      /\ \A u \in Threads : Depth(u)' = IF u = t THEN n - 1 ELSE Depth(u)
      /\ \A u \in Threads : \A m \in 1 .. Depth(u)' : TaskAt(u, m)' = TaskAt(u, m)
  BY DEF EndsInPlace, Finished
<1>2. \A u \in Threads : Depth(u) \in Nat
  BY DepthType DEF PoolInv
<1>3. n \in 1 .. Depth(t)
  BY <1>1
<1>4. Running(p)
  BY <1>1, <1>3 DEF Running
<1>5. ~Running(p)'
  <2> SUFFICES ASSUME NEW u \in Threads, NEW m \in 1 .. Depth(u)', TaskAt(u, m)' = p PROVE FALSE
    BY DEF Running
  <2>1. m \in 1 .. Depth(u) /\ TaskAt(u, m) = p /\ (u = t => m <= n - 1)
    BY <1>1, <1>2 DEF Depth, TaskAt
  <2>2. u = t /\ m = n
    BY <1>1, <1>3, <2>1 DEF PoolInv, OnceInv
  <2> QED
    BY <1>1, <2>1, <2>2
<1>6. ASSUME NEW k \in Tasks, k # p PROVE Running(k)' <=> Running(k)
  <2>1. ASSUME NEW u \in Threads, NEW m \in 1 .. Depth(u), TaskAt(u, m) = k PROVE Running(k)'
    <3>0. ~(u = t /\ m = n)
      BY <1>1, <1>6, <2>1
    <3>1. m \in 1 .. Depth(u)' /\ TaskAt(u, m)' = k
      BY <1>1, <1>2, <2>1, <3>0 DEF Depth, TaskAt
    <3> QED
      BY <3>1 DEF Running
  <2>2. ASSUME NEW u \in Threads, NEW m \in 1 .. Depth(u)', TaskAt(u, m)' = k PROVE Running(k)
    <3>1. m \in 1 .. Depth(u) /\ TaskAt(u, m) = k
      BY <1>1, <1>2, <2>2 DEF Depth, TaskAt
    <3> QED
      BY <3>1 DEF Running
  <2> QED
    BY <2>1, <2>2 DEF Running
<1>7. \A k \in Tasks : Waiting(k)' <=> Waiting(k)
  BY <1>1 DEF Waiting, IsReady, IsEmpty
<1>8. \A k \in Tasks : Known(k)' <=> Known(k)
  BY <1>1 DEF Known
<1>9. Known(p) /\ ~Waiting(p)
  BY <1>1, <1>3, <1>4, FrameFacts DEF PoolInv, OnceInv
<1> QED
  BY <1>1, <1>4, <1>5, <1>6, <1>7, <1>8, <1>9 DEF Same

(* A task that is taken runs, and waits no more.                            *)
LEMMA TakesChanges ==
  ASSUME PoolInv, NEW w, NEW i, NEW k, Takes(w, i, k)
  PROVE  /\ \A q \in Tasks : q # k => Same(q)
         /\ Waiting(k) /\ Running(k)' /\ ~Waiting(k)' /\ Known(k) /\ Known(k)'
<1>1. /\ w \in Workers /\ w \in Threads /\ Depth(w) = 0 /\ i \in Slots /\ IsReady(i)
      /\ k \in Tasks /\ k = tasks[i].task /\ id' = id
      /\ Depth(w)' = 1 /\ TaskAt(w, 1)' = k
      /\ \A u \in Threads \ {w} : Depth(u)' = Depth(u) /\ \A m \in 1 .. Depth(u) : TaskAt(u, m)' = TaskAt(u, m)
  BY DEF Takes, OthersFrames, Threads
<1>2. ASSUME NEW q \in Tasks, q # k PROVE Running(q)' <=> Running(q)
  <2>1. ASSUME NEW u \in Threads, NEW m \in 1 .. Depth(u), TaskAt(u, m) = q PROVE Running(q)'
    <3>1. m \in 1 .. Depth(u)' /\ TaskAt(u, m)' = q
      BY <1>1, <2>1 DEF Depth, TaskAt
    <3> QED
      BY <3>1 DEF Running
  <2>2. ASSUME NEW u \in Threads, NEW m \in 1 .. Depth(u)', TaskAt(u, m)' = q PROVE Running(q)
    <3>1. u # w
      BY <1>1, <1>2, <2>2 DEF Depth, TaskAt
    <3>2. m \in 1 .. Depth(u) /\ TaskAt(u, m) = q
      BY <1>1, <2>2, <3>1 DEF Depth, TaskAt
    <3> QED
      BY <3>2 DEF Running
  <2> QED
    BY <2>1, <2>2 DEF Running
<1>3. Running(k)'
  <2>1. 1 \in 1 .. Depth(w)'
    BY <1>1 DEF Depth
  <2> QED
    BY <1>1, <2>1 DEF Running
<1>4. /\ \A j \in Slots : j # i => (IsReady(j)' <=> IsReady(j)) /\ tasks'[j].task = tasks[j].task
      /\ ~IsReady(i)' /\ ~IsEmpty(i)
  BY DEF Takes, IsReady, IsEmpty
<1>5. \A q \in Tasks : q # k => (Waiting(q)' <=> Waiting(q))
  BY <1>1, <1>4 DEF Waiting
<1>6. Waiting(k)
  BY <1>1 DEF Waiting
<1>7. ~Waiting(k)'
  <2> SUFFICES ASSUME NEW j \in Slots, IsReady(j)', tasks'[j].task = k PROVE FALSE
    BY DEF Waiting
  <2>1. j # i /\ IsReady(j) /\ tasks[j].task = tasks[i].task
    BY <1>1, <1>4
  <2> QED
    BY <1>1, <1>4, <2>1, OneSlot DEF IsReady
<1>8. Known(k)
  BY <1>1, <1>4 DEF Known, PoolInv, SlotInv, IsEmpty
<1>9. \A q \in Tasks : Known(q)' <=> Known(q)
  BY <1>1 DEF Known
<1> QED
  BY <1>1, <1>2, <1>3, <1>5, <1>6, <1>7, <1>8, <1>9 DEF Same

(* A task that ends in its slot runs no more.                               *)
LEMMA EndsTaskChanges ==
  ASSUME PoolInv, NEW w, NEW p, NEW i, EndsTask(w, p, i)
  PROVE  /\ \A q \in Tasks : q # p => Same(q)
         /\ Running(p) /\ ~Running(p)' /\ ~Waiting(p)' /\ Known(p)'
<1>1. /\ w \in Workers /\ w \in Threads /\ Depth(w) = 1 /\ p \in Tasks /\ p = TaskAt(w, 1)
      /\ i \in Slots /\ tasks[i].is_being_processed /\ id' = id
      /\ Depth(w)' = 0
      /\ \A u \in Threads \ {w} : Depth(u)' = Depth(u) /\ \A m \in 1 .. Depth(u) : TaskAt(u, m)' = TaskAt(u, m)
  BY DEF EndsTask, Finished, OthersFrames, Threads
<1>2. ASSUME NEW q \in Tasks, q # p PROVE Running(q)' <=> Running(q)
  <2>1. ASSUME NEW u \in Threads, NEW m \in 1 .. Depth(u), TaskAt(u, m) = q PROVE Running(q)'
    <3>1. u # w
      BY <1>1, <1>2, <2>1
    <3>2. m \in 1 .. Depth(u)' /\ TaskAt(u, m)' = q
      BY <1>1, <2>1, <3>1 DEF Depth, TaskAt
    <3> QED
      BY <3>2 DEF Running
  <2>2. ASSUME NEW u \in Threads, NEW m \in 1 .. Depth(u)', TaskAt(u, m)' = q PROVE Running(q)
    <3>1. u # w
      BY <1>1, <2>2 DEF Depth
    <3>2. m \in 1 .. Depth(u) /\ TaskAt(u, m) = q
      BY <1>1, <2>2, <3>1 DEF Depth, TaskAt
    <3> QED
      BY <3>2 DEF Running
  <2> QED
    BY <2>1, <2>2 DEF Running
<1>3. 1 \in 1 .. Depth(w)
  BY <1>1
<1>4. Running(p)
  BY <1>1, <1>3 DEF Running
<1>5. ~Running(p)'
  <2> SUFFICES ASSUME NEW u \in Threads, NEW m \in 1 .. Depth(u)', TaskAt(u, m)' = p PROVE FALSE
    BY DEF Running
  <2>1. u # w
    BY <1>1 DEF Depth
  <2>2. m \in 1 .. Depth(u) /\ TaskAt(u, m) = p
    BY <1>1, <2>1 DEF Depth, TaskAt
  <2> QED
    BY <1>1, <1>3, <2>1, <2>2 DEF PoolInv, OnceInv
<1>6. /\ \A j \in Slots : j # i => (IsReady(j)' <=> IsReady(j)) /\ tasks'[j].task = tasks[j].task
      /\ ~IsReady(i)' /\ ~IsReady(i)
  BY DEF EndsTask, IsReady, IsEmpty
<1>7. \A q \in Tasks : Waiting(q)' <=> Waiting(q)
  BY <1>1, <1>6 DEF Waiting
<1>8. \A q \in Tasks : Known(q)' <=> Known(q)
  BY <1>1 DEF Known
<1>9. Known(p) /\ ~Waiting(p)
  BY <1>1, <1>3, <1>4, FrameFacts DEF PoolInv, OnceInv
<1> QED
  BY <1>1, <1>2, <1>4, <1>5, <1>7, <1>8, <1>9 DEF Same

-------------------------------------------------------------------------------
(* Who has a child on its stack.                                            *)
LEMMA OneFrame ==
  ASSUME PoolInv, NEW t \in Threads, NEW n \in 1 .. Depth(t), NEW i \in Kids(TaskAt(t, n)),
         NEW u \in Threads, NEW m \in 1 .. Depth(u), NEW j \in Kids(TaskAt(u, m)),
         Children[TaskAt(t, n)][i] = Children[TaskAt(u, m)][j]
  PROVE  t = u /\ n = m /\ i = j
<1>1. PICK p \in Tasks, q \in Tasks : p = TaskAt(t, n) /\ q = TaskAt(u, m)
  BY DepthType DEF PoolInv
<1>2. p = q /\ i = j
  BY <1>1, OneParent
<1>3. t = u /\ n = m
  <2>1. TaskAt(t, n) = TaskAt(u, m)
    BY <1>1, <1>2
  <2>2. \A t1, u1 \in Threads : \A n1 \in 1 .. Depth(t1) : \A m1 \in 1 .. Depth(u1) :
          TaskAt(t1, n1) = TaskAt(u1, m1) => t1 = u1 /\ n1 = m1
    BY DEF PoolInv, OnceInv
  <2>3. t \in Threads /\ n \in 1 .. Depth(t) /\ u \in Threads /\ m \in 1 .. Depth(u)
    OBVIOUS
  <2> QED
    BY <2>1, <2>2, <2>3
<1> QED
  BY <1>2, <1>3

(* A task in a slot has an id.                                              *)
LEMMA SlotKnown ==
  ASSUME PoolInv, NEW i \in Slots, ~IsEmpty(i)
  PROVE  /\ tasks[i].task \in Tasks /\ id[tasks[i].task] # 0 /\ Known(tasks[i].task)
         /\ id[tasks[i].task] = tasks[i].task_id
  BY DEF PoolInv, SlotInv, IsEmpty, Known

(* The invariant after add_task, with an empty slot: the child joins the    *)
(* slots.                                                                   *)
LEMMA QueuesKeeps ==
  ASSUME PoolInv, PoolTyped', NEW t \in Threads, NEW n, NEW p, NEW a, NEW c, NEW i, NEW v,
         Queues(t, n, p, a, c, i, v)
  PROVE  PoolInv'
<1>1. /\ n \in Nat \ {0} /\ n = Depth(t) /\ n \in 1 .. Depth(t) /\ p \in Tasks /\ p = TaskAt(t, n)
      /\ a \in Nat /\ a = AddedAt(t, n) /\ a + 1 \in Kids(p)
      /\ c \in Tasks \ Roots /\ c = Children[p][a + 1]
      /\ id[c] = 0 /\ ~Known(c) /\ Over(c)
      /\ i \in Slots /\ IsEmpty(i) /\ ~tasks[i].is_being_processed
      /\ v \in Nat \ {0} /\ v % Size = i
      /\ \A u \in Threads : Depth(u)' = Depth(u)
      /\ id' = [id EXCEPT ![c] = v] /\ id \in [Tasks -> Nat]
      /\ \A j \in Slots : j # i => tasks'[j] = tasks[j]
      /\ tasks'[i].task = c /\ tasks'[i].task_id = v /\ tasks'[i].thread_id = t
      /\ ~tasks'[i].is_being_processed /\ tasks'[i].next_task_id >= 2
      /\ slot' = slot
  BY DEF Queues, Adding, PoolInv, PoolTyped, SlotInv
<1>2. \A u \in Threads : \A m \in 1 .. Depth(u) :
        /\ TaskAt(u, m)' = TaskAt(u, m) /\ JoinedAt(u, m)' = JoinedAt(u, m)
        /\ AddedAt(u, m)' = IF u = t /\ m = n THEN a + 1 ELSE AddedAt(u, m)
  BY DEF Queues, OneMoreAdded
<1>3. (\A k \in Tasks : k # c => Same(k)) /\ ~Running(c)' /\ Waiting(c)' /\ Known(c)'
  BY QueuesChanges
<1>4. SlotInv'
  <2> SUFFICES ASSUME NEW j \in Slots
      PROVE  (/\ tasks[j].next_task_id >= 2
              /\ IsEmpty(j) => ~tasks[j].is_being_processed
              /\ ~IsEmpty(j) => /\ tasks[j].task \in Tasks
                                /\ id[tasks[j].task] = tasks[j].task_id
                                /\ tasks[j].task_id % Size = j)'
    BY DEF SlotInv
  <2>1. CASE j = i
    BY <1>1, <2>1 DEF IsEmpty
  <2>2. CASE j # i
    <3>1. ~IsEmpty(j) => tasks[j].task # c
      BY <1>1, SlotKnown
    <3> QED
      BY <1>1, <2>2, <3>1 DEF IsEmpty, PoolInv, SlotInv
  <2> QED
    BY <2>1, <2>2
<1>5. WorkerInv'
  <2>1. \A w \in Workers : w \in Threads /\ Depth(w) \in Nat /\ (Depth(w) # 0 => 1 \in 1 .. Depth(w))
    BY DepthType DEF PoolInv, Threads
  <2>2. ASSUME NEW w \in Workers
        PROVE  (IF Depth(w) = 0 THEN slot[w] = -1
                ELSE /\ slot[w] \in Slots /\ tasks[slot[w]].is_being_processed
                     /\ tasks[slot[w]].task = TaskAt(w, 1))'
    <3>1. CASE Depth(w) = 0
      BY <1>1, <2>1, <3>1 DEF PoolInv, WorkerInv, Depth
    <3>2. CASE Depth(w) # 0
      <4>1. slot[w] \in Slots /\ tasks[slot[w]].is_being_processed /\ tasks[slot[w]].task = TaskAt(w, 1)
        BY <3>2 DEF PoolInv, WorkerInv
      <4>2. slot[w] # i
        BY <1>1, <4>1
      <4>3. TaskAt(w, 1)' = TaskAt(w, 1) /\ Depth(w)' = Depth(w)
        BY <1>1, <1>2, <2>1, <3>2
      <4> QED
        BY <1>1, <3>2, <4>1, <4>2, <4>3
    <3> QED
      BY <3>1, <3>2
  <2>3. \A j \in Slots : tasks'[j].is_being_processed => \E w \in Workers : slot'[w] = j
    BY <1>1 DEF PoolInv, WorkerInv
  <2>4. \A d \in Clients : Depth(d)' > 0 => TaskAt(d, 1)' = Program[d]
    <3>1. \A d \in Clients : d \in Threads /\ Depth(d) \in Nat /\ (Depth(d) > 0 => 1 \in 1 .. Depth(d))
      BY DepthType DEF PoolInv, Threads
    <3> QED
      BY <1>1, <1>2, <3>1 DEF PoolInv, WorkerInv
  <2>5. \A w1, w2 \in Workers : slot'[w1] = slot'[w2] => slot'[w1] = -1 \/ w1 = w2
    BY <1>1 DEF PoolInv, WorkerInv
  <2> QED
    BY <2>2, <2>3, <2>4, <2>5 DEF WorkerInv
<1>6. ASSUME NEW u \in Threads, NEW m \in 1 .. Depth(u), NEW q \in Tasks, NEW b \in Nat, NEW x \in Nat,
             q = TaskAt(u, m)', b = AddedAt(u, m)', x = JoinedAt(u, m)'
      PROVE  FrameOf(u, m, q, b, x)'
  <2>1. PICK b0 \in Nat :
          /\ q = TaskAt(u, m) /\ b0 = AddedAt(u, m) /\ x = JoinedAt(u, m)
          /\ m \in Nat /\ m <= Depth(u) /\ Depth(u) \in Nat
          /\ b = IF u = t /\ m = n THEN a + 1 ELSE b0
    BY <1>2, <1>6, DepthType DEF PoolInv
  <2>2. /\ x <= b0 /\ b0 <= Len(Children[q]) /\ Known(q)
        /\ m > 1 => AddedAt(u, m - 1) > 0 /\ q = Children[TaskAt(u, m - 1)][AddedAt(u, m - 1)]
        /\ \A j \in Kids(q) : /\ id[Children[q][j]] # 0 <=> j <= b0
                              /\ j <= x => Over(Children[q][j])
                              /\ \A s \in Slots : ~IsEmpty(s) /\ tasks[s].task = Children[q][j] => tasks[s].thread_id = u
    BY <2>1, FrameFacts
  <2>4. (u = t /\ m = n) => q = p /\ b0 = a /\ a + 1 <= Len(Children[q])
    BY <1>1, <2>1, ChildType
  <2>5. ASSUME m > 1
        PROVE  /\ AddedAt(u, m - 1)' > 0
               /\ q = Children[TaskAt(u, m - 1)'][AddedAt(u, m - 1)']
    <3>1. m - 1 \in 1 .. Depth(u) /\ ~(u = t /\ m - 1 = n)
      BY <1>1, <2>1, <2>5
    <3>2. AddedAt(u, m - 1)' = AddedAt(u, m - 1) /\ TaskAt(u, m - 1)' = TaskAt(u, m - 1)
      BY <1>2, <3>1
    <3> QED
      BY <2>2, <2>5, <3>2
  <2>6. q # c /\ Known(q)'
    BY <1>1, <1>3, <2>1, <2>2 DEF Same
  <2>7. ASSUME NEW j \in Kids(q)
        PROVE  /\ id'[Children[q][j]] # 0 <=> j <= b
               /\ j <= x => Over(Children[q][j])'
               /\ \A s \in Slots : ~IsEmpty(s)' /\ tasks'[s].task = Children[q][j] => tasks'[s].thread_id = u
    <3>1. PICK k \in Tasks : k = Children[q][j] /\ j \in Nat
      BY ChildType
    <3>2. CASE k = c
      <4>1. u = t /\ m = n /\ j = a + 1
        <5>1. /\ n \in 1 .. Depth(t) /\ a + 1 \in Kids(TaskAt(t, n)) /\ j \in Kids(TaskAt(u, m))
              /\ Children[TaskAt(t, n)][a + 1] = Children[TaskAt(u, m)][j]
          BY <1>1, <2>1, <3>1, <3>2
        <5>2. t = u /\ n = m /\ a + 1 = j
          BY <5>1, OneFrame
        <5> QED
          BY <5>2
      <4>2. ~(j <= x)
        BY <1>1, <2>1, <2>2, <2>4, <4>1
      <4>3. \A s \in Slots : ~IsEmpty(s)' /\ tasks'[s].task = c => tasks'[s].thread_id = t
        <5>1. \A s \in Slots : ~IsEmpty(s) => tasks[s].task # c
          BY <1>1, SlotKnown
        <5> QED
          BY <1>1, <5>1 DEF IsEmpty
      <4> QED
        BY <1>1, <2>1, <2>4, <3>1, <3>2, <4>1, <4>2, <4>3
    <3>3. CASE k # c
      <4>1. id'[k] = id[k] /\ Same(k)
        BY <1>1, <1>3, <3>1, <3>3
      <4>2. u = t /\ m = n => j # a + 1
        BY <1>1, <2>4, <3>1, <3>3
      <4>3. id[k] # 0 <=> j <= b
        <5>1. id[k] # 0 <=> j <= b0
          BY <2>2, <3>1
        <5>2. CASE u = t /\ m = n
          BY <1>1, <2>1, <2>4, <3>1, <4>2, <5>1, <5>2
        <5>3. CASE ~(u = t /\ m = n)
          BY <2>1, <5>1, <5>3
        <5> QED
          BY <5>2, <5>3
      <4>4. j <= x => Over(k)'
        BY <2>2, <3>1, <4>1 DEF Over, Same
      <4>5. \A s \in Slots : ~IsEmpty(s)' /\ tasks'[s].task = k => tasks'[s].thread_id = u
        BY <1>1, <2>2, <3>1, <3>3 DEF IsEmpty
      <4> QED
        BY <3>1, <4>1, <4>3, <4>4, <4>5
    <3> QED
      BY <3>2, <3>3
  <2>8. x <= b /\ b <= Len(Children[q])
    BY <1>1, <2>1, <2>2, <2>4
  <2> QED
    BY <2>5, <2>6, <2>7, <2>8 DEF FrameOf
<1>7. FrameInv'
  BY <1>1, <1>6 DEF FrameInv
<1>8. OnceInv'
  <2>1. \A u, w \in Threads : \A m \in 1 .. Depth(u)', l \in 1 .. Depth(w)' :
          TaskAt(u, m)' = TaskAt(w, l)' => u = w /\ m = l
    BY <1>1, <1>2 DEF PoolInv, OnceInv
  <2>2. \A k \in Tasks : ~(Running(k)' /\ Waiting(k)')
    BY <1>3 DEF PoolInv, OnceInv, Same
  <2> QED
    BY <2>1, <2>2 DEF OnceInv
<1>9. ASSUME NEW k \in Tasks, ~Known(k)' \/ Waiting(k)', NEW j \in Kids(k) PROVE id'[Children[k][j]] = 0
  <2>1. k = c \/ ~Known(k) \/ Waiting(k)
    BY <1>3, <1>9 DEF Same
  <2>2. id[Children[k][j]] = 0
    BY <1>1, <2>1 DEF PoolInv, FreshInv
  <2>3. Children[k][j] # c
    <3>1. Known(p) /\ Running(p) /\ ~Waiting(p)
      BY <1>1, FrameFacts DEF PoolInv, OnceInv, Running
    <3>2. k # p
      BY <1>1, <2>1, <3>1
    <3> QED
      BY <1>1, <3>2, OneParent
  <2> QED
    BY <1>1, <2>2, <2>3, ChildType
<1>10. ASSUME NEW k \in Tasks, Known(k)', ~Running(k)', ~Waiting(k)', NEW j \in Kids(k)
       PROVE  id'[Children[k][j]] # 0
  <2>1. Known(k) /\ Over(k)
    BY <1>3, <1>10 DEF Same, Over
  <2>2. id[Children[k][j]] # 0
    BY <2>1 DEF PoolInv, EndedInv
  <2> QED
    BY <1>1, <2>2, ChildType
<1> QED
  BY <1>4, <1>5, <1>7, <1>8, <1>9, <1>10 DEF PoolInv, FreshInv, EndedInv, Over

(* After add_task without one: the child gets a frame above its parent.     *)
LEMMA BeginsKeeps ==
  ASSUME PoolInv, PoolTyped', NEW t \in Threads, NEW n, NEW p, NEW a, NEW c, Begins(t, n, p, a, c)
  PROVE  PoolInv'
<1>1. /\ n \in Nat \ {0} /\ n = Depth(t) /\ n \in 1 .. Depth(t) /\ p \in Tasks /\ p = TaskAt(t, n)
      /\ a \in Nat /\ a = AddedAt(t, n) /\ a + 1 \in Kids(p)
      /\ c \in Tasks \ Roots /\ c = Children[p][a + 1]
      /\ id[c] = 0 /\ ~Known(c) /\ Over(c)
      /\ \A u \in Threads : Depth(u)' = IF u = t THEN n + 1 ELSE Depth(u)
      /\ TaskAt(t, n + 1)' = c /\ AddedAt(t, n + 1)' = 0 /\ JoinedAt(t, n + 1)' = 0
      /\ id' = [id EXCEPT ![c] = 1] /\ id \in [Tasks -> Nat]
      /\ tasks' = tasks /\ slot' = slot
  BY DEF Begins, Adding, PoolInv, PoolTyped
<1>2. \A u \in Threads : \A m \in 1 .. Depth(u) :
        /\ TaskAt(u, m)' = TaskAt(u, m) /\ JoinedAt(u, m)' = JoinedAt(u, m)
        /\ AddedAt(u, m)' = IF u = t /\ m = n THEN a + 1 ELSE AddedAt(u, m)
  BY DEF Begins, OneMoreAdded
<1>3. (\A k \in Tasks : k # c => Same(k)) /\ Running(c)' /\ ~Waiting(c)' /\ Known(c)'
  BY BeginsChanges
<1>4. \A u \in Threads : Depth(u) \in Nat
  BY DepthType DEF PoolInv
<1>5. \A u \in Threads : \A m \in 1 .. Depth(u)' : m \in 1 .. Depth(u) \/ (u = t /\ m = n + 1)
  BY <1>1, <1>4
<1>6. SlotInv'
  <2>1. \A j \in Slots : ~IsEmpty(j) => tasks[j].task \in Tasks /\ tasks[j].task # c
    BY <1>1, SlotKnown
  <2> QED
    BY <1>1, <2>1 DEF IsEmpty, PoolInv, SlotInv
<1>7. WorkerInv'
  <2>1. \A w \in Threads : Depth(w) # 0 => 1 \in 1 .. Depth(w)
    BY <1>4
  <2>2. \A w \in Workers \cup Clients : w \in Threads
    BY DEF Threads
  <2>3. \A w \in Threads : (Depth(w)' = 0 <=> Depth(w) = 0) /\ (Depth(w)' > 0 <=> Depth(w) > 0)
    BY <1>1, <1>4
  <2>4. \A w \in Threads : Depth(w) # 0 => TaskAt(w, 1)' = TaskAt(w, 1)
    BY <1>2, <2>1
  <2>5. \A w \in Workers : (IF Depth(w) = 0 THEN slot[w] = -1
                ELSE /\ slot[w] \in Slots /\ tasks[slot[w]].is_being_processed
                     /\ tasks[slot[w]].task = TaskAt(w, 1))'
    BY <1>1, <2>2, <2>3, <2>4 DEF PoolInv, WorkerInv
  <2>6. \A d \in Clients : Depth(d)' > 0 => TaskAt(d, 1)' = Program[d]
    BY <1>4, <2>2, <2>3, <2>4 DEF PoolInv, WorkerInv
  <2>7. /\ \A j \in Slots : tasks'[j].is_being_processed => \E w \in Workers : slot'[w] = j
        /\ \A w1, w2 \in Workers : slot'[w1] = slot'[w2] => slot'[w1] = -1 \/ w1 = w2
    BY <1>1 DEF PoolInv, WorkerInv
  <2> QED
    BY <2>5, <2>6, <2>7 DEF WorkerInv
<1>8. p # c /\ ~Waiting(p)
  <2>1. Known(p) /\ Running(p)
    BY <1>1, FrameFacts DEF Running
  <2> QED
    BY <1>1, <2>1 DEF PoolInv, OnceInv
<1>9. ASSUME NEW u \in Threads, NEW m \in 1 .. Depth(u), NEW q \in Tasks, NEW b \in Nat, NEW x \in Nat,
             q = TaskAt(u, m)', b = AddedAt(u, m)', x = JoinedAt(u, m)'
      PROVE  FrameOf(u, m, q, b, x)'
  <2>1. PICK b0 \in Nat :
          /\ q = TaskAt(u, m) /\ b0 = AddedAt(u, m) /\ x = JoinedAt(u, m)
          /\ m \in Nat /\ m <= Depth(u) /\ Depth(u) \in Nat
          /\ b = IF u = t /\ m = n THEN a + 1 ELSE b0
    BY <1>2, <1>9, DepthType DEF PoolInv
  <2>2. /\ x <= b0 /\ b0 <= Len(Children[q]) /\ Known(q)
        /\ m > 1 => AddedAt(u, m - 1) > 0 /\ q = Children[TaskAt(u, m - 1)][AddedAt(u, m - 1)]
        /\ \A j \in Kids(q) : /\ id[Children[q][j]] # 0 <=> j <= b0
                              /\ j <= x => Over(Children[q][j])
                              /\ \A s \in Slots : ~IsEmpty(s) /\ tasks[s].task = Children[q][j] => tasks[s].thread_id = u
    BY <2>1, FrameFacts
  <2>4. (u = t /\ m = n) => q = p /\ b0 = a /\ a + 1 <= Len(Children[q])
    BY <1>1, <2>1, ChildType
  <2>5. ASSUME m > 1
        PROVE  /\ AddedAt(u, m - 1)' > 0
               /\ q = Children[TaskAt(u, m - 1)'][AddedAt(u, m - 1)']
    <3>1. m - 1 \in 1 .. Depth(u) /\ ~(u = t /\ m - 1 = n)
      BY <1>1, <2>1, <2>5
    <3>2. AddedAt(u, m - 1)' = AddedAt(u, m - 1) /\ TaskAt(u, m - 1)' = TaskAt(u, m - 1)
      BY <1>2, <3>1
    <3> QED
      BY <2>2, <2>5, <3>2
  <2>6. q # c /\ Known(q)'
    BY <1>1, <1>3, <2>1, <2>2 DEF Same
  <2>7. ASSUME NEW j \in Kids(q)
        PROVE  /\ id'[Children[q][j]] # 0 <=> j <= b
               /\ j <= x => Over(Children[q][j])'
               /\ \A s \in Slots : ~IsEmpty(s)' /\ tasks'[s].task = Children[q][j] => tasks'[s].thread_id = u
    <3>0. \A s \in Slots : ~IsEmpty(s)' /\ tasks'[s].task = Children[q][j] => tasks'[s].thread_id = u
      BY <1>1, <2>2 DEF IsEmpty
    <3>1. PICK k \in Tasks : k = Children[q][j] /\ j \in Nat
      BY ChildType
    <3>2. CASE k = c
      <4>1. u = t /\ m = n /\ j = a + 1
        <5>1. /\ n \in 1 .. Depth(t) /\ a + 1 \in Kids(TaskAt(t, n)) /\ j \in Kids(TaskAt(u, m))
              /\ Children[TaskAt(t, n)][a + 1] = Children[TaskAt(u, m)][j]
          BY <1>1, <2>1, <3>1, <3>2
        <5>2. t = u /\ n = m /\ a + 1 = j
          BY <5>1, OneFrame
        <5> QED
          BY <5>2
      <4>2. ~(j <= x)
        BY <1>1, <2>1, <2>2, <2>4, <4>1
      <4> QED
        BY <1>1, <2>1, <2>4, <3>0, <3>1, <3>2, <4>1, <4>2
    <3>3. CASE k # c
      <4>1. id'[k] = id[k] /\ Same(k)
        BY <1>1, <1>3, <3>1, <3>3
      <4>2. u = t /\ m = n => j # a + 1
        BY <1>1, <2>4, <3>1, <3>3
      <4>3. id[k] # 0 <=> j <= b
        <5>1. id[k] # 0 <=> j <= b0
          BY <2>2, <3>1
        <5>2. CASE u = t /\ m = n
          BY <1>1, <2>1, <2>4, <3>1, <4>2, <5>1, <5>2
        <5>3. CASE ~(u = t /\ m = n)
          BY <2>1, <5>1, <5>3
        <5> QED
          BY <5>2, <5>3
      <4>4. j <= x => Over(k)'
        BY <2>2, <3>1, <4>1 DEF Over, Same
      <4> QED
        BY <3>0, <3>1, <4>1, <4>3, <4>4
    <3> QED
      BY <3>2, <3>3
  <2>8. x <= b /\ b <= Len(Children[q])
    BY <1>1, <2>1, <2>2, <2>4
  <2> QED
    BY <2>5, <2>6, <2>7, <2>8 DEF FrameOf
<1>10. FrameOf(t, n + 1, c, 0, 0)'
  <2>1. ASSUME NEW j \in Kids(c)
        PROVE  /\ j \in Nat \ {0} /\ id'[Children[c][j]] = 0
               /\ \A s \in Slots : ~(~IsEmpty(s)' /\ tasks'[s].task = Children[c][j])
    <3>1. PICK k \in Tasks : k = Children[c][j] /\ j \in Nat \ {0}
      <4>1. Children[c][j] \in Tasks
        BY <1>1, ChildType
      <4>2. PICK l \in Nat : l = Len(Children[c]) /\ j \in 1 .. l
        BY <1>1, ChildType
      <4>3. j \in Nat \ {0}
        BY <4>2
      <4> QED
        BY <4>1, <4>3
    <3>2. id[k] = 0
      BY <1>1, <3>1 DEF PoolInv, FreshInv
    <3>3. k # c
      BY <1>1, <1>8, <3>1, OneParent
    <3>4. \A s \in Slots : ~(~IsEmpty(s) /\ tasks[s].task = k)
      BY <3>2, SlotKnown
    <3> QED
      BY <1>1, <3>1, <3>2, <3>3, <3>4 DEF IsEmpty
  <2>2. Len(Children[c]) \in Nat
    BY <1>1, ChildType
  <2>3. n + 1 - 1 = n /\ AddedAt(t, n)' = a + 1 /\ TaskAt(t, n)' = p
    BY <1>1, <1>2
  <2>4. AddedAt(t, n + 1 - 1)' > 0 /\ c = Children[TaskAt(t, n + 1 - 1)'][AddedAt(t, n + 1 - 1)']
    BY <1>1, <2>3
  <2>5. ASSUME NEW j \in Kids(c)
        PROVE  /\ id'[Children[c][j]] # 0 <=> j <= 0
               /\ j <= 0 => Over(Children[c][j])'
               /\ \A s \in Slots : ~IsEmpty(s)' /\ tasks'[s].task = Children[c][j] => tasks'[s].thread_id = t
    <3>1. ~(j <= 0)
      BY <2>1
    <3> QED
      BY <2>1, <3>1
  <2>6. 0 <= 0 /\ 0 <= Len(Children[c])
    BY <2>2
  <2>7. PICK r, z : r = n + 1 /\ z = 0
    OBVIOUS
  <2>8. FrameOf(t, r, c, z, z)'
    <3>1. r > 1 => AddedAt(t, r - 1)' > 0 /\ c = Children[TaskAt(t, r - 1)'][AddedAt(t, r - 1)']
      <4>1. r - 1 = n
        BY <1>1, <2>7
      <4>2. AddedAt(t, r - 1)' = a + 1
        BY <2>3, <4>1 DEF AddedAt
      <4>3. TaskAt(t, r - 1)' = p
        BY <2>3, <4>1 DEF TaskAt
      <4>4. a + 1 > 0
        BY <1>1
      <4> QED
        BY <1>1, <4>2, <4>3, <4>4
    <3>2. z <= z /\ z <= Len(Children[c]) /\ Known(c)'
      BY <1>3, <2>6, <2>7
    <3>3. \A j \in Kids(c) :
               /\ id'[Children[c][j]] # 0 <=> j <= z
               /\ j <= z => Over(Children[c][j])'
               /\ \A s \in Slots : ~IsEmpty(s)' /\ tasks'[s].task = Children[c][j] => tasks'[s].thread_id = t
      BY <2>5, <2>7
    <3> QED
      BY <3>1, <3>2, <3>3 DEF FrameOf
  <2> QED
    BY <2>7, <2>8
<1>11. FrameInv'
  BY <1>1, <1>5, <1>9, <1>10 DEF FrameInv
<1>12. OnceInv'
  <2>1. \A u \in Threads : \A m \in 1 .. Depth(u) : TaskAt(u, m)' = TaskAt(u, m) /\ TaskAt(u, m) # c
    BY <1>1, <1>2 DEF Over, Running
  <2>2. \A u, w \in Threads : \A m \in 1 .. Depth(u)', l \in 1 .. Depth(w)' :
          TaskAt(u, m)' = TaskAt(w, l)' => u = w /\ m = l
    BY <1>1, <1>5, <2>1 DEF PoolInv, OnceInv
  <2>3. \A k \in Tasks : ~(Running(k)' /\ Waiting(k)')
    BY <1>3 DEF PoolInv, OnceInv, Same
  <2> QED
    BY <2>2, <2>3 DEF OnceInv
<1>13. ASSUME NEW k \in Tasks, ~Known(k)' \/ Waiting(k)', NEW j \in Kids(k) PROVE id'[Children[k][j]] = 0
  <2>1. k # c /\ (~Known(k) \/ Waiting(k))
    BY <1>3, <1>13 DEF Same
  <2>2. id[Children[k][j]] = 0
    BY <1>1, <2>1 DEF PoolInv, FreshInv
  <2>3. Children[k][j] # c
    <3>1. Known(p)
      BY <1>1, FrameFacts
    <3>2. k # p
      BY <1>8, <2>1, <3>1
    <3> QED
      BY <1>1, <3>2, OneParent
  <2> QED
    BY <1>1, <2>2, <2>3, ChildType
<1>14. ASSUME NEW k \in Tasks, Known(k)', ~Running(k)', ~Waiting(k)', NEW j \in Kids(k)
       PROVE  id'[Children[k][j]] # 0
  <2>1. Known(k) /\ Over(k)
    BY <1>3, <1>14 DEF Same, Over
  <2>2. id[Children[k][j]] # 0
    BY <2>1 DEF PoolInv, EndedInv
  <2> QED
    BY <1>1, <2>2, ChildType
<1> QED
  BY <1>6, <1>7, <1>11, <1>12, <1>13, <1>14 DEF PoolInv, FreshInv, EndedInv, Over

(* After a join: what it waited for is over, and stays so.                  *)
LEMMA JoinsKeeps ==
  ASSUME PoolInv, PoolTyped', NEW t \in Threads, NEW n, NEW p, NEW y, Joins(t, n, p, y)
  PROVE  PoolInv'
<1>1. /\ n \in Nat \ {0} /\ n = Depth(t) /\ p \in Tasks /\ p = TaskAt(t, n)
      /\ y \in Nat /\ y <= Len(Children[p]) /\ AddedAt(t, n) = Len(Children[p])
      /\ \A j \in Kids(p) : j <= y => Over(Children[p][j])
      /\ \A u \in Threads : Depth(u)' = Depth(u)
      /\ tasks' = tasks /\ slot' = slot /\ id' = id
  BY DEF Joins
<1>2. \A u \in Threads : \A m \in 1 .. Depth(u) :
        /\ TaskAt(u, m)' = TaskAt(u, m) /\ AddedAt(u, m)' = AddedAt(u, m)
        /\ JoinedAt(u, m)' = IF u = t /\ m = n THEN y ELSE JoinedAt(u, m)
  BY DEF Joins
<1>3. \A k \in Tasks : Same(k)
  BY JoinsChanges
<1>4. SlotInv'
  BY <1>1 DEF SlotInv, PoolInv, IsEmpty
<1>5. WorkerInv'
  <2>1. \A w \in Workers \cup Clients : w \in Threads
    BY DEF Threads
  <2>2. \A w \in Threads : Depth(w) \in Nat /\ (Depth(w) # 0 => 1 \in 1 .. Depth(w))
    BY DepthType DEF PoolInv
  <2>3. \A w \in Threads : Depth(w) # 0 => TaskAt(w, 1)' = TaskAt(w, 1)
    BY <1>2, <2>2
  <2>4. \A w \in Workers : (IF Depth(w) = 0 THEN slot[w] = -1
                ELSE /\ slot[w] \in Slots /\ tasks[slot[w]].is_being_processed
                     /\ tasks[slot[w]].task = TaskAt(w, 1))'
    BY <1>1, <2>1, <2>3 DEF PoolInv, WorkerInv
  <2>5. \A d \in Clients : Depth(d)' > 0 => TaskAt(d, 1)' = Program[d]
    BY <1>1, <2>1, <2>2, <2>3 DEF PoolInv, WorkerInv
  <2>6. /\ \A j \in Slots : tasks'[j].is_being_processed => \E w \in Workers : slot'[w] = j
        /\ \A w1, w2 \in Workers : slot'[w1] = slot'[w2] => slot'[w1] = -1 \/ w1 = w2
    BY <1>1 DEF PoolInv, WorkerInv
  <2> QED
    BY <2>4, <2>5, <2>6 DEF WorkerInv
<1>6. ASSUME NEW u \in Threads, NEW m \in 1 .. Depth(u), NEW q \in Tasks, NEW b \in Nat, NEW x \in Nat,
             q = TaskAt(u, m)', b = AddedAt(u, m)', x = JoinedAt(u, m)'
      PROVE  FrameOf(u, m, q, b, x)'
  <2>1. PICK x0 \in Nat :
          /\ q = TaskAt(u, m) /\ b = AddedAt(u, m) /\ x0 = JoinedAt(u, m)
          /\ m \in Nat /\ m <= Depth(u) /\ Depth(u) \in Nat
          /\ x = IF u = t /\ m = n THEN y ELSE x0
    BY <1>2, <1>6, DepthType DEF PoolInv
  <2>2. /\ x0 <= b /\ b <= Len(Children[q]) /\ Known(q)
        /\ m > 1 => AddedAt(u, m - 1) > 0 /\ q = Children[TaskAt(u, m - 1)][AddedAt(u, m - 1)]
        /\ \A j \in Kids(q) : /\ id[Children[q][j]] # 0 <=> j <= b
                              /\ j <= x0 => Over(Children[q][j])
                              /\ \A s \in Slots : ~IsEmpty(s) /\ tasks[s].task = Children[q][j] => tasks[s].thread_id = u
    BY <2>1, FrameFacts
  <2>3. m > 1 => AddedAt(u, m - 1)' > 0 /\ q = Children[TaskAt(u, m - 1)'][AddedAt(u, m - 1)']
    <3>1. m > 1 => m - 1 \in 1 .. Depth(u)
      BY <2>1
    <3> QED
      BY <1>2, <2>2, <3>1
  <2>4. Known(q)'
    BY <1>1, <2>2 DEF Known
  <2>5. x <= b
    BY <1>1, <2>1, <2>2
  <2>6. ASSUME NEW j \in Kids(q)
        PROVE  /\ id'[Children[q][j]] # 0 <=> j <= b
               /\ j <= x => Over(Children[q][j])'
               /\ \A s \in Slots : ~IsEmpty(s)' /\ tasks'[s].task = Children[q][j] => tasks'[s].thread_id = u
    <3>1. PICK k \in Tasks : k = Children[q][j]
      BY ChildType
    <3>2. j <= x => Over(k)
      BY <1>1, <2>1, <2>2, <3>1
    <3>3. Over(k) => Over(k)'
      BY <1>3, <3>1 DEF Over, Same
    <3> QED
      BY <1>1, <2>2, <3>1, <3>2, <3>3 DEF IsEmpty
  <2> QED
    BY <2>2, <2>3, <2>4, <2>5, <2>6 DEF FrameOf
<1>7. FrameInv'
  BY <1>1, <1>6 DEF FrameInv
<1>8. OnceInv'
  <2>1. \A u, w \in Threads : \A m \in 1 .. Depth(u)', l \in 1 .. Depth(w)' :
          TaskAt(u, m)' = TaskAt(w, l)' => u = w /\ m = l
    BY <1>1, <1>2 DEF PoolInv, OnceInv
  <2>2. \A k \in Tasks : ~(Running(k)' /\ Waiting(k)')
    BY <1>3 DEF PoolInv, OnceInv, Same
  <2> QED
    BY <2>1, <2>2 DEF OnceInv
<1>9. FreshInv'
  BY <1>1, <1>3 DEF PoolInv, FreshInv, Same
<1>10. ASSUME NEW k \in Tasks, Known(k)', ~Running(k)', ~Waiting(k)', NEW j \in Kids(k)
       PROVE  id'[Children[k][j]] # 0
  <2>1. Known(k) /\ Over(k)
    BY <1>3, <1>10 DEF Same, Over
  <2> QED
    BY <1>1, <2>1 DEF PoolInv, EndedInv
<1> QED
  BY <1>4, <1>5, <1>7, <1>8, <1>9, <1>10 DEF PoolInv, EndedInv, Over

(* After the end of a task that was done in place, or of a program.         *)
LEMMA EndsInPlaceKeeps ==
  ASSUME PoolInv, PoolTyped', NEW t \in Threads, NEW n, NEW p, EndsInPlace(t, n, p)
  PROVE  PoolInv'
<1>1. /\ n \in Nat \ {0} /\ n = Depth(t) /\ p \in Tasks /\ p = TaskAt(t, n)
      /\ t \in Workers => n > 1
      /\ \A j \in Kids(p) : id[Children[p][j]] # 0
      /\ \A u \in Threads : Depth(u)' = IF u = t THEN n - 1 ELSE Depth(u)
      /\ tasks' = tasks /\ slot' = slot /\ id' = id
  BY DEF EndsInPlace, Finished
<1>2. \A u \in Threads : \A m \in 1 .. Depth(u)' :
        /\ TaskAt(u, m)' = TaskAt(u, m) /\ AddedAt(u, m)' = AddedAt(u, m)
        /\ JoinedAt(u, m)' = JoinedAt(u, m)
  BY DEF EndsInPlace
<1>3. (\A k \in Tasks : k # p => Same(k)) /\ ~Running(p)' /\ ~Waiting(p)' /\ Known(p)' /\ Running(p)
  BY EndsInPlaceChanges
<1>4. \A u \in Threads : Depth(u) \in Nat /\ Depth(u)' \in Nat /\ \A m \in 1 .. Depth(u)' : m \in 1 .. Depth(u)
  BY <1>1, DepthType DEF PoolInv
<1>5. SlotInv'
  BY <1>1 DEF SlotInv, PoolInv, IsEmpty
<1>6. WorkerInv'
  <2>1. \A w \in Workers \cup Clients : w \in Threads
    BY DEF Threads
  <2>2. \A w \in Threads : Depth(w)' # 0 => Depth(w) # 0 /\ TaskAt(w, 1)' = TaskAt(w, 1)
    <3>1. \A w \in Threads : Depth(w)' # 0 => 1 \in 1 .. Depth(w)' /\ Depth(w) # 0
      BY <1>1, <1>4
    <3> QED
      BY <1>2, <3>1
  <2>3. \A w \in Workers : Depth(w)' = 0 => Depth(w) = 0
    BY <1>1, <2>1
  <2>4. \A w \in Workers : (IF Depth(w) = 0 THEN slot[w] = -1
                ELSE /\ slot[w] \in Slots /\ tasks[slot[w]].is_being_processed
                     /\ tasks[slot[w]].task = TaskAt(w, 1))'
    BY <1>1, <2>1, <2>2, <2>3 DEF PoolInv, WorkerInv
  <2>5. \A d \in Clients : Depth(d)' > 0 => TaskAt(d, 1)' = Program[d]
    BY <1>1, <1>4, <2>1, <2>2 DEF PoolInv, WorkerInv
  <2>6. /\ \A j \in Slots : tasks'[j].is_being_processed => \E w \in Workers : slot'[w] = j
        /\ \A w1, w2 \in Workers : slot'[w1] = slot'[w2] => slot'[w1] = -1 \/ w1 = w2
    BY <1>1 DEF PoolInv, WorkerInv
  <2> QED
    BY <2>4, <2>5, <2>6 DEF WorkerInv
<1>7. \A k \in Tasks : Over(k) => Over(k)'
  BY <1>3 DEF Over, Same
<1>8. ASSUME NEW u \in Threads, NEW m \in 1 .. Depth(u)', NEW q \in Tasks, NEW b \in Nat, NEW x \in Nat,
             q = TaskAt(u, m)', b = AddedAt(u, m)', x = JoinedAt(u, m)'
      PROVE  FrameOf(u, m, q, b, x)'
  <2>1. /\ q = TaskAt(u, m) /\ b = AddedAt(u, m) /\ x = JoinedAt(u, m)
        /\ m \in Nat /\ m \in 1 .. Depth(u) /\ m <= Depth(u)' /\ Depth(u)' \in Nat
    BY <1>2, <1>4, <1>8
  <2>2. /\ x <= b /\ b <= Len(Children[q]) /\ Known(q)
        /\ m > 1 => AddedAt(u, m - 1) > 0 /\ q = Children[TaskAt(u, m - 1)][AddedAt(u, m - 1)]
        /\ \A j \in Kids(q) : /\ id[Children[q][j]] # 0 <=> j <= b
                              /\ j <= x => Over(Children[q][j])
                              /\ \A s \in Slots : ~IsEmpty(s) /\ tasks[s].task = Children[q][j] => tasks[s].thread_id = u
    BY <2>1, FrameFacts
  <2>3. m > 1 => AddedAt(u, m - 1)' > 0 /\ q = Children[TaskAt(u, m - 1)'][AddedAt(u, m - 1)']
    <3>1. m > 1 => m - 1 \in 1 .. Depth(u)'
      BY <2>1
    <3> QED
      BY <1>2, <2>2, <3>1
  <2>4. Known(q)'
    BY <1>1, <2>2 DEF Known
  <2>5. ASSUME NEW j \in Kids(q)
        PROVE  /\ id'[Children[q][j]] # 0 <=> j <= b
               /\ j <= x => Over(Children[q][j])'
               /\ \A s \in Slots : ~IsEmpty(s)' /\ tasks'[s].task = Children[q][j] => tasks'[s].thread_id = u
    <3>1. PICK k \in Tasks : k = Children[q][j]
      BY ChildType
    <3> QED
      BY <1>1, <1>7, <2>2, <3>1 DEF IsEmpty
  <2> QED
    BY <2>2, <2>3, <2>4, <2>5 DEF FrameOf
<1>9. FrameInv'
  BY <1>8 DEF FrameInv
<1>10. OnceInv'
  <2>1. \A u, w \in Threads : \A m \in 1 .. Depth(u)', l \in 1 .. Depth(w)' :
          TaskAt(u, m)' = TaskAt(w, l)' => u = w /\ m = l
    BY <1>2, <1>4 DEF PoolInv, OnceInv
  <2>2. \A k \in Tasks : ~(Running(k)' /\ Waiting(k)')
    BY <1>3 DEF PoolInv, OnceInv, Same
  <2> QED
    BY <2>1, <2>2 DEF OnceInv
<1>11. ASSUME NEW k \in Tasks, ~Known(k)' \/ Waiting(k)', NEW j \in Kids(k) PROVE id'[Children[k][j]] = 0
  <2>1. ~Known(k) \/ Waiting(k)
    BY <1>3, <1>11 DEF Same
  <2> QED
    BY <1>1, <2>1 DEF PoolInv, FreshInv
<1>12. ASSUME NEW k \in Tasks, Known(k)', ~Running(k)', ~Waiting(k)', NEW j \in Kids(k)
       PROVE  id'[Children[k][j]] # 0
  <2>1. CASE k = p
    BY <1>1, <2>1
  <2>2. CASE k # p
    BY <1>1, <1>3, <1>12, <2>2 DEF Same, Over, PoolInv, EndedInv
  <2> QED
    BY <2>1, <2>2
<1> QED
  BY <1>5, <1>6, <1>9, <1>10, <1>11, <1>12 DEF PoolInv, FreshInv, EndedInv, Over

(* After a worker took a task: a slot is taken by one.                      *)
LEMMA TakesKeeps ==
  ASSUME PoolInv, PoolTyped', NEW w, NEW i, NEW k, Takes(w, i, k)
  PROVE  PoolInv'
<1>1. /\ w \in Workers /\ w \in Threads /\ Depth(w) = 0 /\ i \in Slots /\ IsReady(i) /\ ~IsEmpty(i)
      /\ ~tasks[i].is_being_processed
      /\ k \in Tasks /\ k = tasks[i].task /\ id' = id
      /\ Depth(w)' = 1 /\ TaskAt(w, 1)' = k /\ AddedAt(w, 1)' = 0 /\ JoinedAt(w, 1)' = 0
      /\ slot' = [slot EXCEPT ![w] = i] /\ slot \in [Workers -> Slots \cup {-1}]
      /\ \A j \in Slots : j # i => tasks'[j] = tasks[j]
      /\ tasks'[i].task = k /\ tasks'[i].task_id = tasks[i].task_id
      /\ tasks'[i].thread_id = tasks[i].thread_id /\ tasks'[i].next_task_id = tasks[i].next_task_id
      /\ tasks'[i].is_being_processed
  BY DEF Takes, Threads, IsReady, PoolInv, PoolTyped
<1>2. \A u \in Threads \ {w} : /\ Depth(u)' = Depth(u)
        /\ \A m \in 1 .. Depth(u) :
             /\ TaskAt(u, m)' = TaskAt(u, m) /\ AddedAt(u, m)' = AddedAt(u, m)
             /\ JoinedAt(u, m)' = JoinedAt(u, m)
  BY DEF Takes, OthersFrames
<1>3. /\ \A q \in Tasks : q # k => Same(q)
      /\ Waiting(k) /\ Running(k)' /\ ~Waiting(k)' /\ Known(k) /\ Known(k)'
  BY TakesChanges
<1>4. \A u \in Threads : Depth(u) \in Nat
  BY DepthType DEF PoolInv
<1>5. \A u \in Threads : \A m \in 1 .. Depth(u)' :
        (u # w /\ m \in 1 .. Depth(u) /\ TaskAt(u, m) # k) \/ (u = w /\ m = 1)
  <2>1. ~Running(k)
    BY <1>1, <1>3 DEF PoolInv, OnceInv
  <2>2. \A u \in Threads : \A m \in 1 .. Depth(u)' : (u # w /\ m \in 1 .. Depth(u)) \/ (u = w /\ m = 1)
    BY <1>1, <1>2, <1>4
  <2> QED
    BY <2>1, <2>2 DEF Running
<1>6. \A j \in Slots : (IsEmpty(j)' <=> IsEmpty(j)) /\ tasks'[j].task = tasks[j].task /\ tasks'[j].thread_id = tasks[j].thread_id
  BY <1>1 DEF IsEmpty
<1>7. SlotInv'
  <2> SUFFICES ASSUME NEW j \in Slots
      PROVE  (/\ tasks[j].next_task_id >= 2
              /\ IsEmpty(j) => ~tasks[j].is_being_processed
              /\ ~IsEmpty(j) => /\ tasks[j].task \in Tasks
                                /\ id[tasks[j].task] = tasks[j].task_id
                                /\ tasks[j].task_id % Size = j)'
    BY DEF SlotInv
  <2>1. CASE j = i
    BY <1>1, <1>6, <2>1 DEF PoolInv, SlotInv
  <2>2. CASE j # i
    BY <1>1, <1>6, <2>2 DEF PoolInv, SlotInv
  <2> QED
    BY <2>1, <2>2
<1>8. \A v \in Workers : v # w => slot'[v] = slot[v] /\ slot[v] # i
  BY <1>1, DepthType, SizeType DEF PoolInv, WorkerInv, Threads
<1>9. WorkerInv'
  <2>1. \A v \in Workers \cup Clients : v \in Threads /\ (v \in Clients => v # w)
    BY <1>1, ThreadPoolAssumption DEF Threads
  <2>2. \A v \in Threads \ {w} : Depth(v) # 0 => TaskAt(v, 1)' = TaskAt(v, 1)
    BY <1>2, <1>4
  <2>3. ASSUME NEW v \in Workers
        PROVE  (IF Depth(v) = 0 THEN slot[v] = -1
                ELSE /\ slot[v] \in Slots /\ tasks[slot[v]].is_being_processed
                     /\ tasks[slot[v]].task = TaskAt(v, 1))'
    <3>1. CASE v = w
      BY <1>1, <3>1
    <3>2. CASE v # w
      <4>1. v \in Threads \ {w} /\ slot'[v] = slot[v] /\ slot[v] # i /\ Depth(v)' = Depth(v)
        BY <1>2, <1>8, <2>1, <3>2
      <4>2. IF Depth(v) = 0 THEN slot[v] = -1
            ELSE /\ slot[v] \in Slots /\ tasks[slot[v]].is_being_processed
                 /\ tasks[slot[v]].task = TaskAt(v, 1)
        BY DEF PoolInv, WorkerInv
      <4> QED
        BY <1>1, <2>2, <4>1, <4>2
    <3> QED
      BY <3>1, <3>2
  <2>4. \A v1, v2 \in Workers : slot'[v1] = slot'[v2] => slot'[v1] = -1 \/ v1 = v2
    BY <1>1, <1>8 DEF PoolInv, WorkerInv
  <2>5. ASSUME NEW j \in Slots, tasks'[j].is_being_processed PROVE \E v \in Workers : slot'[v] = j
    <3>1. CASE j = i
      BY <1>1, <3>1
    <3>2. CASE j # i
      <4>1. PICK v \in Workers : slot[v] = j
        BY <1>1, <2>5, <3>2 DEF PoolInv, WorkerInv
      <4>2. v # w
        <5>1. slot[w] = -1
          BY <1>1 DEF PoolInv, WorkerInv
        <5>2. j # -1
          BY SizeType
        <5> QED
          BY <4>1, <5>1, <5>2
      <4> QED
        BY <1>8, <4>1, <4>2
    <3> QED
      BY <3>1, <3>2
  <2>6. \A d \in Clients : Depth(d)' > 0 => TaskAt(d, 1)' = Program[d]
    <3>1. \A d \in Clients : d \in Threads \ {w} /\ Depth(d)' = Depth(d) /\ Depth(d) \in Nat
      BY <1>2, <1>4, <2>1
    <3> QED
      BY <2>2, <3>1 DEF PoolInv, WorkerInv
  <2> QED
    BY <2>3, <2>4, <2>5, <2>6 DEF WorkerInv
<1>10. ASSUME NEW u \in Threads, u # w, NEW m \in 1 .. Depth(u), NEW q \in Tasks, NEW b \in Nat, NEW x \in Nat,
             q = TaskAt(u, m)', b = AddedAt(u, m)', x = JoinedAt(u, m)'
      PROVE  FrameOf(u, m, q, b, x)'
  <2>1. /\ q = TaskAt(u, m) /\ b = AddedAt(u, m) /\ x = JoinedAt(u, m)
        /\ m \in Nat /\ m <= Depth(u) /\ Depth(u) \in Nat
    BY <1>2, <1>4, <1>10
  <2>2. /\ x <= b /\ b <= Len(Children[q]) /\ Known(q)
        /\ m > 1 => AddedAt(u, m - 1) > 0 /\ q = Children[TaskAt(u, m - 1)][AddedAt(u, m - 1)]
        /\ \A j \in Kids(q) : /\ id[Children[q][j]] # 0 <=> j <= b
                              /\ j <= x => Over(Children[q][j])
                              /\ \A s \in Slots : ~IsEmpty(s) /\ tasks[s].task = Children[q][j] => tasks[s].thread_id = u
    BY <2>1, FrameFacts
  <2>3. m > 1 => AddedAt(u, m - 1)' > 0 /\ q = Children[TaskAt(u, m - 1)'][AddedAt(u, m - 1)']
    <3>1. m > 1 => m - 1 \in 1 .. Depth(u)
      BY <2>1
    <3> QED
      BY <1>2, <1>10, <2>2, <3>1
  <2>4. Known(q)'
    BY <1>1, <2>2 DEF Known
  <2>5. ASSUME NEW j \in Kids(q)
        PROVE  /\ id'[Children[q][j]] # 0 <=> j <= b
               /\ j <= x => Over(Children[q][j])'
               /\ \A s \in Slots : ~IsEmpty(s)' /\ tasks'[s].task = Children[q][j] => tasks'[s].thread_id = u
    <3>1. PICK c \in Tasks : c = Children[q][j]
      BY ChildType
    <3>2. Over(c) => Over(c)'
      BY <1>3, <3>1 DEF Over, Same
    <3> QED
      BY <1>1, <1>6, <2>2, <3>1, <3>2
  <2> QED
    BY <2>2, <2>3, <2>4, <2>5 DEF FrameOf
<1>11. FrameOf(w, 1, k, 0, 0)'
  <2>1. PICK z \in Nat : z = 0 /\ z <= z /\ z <= Len(Children[k])
    BY <1>1, ChildType
  <2>2. ASSUME NEW j \in Kids(k)
        PROVE  /\ id'[Children[k][j]] # 0 <=> j <= z
               /\ j <= z => Over(Children[k][j])'
               /\ \A s \in Slots : ~IsEmpty(s)' /\ tasks'[s].task = Children[k][j] => tasks'[s].thread_id = w
    <3>1. PICK c \in Tasks : c = Children[k][j]
      BY <1>1, ChildType
    <3>2. j \in Nat \ {0}
      <4>1. PICK l \in Nat : l = Len(Children[k]) /\ j \in 1 .. l
        BY <1>1, ChildType
      <4> QED
        BY <4>1
    <3>3. id[c] = 0
      BY <1>1, <1>3, <3>1 DEF PoolInv, FreshInv
    <3>4. \A s \in Slots : ~(~IsEmpty(s) /\ tasks[s].task = c)
      BY <3>3, SlotKnown
    <3> QED
      BY <1>1, <1>6, <2>1, <3>1, <3>2, <3>3, <3>4
  <2>3. FrameOf(w, 1, k, z, z)'
    <3>1. ~(1 > 1)
      OBVIOUS
    <3> QED
      BY <1>3, <2>1, <2>2, <3>1 DEF FrameOf
  <2> QED
    BY <2>1, <2>3
<1>12. FrameInv'
  <2> SUFFICES ASSUME NEW u \in Threads, NEW m \in 1 .. Depth(u)', NEW q \in Tasks, NEW b \in Nat, NEW x \in Nat,
             q = TaskAt(u, m)', b = AddedAt(u, m)', x = JoinedAt(u, m)'
      PROVE  FrameOf(u, m, q, b, x)'
    BY DEF FrameInv
  <2>1. CASE u # w
    <3>1. m \in 1 .. Depth(u)
      BY <1>5, <2>1
    <3> QED
      BY <1>10, <2>1, <3>1
  <2>2. CASE u = w
    <3>1. m = 1
      BY <1>5, <2>2
    <3>2. q = k /\ b = 0 /\ x = 0
      BY <1>1, <2>2, <3>1
    <3> QED
      BY <1>11, <2>2, <3>1, <3>2
  <2> QED
    BY <2>1, <2>2
<1>13. OnceInv'
  <2>1. \A u, v \in Threads : \A m \in 1 .. Depth(u)', l \in 1 .. Depth(v)' :
          TaskAt(u, m)' = TaskAt(v, l)' => u = v /\ m = l
    <3>1. \A u \in Threads \ {w} : \A m \in 1 .. Depth(u)' :
             m \in 1 .. Depth(u) /\ TaskAt(u, m)' = TaskAt(u, m) /\ TaskAt(u, m) # k
      BY <1>2, <1>5
    <3>2. \A m \in 1 .. Depth(w)' : m = 1 /\ TaskAt(w, m)' = k
      BY <1>1
    <3> QED
      BY <3>1, <3>2 DEF PoolInv, OnceInv
  <2>2. \A q \in Tasks : ~(Running(q)' /\ Waiting(q)')
    BY <1>3 DEF PoolInv, OnceInv, Same
  <2> QED
    BY <2>1, <2>2 DEF OnceInv
<1>14. ASSUME NEW q \in Tasks, ~Known(q)' \/ Waiting(q)', NEW j \in Kids(q) PROVE id'[Children[q][j]] = 0
  <2>1. ~Known(q) \/ Waiting(q)
    BY <1>3, <1>14 DEF Same
  <2> QED
    BY <1>1, <2>1 DEF PoolInv, FreshInv
<1>15. ASSUME NEW q \in Tasks, Known(q)', ~Running(q)', ~Waiting(q)', NEW j \in Kids(q)
       PROVE  id'[Children[q][j]] # 0
  <2>1. Known(q) /\ Over(q)
    BY <1>3, <1>15 DEF Same, Over
  <2> QED
    BY <1>1, <2>1 DEF PoolInv, EndedInv
<1> QED
  BY <1>7, <1>9, <1>12, <1>13, <1>14, <1>15 DEF PoolInv, FreshInv, EndedInv, Over

(* After the end of a task in its slot.                                     *)
LEMMA EndsTaskKeeps ==
  ASSUME PoolInv, PoolTyped', NEW w, NEW p, NEW i, EndsTask(w, p, i)
  PROVE  PoolInv'
<1>1. /\ w \in Workers /\ w \in Threads /\ Depth(w) = 1 /\ p \in Tasks /\ p = TaskAt(w, 1)
      /\ \A j \in Kids(p) : id[Children[p][j]] # 0
      /\ i \in Slots /\ i = slot[w] /\ tasks[i].task = p /\ tasks[i].is_being_processed
      /\ Depth(w)' = 0
      /\ slot' = [slot EXCEPT ![w] = -1] /\ slot \in [Workers -> Slots \cup {-1}]
      /\ id' = id
      /\ \A j \in Slots : j # i => tasks'[j] = tasks[j]
      /\ tasks'[i].task_id = 0 /\ ~tasks'[i].is_being_processed
      /\ tasks'[i].next_task_id = tasks[i].next_task_id
  BY DEF EndsTask, Finished, Threads, PoolInv, PoolTyped
<1>2. \A u \in Threads \ {w} : /\ Depth(u)' = Depth(u)
        /\ \A m \in 1 .. Depth(u) :
             /\ TaskAt(u, m)' = TaskAt(u, m) /\ AddedAt(u, m)' = AddedAt(u, m)
             /\ JoinedAt(u, m)' = JoinedAt(u, m)
  BY DEF EndsTask, OthersFrames
<1>3. (\A q \in Tasks : q # p => Same(q)) /\ Running(p) /\ ~Running(p)' /\ ~Waiting(p)' /\ Known(p)'
  BY EndsTaskChanges
<1>4. \A u \in Threads : Depth(u) \in Nat
  BY DepthType DEF PoolInv
<1>5. \A u \in Threads : \A m \in 1 .. Depth(u)' : u # w /\ m \in 1 .. Depth(u)
  BY <1>1, <1>2, <1>4
<1>6. \A j \in Slots : ~IsEmpty(j)' => ~IsEmpty(j) /\ j # i /\ tasks'[j] = tasks[j]
  BY <1>1 DEF IsEmpty
<1>7. SlotInv'
  <2> SUFFICES ASSUME NEW j \in Slots
      PROVE  (/\ tasks[j].next_task_id >= 2
              /\ IsEmpty(j) => ~tasks[j].is_being_processed
              /\ ~IsEmpty(j) => /\ tasks[j].task \in Tasks
                                /\ id[tasks[j].task] = tasks[j].task_id
                                /\ tasks[j].task_id % Size = j)'
    BY DEF SlotInv
  <2>1. CASE j = i
    BY <1>1, <1>6, <2>1 DEF PoolInv, SlotInv
  <2>2. CASE j # i
    BY <1>1, <1>6, <2>2 DEF PoolInv, SlotInv, IsEmpty
  <2> QED
    BY <2>1, <2>2
<1>8. \A v \in Workers : v # w => slot'[v] = slot[v] /\ slot[v] # i
  <2>1. i # -1
    BY <1>1, SizeType
  <2> QED
    BY <1>1, <2>1 DEF PoolInv, WorkerInv
<1>9. WorkerInv'
  <2>1. \A v \in Workers \cup Clients : v \in Threads /\ (v \in Clients => v # w)
    BY <1>1, ThreadPoolAssumption DEF Threads
  <2>2. \A v \in Threads \ {w} : Depth(v) # 0 => TaskAt(v, 1)' = TaskAt(v, 1)
    BY <1>2, <1>4
  <2>3. ASSUME NEW v \in Workers
        PROVE  (IF Depth(v) = 0 THEN slot[v] = -1
                ELSE /\ slot[v] \in Slots /\ tasks[slot[v]].is_being_processed
                     /\ tasks[slot[v]].task = TaskAt(v, 1))'
    <3>1. CASE v = w
      BY <1>1, <3>1
    <3>2. CASE v # w
      <4>1. v \in Threads \ {w} /\ slot'[v] = slot[v] /\ slot[v] # i /\ Depth(v)' = Depth(v)
        BY <1>2, <1>8, <2>1, <3>2
      <4>2. IF Depth(v) = 0 THEN slot[v] = -1
            ELSE /\ slot[v] \in Slots /\ tasks[slot[v]].is_being_processed
                 /\ tasks[slot[v]].task = TaskAt(v, 1)
        BY DEF PoolInv, WorkerInv
      <4> QED
        BY <1>1, <2>2, <4>1, <4>2
    <3> QED
      BY <3>1, <3>2
  <2>4. \A v1, v2 \in Workers : slot'[v1] = slot'[v2] => slot'[v1] = -1 \/ v1 = v2
    BY <1>1, <1>8 DEF PoolInv, WorkerInv
  <2>5. ASSUME NEW j \in Slots, tasks'[j].is_being_processed PROVE \E v \in Workers : slot'[v] = j
    <3>1. j # i
      BY <1>1, <2>5
    <3>2. PICK v \in Workers : slot[v] = j
      BY <1>1, <2>5, <3>1 DEF PoolInv, WorkerInv
    <3> QED
      BY <1>1, <1>8, <3>1, <3>2
  <2>6. \A d \in Clients : Depth(d)' > 0 => TaskAt(d, 1)' = Program[d]
    <3>1. \A d \in Clients : d \in Threads \ {w} /\ Depth(d)' = Depth(d) /\ Depth(d) \in Nat
      BY <1>2, <1>4, <2>1
    <3> QED
      BY <2>2, <3>1 DEF PoolInv, WorkerInv
  <2> QED
    BY <2>3, <2>4, <2>5, <2>6 DEF WorkerInv
<1>10. \A q \in Tasks : Over(q) => Over(q)'
  BY <1>3 DEF Over, Same
<1>11. ASSUME NEW u \in Threads, NEW m \in 1 .. Depth(u)', NEW q \in Tasks, NEW b \in Nat, NEW x \in Nat,
             q = TaskAt(u, m)', b = AddedAt(u, m)', x = JoinedAt(u, m)'
      PROVE  FrameOf(u, m, q, b, x)'
  <2>1. /\ q = TaskAt(u, m) /\ b = AddedAt(u, m) /\ x = JoinedAt(u, m) /\ u # w
        /\ m \in Nat /\ m \in 1 .. Depth(u) /\ m <= Depth(u) /\ Depth(u) \in Nat
    BY <1>2, <1>4, <1>5, <1>11
  <2>2. /\ x <= b /\ b <= Len(Children[q]) /\ Known(q)
        /\ m > 1 => AddedAt(u, m - 1) > 0 /\ q = Children[TaskAt(u, m - 1)][AddedAt(u, m - 1)]
        /\ \A j \in Kids(q) : /\ id[Children[q][j]] # 0 <=> j <= b
                              /\ j <= x => Over(Children[q][j])
                              /\ \A s \in Slots : ~IsEmpty(s) /\ tasks[s].task = Children[q][j] => tasks[s].thread_id = u
    BY <2>1, FrameFacts
  <2>3. m > 1 => AddedAt(u, m - 1)' > 0 /\ q = Children[TaskAt(u, m - 1)'][AddedAt(u, m - 1)']
    <3>1. m > 1 => m - 1 \in 1 .. Depth(u)
      BY <2>1
    <3> QED
      BY <1>2, <2>1, <2>2, <3>1
  <2>4. Known(q)'
    BY <1>1, <2>2 DEF Known
  <2>5. ASSUME NEW j \in Kids(q)
        PROVE  /\ id'[Children[q][j]] # 0 <=> j <= b
               /\ j <= x => Over(Children[q][j])'
               /\ \A s \in Slots : ~IsEmpty(s)' /\ tasks'[s].task = Children[q][j] => tasks'[s].thread_id = u
    <3>1. PICK c \in Tasks : c = Children[q][j]
      BY ChildType
    <3> QED
      BY <1>1, <1>6, <1>10, <2>2, <3>1
  <2> QED
    BY <2>2, <2>3, <2>4, <2>5 DEF FrameOf
<1>12. FrameInv'
  BY <1>11 DEF FrameInv
<1>13. OnceInv'
  <2>1. \A u, v \in Threads : \A m \in 1 .. Depth(u)', l \in 1 .. Depth(v)' :
          TaskAt(u, m)' = TaskAt(v, l)' => u = v /\ m = l
    <3>1. \A u \in Threads : \A m \in 1 .. Depth(u)' :
             m \in 1 .. Depth(u) /\ TaskAt(u, m)' = TaskAt(u, m)
      BY <1>2, <1>5
    <3> QED
      BY <3>1 DEF PoolInv, OnceInv
  <2>2. \A q \in Tasks : ~(Running(q)' /\ Waiting(q)')
    BY <1>3 DEF PoolInv, OnceInv, Same
  <2> QED
    BY <2>1, <2>2 DEF OnceInv
<1>14. ASSUME NEW q \in Tasks, ~Known(q)' \/ Waiting(q)', NEW j \in Kids(q) PROVE id'[Children[q][j]] = 0
  <2>1. ~Known(q) \/ Waiting(q)
    BY <1>3, <1>14 DEF Same
  <2> QED
    BY <1>1, <2>1 DEF PoolInv, FreshInv
<1>15. ASSUME NEW q \in Tasks, Known(q)', ~Running(q)', ~Waiting(q)', NEW j \in Kids(q)
       PROVE  id'[Children[q][j]] # 0
  <2>1. CASE q = p
    BY <1>1, <2>1
  <2>2. CASE q # p
    BY <1>1, <1>3, <1>15, <2>2 DEF Same, Over, PoolInv, EndedInv
  <2> QED
    BY <2>1, <2>2
<1> QED
  BY <1>7, <1>9, <1>12, <1>13, <1>14, <1>15 DEF PoolInv, FreshInv, EndedInv, Over

-------------------------------------------------------------------------------
(* At first every client is in its program, and nothing else is known.      *)
LEMMA InitHasPoolInv == Init => PoolInv
<1> SUFFICES ASSUME Init PROVE PoolInv
  OBVIOUS
<1>1. /\ tasks = [i \in Slots |-> [task_id |-> 0, is_being_processed |-> FALSE, thread_id |-> Nobody,
                                   next_task_id |-> 2, task |-> Nobody]]
      /\ we_are_destructing = FALSE
      /\ stack = [t \in Threads |-> IF t \in Clients THEN <<Frame(Program[t])>> ELSE <<>>]
      /\ slot = [w \in Workers |-> -1]
      /\ id = [k \in Tasks |-> 0]
      /\ asleep = {} /\ gone = {}
  BY DEF Init
<1>2. \A c \in Clients : /\ Program[c] \in Tasks /\ Program[c] \in Roots /\ c \in Threads
                         /\ Frame(Program[c]).task = Program[c]
                         /\ Frame(Program[c]).added = 0 /\ Frame(Program[c]).joined = 0
                         /\ Frame(Program[c]) \in FrameSet
  BY ThreadPoolAssumption DEF Roots, Frame, FrameSet, Threads
<1>3. PoolTyped
  <2>1. tasks \in [Slots -> TaskState]
    BY <1>1 DEF TaskState
  <2>2. stack \in [Threads -> Seq(FrameSet)]
    <3>1. \A f \in FrameSet : <<f>> \in Seq(FrameSet)
      OBVIOUS
    <3>2. \A t \in Threads : (IF t \in Clients THEN <<Frame(Program[t])>> ELSE <<>>) \in Seq(FrameSet)
      BY <1>2, <3>1
    <3> QED
      BY <1>1, <3>2
  <2> QED
    BY <1>1, <2>1, <2>2 DEF PoolTyped
<1>4. \A t \in Threads : \A n \in 1 .. Depth(t) :
        /\ t \in Clients /\ n = 1 /\ TaskAt(t, n) = Program[t] /\ AddedAt(t, n) = 0 /\ JoinedAt(t, n) = 0
  <2> TAKE t \in Threads
  <2>1. CASE t \in Clients
    <3>1. stack[t] = <<Frame(Program[t])>>
      BY <1>1, <2>1
    <3>2. PICK f \in FrameSet : stack[t] = <<f>> /\ f.task = Program[t] /\ f.added = 0 /\ f.joined = 0
      BY <1>2, <2>1, <3>1
    <3>3. Len(stack[t]) = 1 /\ stack[t][1] = f
      BY <3>2
    <3> QED
      BY <2>1, <3>2, <3>3 DEF Depth, TaskAt, AddedAt, JoinedAt
  <2>2. CASE t \notin Clients
    <3>1. stack[t] = <<>>
      BY <1>1, <2>2
    <3> QED
      BY <3>1 DEF Depth
  <2> QED
    BY <2>1, <2>2
<1>5. \A i \in Slots : IsEmpty(i) /\ ~IsReady(i) /\ ~tasks[i].is_being_processed /\ tasks[i].next_task_id = 2
  BY <1>1 DEF IsEmpty, IsReady
<1>6. \A k \in Tasks : ~Waiting(k) /\ id[k] = 0
  BY <1>1, <1>5 DEF Waiting
<1>7. SlotInv
  BY <1>5 DEF SlotInv
<1>8. WorkerInv
  <2>1. \A w \in Workers : Depth(w) = 0 /\ slot[w] = -1
    BY <1>1, ThreadPoolAssumption DEF Depth, Threads
  <2>2. \A c \in Clients : Depth(c) > 0 => TaskAt(c, 1) = Program[c]
    <3>1. \A c \in Clients : Depth(c) \in Nat /\ c \in Threads
      BY <1>2, <1>3, DepthType
    <3>2. \A c \in Clients : Depth(c) > 0 => 1 \in 1 .. Depth(c)
      BY <3>1
    <3> QED
      BY <1>4, <3>1, <3>2
  <2> QED
    BY <1>5, <2>1, <2>2 DEF WorkerInv
<1>9. FrameInv
  <2> SUFFICES ASSUME NEW t \in Threads, NEW n \in 1 .. Depth(t), NEW p \in Tasks, NEW a \in Nat, NEW x \in Nat,
                      p = TaskAt(t, n), a = AddedAt(t, n), x = JoinedAt(t, n)
               PROVE  FrameOf(t, n, p, a, x)
    BY DEF FrameInv
  <2>1. n = 1 /\ a = 0 /\ x = 0 /\ p = Program[t] /\ t \in Clients /\ p \in Roots
    BY <1>2, <1>4
  <2>2. Len(Children[p]) \in Nat /\ \A j \in Kids(p) : Children[p][j] \in Tasks /\ j \in Nat /\ j >= 1
    BY ChildType
  <2>3. \A j \in Kids(p) : id[Children[p][j]] = 0
    BY <1>6, <2>2
  <2> QED
    BY <1>5, <2>1, <2>2, <2>3 DEF FrameOf, Known
<1>10. OnceInv
  <2>1. \A t, u \in Threads : \A n \in 1 .. Depth(t), m \in 1 .. Depth(u) :
          TaskAt(t, n) = TaskAt(u, m) => t = u /\ n = m
    BY <1>4, TaskForest
  <2> QED
    BY <1>6, <2>1 DEF OnceInv
<1>11. FreshInv
  BY <1>6, ChildType DEF FreshInv
<1>12. EndedInv
  <2> SUFFICES ASSUME NEW k \in Tasks, Known(k), Over(k) PROVE FALSE
    BY DEF EndedInv
  <2>1. PICK c \in Clients : k = Program[c]
    BY <1>6 DEF Known, Roots
  <2>2. stack[c] = <<Frame(k)>> /\ c \in Threads
    BY <1>1, <1>2, <2>1
  <2>3. 1 \in 1 .. Depth(c) /\ TaskAt(c, 1) = k
    <3>1. PICK f \in FrameSet : stack[c] = <<f>> /\ f.task = k
      BY <1>2, <2>1, <2>2
    <3>2. Len(stack[c]) = 1 /\ stack[c][1] = f
      BY <3>1
    <3> QED
      BY <3>1, <3>2 DEF Depth, TaskAt
  <2> QED
    BY <2>2, <2>3 DEF Over, Running
<1> QED
  BY <1>3, <1>7, <1>8, <1>9, <1>10, <1>11, <1>12 DEF PoolInv

(* A step that changes none of it.                                          *)
LEMMA SameKeeps ==
  ASSUME PoolInv, PoolTyped', UNCHANGED <<tasks, stack, slot, id>>
  PROVE  PoolInv'
<1>1. SlotInv'
  BY DEF PoolInv, SlotInv, IsEmpty
<1>2. WorkerInv'
  BY DEF PoolInv, WorkerInv, Depth, TaskAt
<1>3. FrameInv'
  <2>1. /\ \A t \in Threads : Depth(t)' = Depth(t)
        /\ \A t \in Threads : \A n \in Int : TaskAt(t, n)' = TaskAt(t, n) /\ AddedAt(t, n)' = AddedAt(t, n)
                                           /\ JoinedAt(t, n)' = JoinedAt(t, n)
    BY DEF Depth, TaskAt, AddedAt, JoinedAt
  <2>2. \A k : (Known(k)' <=> Known(k)) /\ (Over(k)' <=> Over(k))
    BY DEF Known, Over, Running, Waiting, IsReady, IsEmpty, Depth, TaskAt
  <2> SUFFICES ASSUME NEW t \in Threads, NEW n \in 1 .. Depth(t), NEW p \in Tasks, NEW a \in Nat, NEW x \in Nat,
                      p = TaskAt(t, n), a = AddedAt(t, n), x = JoinedAt(t, n)
               PROVE  FrameOf(t, n, p, a, x)'
    BY <2>1 DEF FrameInv
  <2>3. FrameOf(t, n, p, a, x)
    BY DEF PoolInv, FrameInv
  <2> QED
    BY <2>1, <2>2, <2>3 DEF FrameOf, IsEmpty
<1>4. OnceInv'
  BY DEF PoolInv, OnceInv, Depth, TaskAt, Running, Waiting, IsReady, IsEmpty
<1>5. FreshInv'
  BY DEF PoolInv, FreshInv, Known, Depth, TaskAt, Running, Waiting, IsReady, IsEmpty
<1>6. EndedInv'
  BY DEF PoolInv, EndedInv, Known, Over, Depth, TaskAt, Running, Waiting, IsReady, IsEmpty
<1> QED
  BY <1>1, <1>2, <1>3, <1>4, <1>5, <1>6 DEF PoolInv

(* What a step does to the tasks, in the terms above.                       *)
Effect ==
  \/ \E t \in Threads : \E n, p, a, c, i, v : Queues(t, n, p, a, c, i, v)
  \/ \E t \in Threads : \E n, p, a, c : Begins(t, n, p, a, c)
  \/ \E t \in Threads : \E n, p, x : Joins(t, n, p, x)
  \/ \E t \in Threads : \E n, p : EndsInPlace(t, n, p)
  \/ \E w, i, k : Takes(w, i, k)
  \/ \E w, p, i : EndsTask(w, p, i)
  \/ UNCHANGED <<tasks, stack, slot, id>>

LEMMA EffectKeeps ==
  ASSUME PoolInv, PoolTyped', Effect
  PROVE  PoolInv'
  BY QueuesKeeps, BeginsKeeps, JoinsKeeps, EndsInPlaceKeeps, TakesKeeps, EndsTaskKeeps, SameKeeps DEF Effect

(* Every step of the pool has one of the effects.                           *)
LEMMA StepHasEffect ==
  ASSUME PoolInv, [Next]_vars
  PROVE  PoolTyped' /\ Effect
<1>1. ASSUME UNCHANGED <<tasks, we_are_destructing, stack, slot, id>>, asleep' \subseteq Threads, gone' \subseteq Workers
      PROVE  PoolTyped' /\ Effect
  BY <1>1 DEF PoolInv, PoolTyped, Effect
<1>2. ASSUME NEW t \in Threads, Work(t) PROVE PoolTyped' /\ Effect
  <2>1. CASE AddToSlot(t)
    BY <2>1, AddToSlotQueues DEF Effect
  <2>2. CASE AddInPlace(t)
    BY <2>2, AddInPlaceBegins DEF Effect
  <2>3. CASE AddWaits(t)
    BY <1>1, <2>3 DEF AddWaits, PoolInv, PoolTyped
  <2>4. CASE WaitForTask(t) \/ WaitForAllTasks(t)
    BY <2>4, WaitJoins DEF Effect
  <2>5. CASE EndInPlace(t)
    BY <2>5, EndInPlaceEnds DEF Effect
  <2>6. CASE t \in Workers /\ TakeTask(t)
    BY <2>6, TakeTaskTakes DEF Effect
  <2>7. CASE t \in Workers /\ WorkerWaits(t)
    BY <1>1, <2>7 DEF WorkerWaits, PoolInv, PoolTyped
  <2>8. CASE t \in Workers /\ WorkerEnds(t)
    BY <1>1, <2>8 DEF WorkerEnds, PoolInv, PoolTyped
  <2>9. CASE t \in Workers /\ EndTask(t)
    BY <2>9, EndTaskEnds DEF Effect
  <2>10. CASE t \in Clients /\ ShutdownWaits(t)
    BY <1>1, <2>10 DEF ShutdownWaits, PoolInv, PoolTyped
  <2>11. CASE t \in Clients /\ Shutdown(t)
    BY <2>11 DEF Shutdown, PoolInv, PoolTyped, Effect
  <2> QED
    BY <1>2, <2>1, <2>2, <2>3, <2>4, <2>5, <2>6, <2>7, <2>8, <2>9, <2>10, <2>11 DEF Work
<1>3. ASSUME NEW t \in Threads, SpuriousWakeup(t) PROVE PoolTyped' /\ Effect
  BY <1>1, <1>3 DEF SpuriousWakeup, PoolInv, PoolTyped
<1>4. CASE UNCHANGED vars
  BY <1>1, <1>4 DEF vars, PoolInv, PoolTyped
<1> QED
  BY <1>2, <1>3, <1>4 DEF Next, Ended

(* The inductive invariant of the pool: slots, stacks and ids agree, at any *)
(* number of workers, clients and tasks.                                    *)
THEOREM PoolInvariant == Spec => []PoolInv
<1>1. PoolInv /\ [Next]_vars => PoolInv'
  BY StepHasEffect, EffectKeeps
<1> QED
  BY <1>1, InitHasPoolInv, PTL DEF Spec

(* Types, and what links a worker to its slot: it executes the task of a    *)
(* slot that is marked, and no two have the same.                           *)
THEOREM PoolTypeCorrect == Spec => []TypeOK
<1>1. PoolInv => TypeOK
  <2> SUFFICES ASSUME PoolInv PROVE TypeOK
    OBVIOUS
  <2>1. \A i \in Slots : /\ tasks[i].task \in Tasks \cup {Nobody}
                         /\ tasks[i].thread_id \in Threads \cup {Nobody}
    BY SlotType DEF PoolInv
  <2>2. \A t \in Threads : \A n \in 1 .. Len(stack[t]) : stack[t][n].task \in Tasks
    BY DepthType DEF PoolInv, Depth, TaskAt
  <2>3. \A w \in Workers : IF stack[w] = <<>> THEN slot[w] = -1 ELSE tasks[slot[w]].is_being_processed
    <3>1. \A w \in Workers : w \in Threads /\ (Depth(w) = 0 <=> stack[w] = <<>>)
      BY DepthType DEF PoolInv, Threads
    <3> QED
      BY <3>1 DEF PoolInv, WorkerInv
  <2>4. \A w1, w2 \in Workers : slot[w1] = slot[w2] => slot[w1] = -1 \/ w1 = w2
    BY DEF PoolInv, WorkerInv
  <2> QED
    BY <2>1, <2>2, <2>3, <2>4 DEF PoolInv, PoolTyped, TypeOK
<1> QED
  BY <1>1, PoolInvariant, PTL

-------------------------------------------------------------------------------
Idle == {w \in Workers : Free(w)}

(* What t waits for on task_done_signaler, in SleepersHaveReason; and a     *)
(* join that waits is not over.                                             *)
Reason(t) ==
  IF stack[t] = <<>> THEN PoolBusy
  ELSE IF MoreToAdd(t) THEN EmptySlots = {}
  ELSE IF Top(t).task \notin ByIds THEN MinePending(t)
  ELSE TaskPending(Children[Top(t).task][Top(t).joined + 1])

Joiner(t) == stack[t] # <<>> /\ ~MoreToAdd(t) => MoreToJoin(t)

SleepInv ==
  /\ asleep \cap gone = {}
  /\ OnReadySig # {} => ~we_are_destructing /\ Cardinality(ReadySlots) <= Cardinality(Idle)
  /\ \A t \in OnDoneSig : Reason(t) /\ Joiner(t)

(* The sets that are counted are finite.                                    *)
LEMMA FiniteSlots ==
  /\ IsFiniteSet(Slots)
  /\ \A S \in SUBSET Slots : IsFiniteSet(S) /\ Cardinality(S) \in Nat
  /\ \A W \in SUBSET Workers : IsFiniteSet(W) /\ Cardinality(W) \in Nat
<1>1. IsFiniteSet(Slots)
  <2>1. 0 \in Int /\ Size - 1 \in Int
    BY SizeType
  <2> QED
    BY <2>1, FS_Interval DEF Slots
<1>2. IsFiniteSet(Workers)
  BY ThreadPoolAssumption
<1>3. \A S, T : IsFiniteSet(T) /\ S \in SUBSET T => IsFiniteSet(S) /\ Cardinality(S) \in Nat
  BY FS_Subset, FS_CardinalityType
<1> QED
  BY <1>1, <1>2, <1>3

(* What is in a slot stays, and so does an id.                              *)
Persists ==
  /\ \A s \in Slots : ~IsEmpty(s) => /\ tasks'[s].task_id = tasks[s].task_id
                                     /\ tasks'[s].thread_id = tasks[s].thread_id
  /\ \A k \in Tasks : id[k] # 0 => id'[k] = id[k]

(* While it sleeps, what it waits for is still so.                          *)
LEMMA ReasonPersists ==
  ASSUME PoolInv, Persists, NEW t \in Threads, stack'[t] = stack[t], Reason(t), Joiner(t)
  PROVE  Reason(t)' /\ Joiner(t)'
<1>1. Top(t)' = Top(t)
  BY DEF Top, Last
<1>2. MoreToAdd(t)' = MoreToAdd(t) /\ MoreToJoin(t)' = MoreToJoin(t)
  BY <1>1 DEF MoreToAdd, MoreToJoin
<1>3. \A s \in Slots : ~IsEmpty(s) => ~IsEmpty(s)' /\ tasks'[s].thread_id = tasks[s].thread_id
  BY DEF Persists, IsEmpty
<1>4. CASE stack[t] = <<>>
  <2>1. PoolBusy => PoolBusy'
    BY <1>3 DEF PoolBusy, EmptySlots
  <2> QED
    BY <1>4, <2>1 DEF Reason, Joiner
<1>5. CASE stack[t] # <<>> /\ MoreToAdd(t)
  <2>1. EmptySlots = {} => EmptySlots' = {}
    BY <1>3 DEF EmptySlots
  <2> QED
    BY <1>2, <1>5, <2>1 DEF Reason, Joiner
<1>6. CASE stack[t] # <<>> /\ ~MoreToAdd(t) /\ Top(t).task \notin ByIds
  <2>1. MinePending(t) => MinePending(t)'
    BY <1>3 DEF MinePending
  <2> QED
    BY <1>1, <1>2, <1>6, <2>1 DEF Reason, Joiner
<1>7. CASE stack[t] # <<>> /\ ~MoreToAdd(t) /\ Top(t).task \in ByIds
  <2>1. PICK p, n, x : p = TaskAt(t, Depth(t)) /\ n = Depth(t) /\ x = JoinedAt(t, n)
    OBVIOUS
  <2>2. n \in 1 .. Depth(t) /\ p \in Tasks /\ Top(t).task = p /\ Top(t).joined = x /\ x \in Nat
    BY <1>7, <2>1, TopFrame DEF PoolInv
  <2>3. x + 1 \in Kids(p)
    BY <1>7, <2>2, ChildType DEF MoreToJoin, Joiner
  <2>4. PICK k \in Tasks : k = Children[p][x + 1] /\ id[k] # 0
    BY <1>7, <2>1, <2>2, <2>3, AllAdded, ChildType
  <2>5. TaskPending(k)
    BY <1>7, <2>2, <2>4 DEF Reason
  <2>6. id'[k] = id[k] /\ id[k] \in Nat
    BY <2>4 DEF Persists, PoolInv, PoolTyped
  <2>7. id[k] % Size \in Slots
    <3>1. Size \in Nat \ {0}
      BY <2>5, SizeType DEF TaskPending
    <3>2. PICK z \in Nat \ {0}, v \in Nat : z = Size /\ v = id[k]
      BY <2>6, <3>1
    <3>3. v % z \in 0 .. z - 1
      BY <3>2
    <3> QED
      BY <3>2, <3>3 DEF Slots
  <2>8. tasks'[id[k] % Size].task_id = tasks[id[k] % Size].task_id
    BY <2>4, <2>5, <2>7 DEF Persists, TaskPending, IsEmpty
  <2>9. TaskPending(k)'
    BY <2>5, <2>6, <2>8 DEF TaskPending
  <2> QED
    BY <1>1, <1>2, <1>7, <2>2, <2>4, <2>9 DEF Reason, Joiner
<1> QED
  BY <1>4, <1>5, <1>6, <1>7

(* No worker that sleeps for a task is new, and none that was free is not.  *)
LEMMA StillEnough ==
  ASSUME SleepInv, OnReadySig' \subseteq OnReadySig, ReadySlots' = ReadySlots, Idle \subseteq Idle',
         we_are_destructing' = we_are_destructing
  PROVE  (OnReadySig # {} => ~we_are_destructing /\ Cardinality(ReadySlots) <= Cardinality(Idle))'
<1>1. IsFiniteSet(Idle') /\ Cardinality(Idle) <= Cardinality(Idle')
  <2>1. Idle' \in SUBSET Workers
    BY DEF Idle
  <2>2. IsFiniteSet(Idle')
    BY <2>1, FiniteSlots
  <2> QED
    BY <2>2, FS_Subset
<1>2. Cardinality(ReadySlots) \in Nat /\ Cardinality(Idle) \in Nat /\ Cardinality(Idle') \in Nat
  BY FiniteSlots DEF ReadySlots, Idle
<1> QED
  BY <1>1, <1>2 DEF SleepInv

(* Who is in a task changes his own stack only, and a worker stays in one.  *)
LEMMA OwnStack ==
  ASSUME PoolInv, NEW t \in Threads,
         AddToSlot(t) \/ AddInPlace(t) \/ AddWaits(t) \/ WaitForTask(t) \/ WaitForAllTasks(t) \/ EndInPlace(t)
  PROVE  /\ stack[t] # <<>> /\ t \notin asleep
         /\ \A u \in Threads : u # t => stack'[u] = stack[u]
         /\ t \in Workers => stack'[t] # <<>>
<1>1. stack[t] # <<>> /\ t \notin asleep
  BY DEF AddToSlot, AddInPlace, AddWaits, WaitForTask, WaitForAllTasks, EndInPlace, AtEnd, Executes, Awake
<1>2. \A u \in Threads : u # t => stack'[u] = stack[u]
  <2>1. stack' = stack \/ \E fs : stack' = WithTop(t, fs)
    BY DEF AddToSlot, AddInPlace, AddWaits, WaitForTask, WaitForAllTasks, EndInPlace
  <2>2. stack \in [Threads -> Seq(FrameSet)]
    BY DEF PoolInv, PoolTyped
  <2>3. CASE stack' = stack
    BY <2>3
  <2>4. ASSUME NEW fs, stack' = WithTop(t, fs) PROVE \A u \in Threads : u # t => stack'[u] = stack[u]
    BY <2>2, <2>4 DEF WithTop
  <2> QED
    BY <2>1, <2>3, <2>4
<1>3. ASSUME t \in Workers PROVE stack'[t] # <<>>
  <2>0. Depth(t) \in Nat /\ Depth(t) # 0
    BY <1>1, DepthType DEF PoolInv
  <2>1. CASE AddToSlot(t)
    <3>1. PoolTyped' /\ Depth(t)' = Depth(t)
      BY <2>1, AddToSlotQueues DEF Queues
    <3> QED
      BY <2>0, <3>1, DepthTypePrime
  <2>2. CASE AddInPlace(t)
    <3>1. PoolTyped' /\ Depth(t)' = Depth(t) + 1
      BY <2>2, AddInPlaceBegins DEF Begins, Adding
    <3> QED
      BY <2>0, <3>1, DepthTypePrime
  <2>3. CASE AddWaits(t)
    BY <1>1, <2>3 DEF AddWaits
  <2>4. CASE WaitForTask(t) \/ WaitForAllTasks(t)
    <3>1. PoolTyped' /\ (stack' = stack \/ Depth(t)' = Depth(t))
      BY <2>4, WaitJoins DEF Joins
    <3> QED
      BY <1>1, <2>0, <3>1, DepthTypePrime
  <2>5. CASE EndInPlace(t)
    <3>1. PICK n, p : PoolTyped' /\ EndsInPlace(t, n, p)
      BY <2>5, EndInPlaceEnds
    <3>2. n \in Nat /\ n > 1 /\ Depth(t)' = n - 1
      BY <1>3, <3>1 DEF EndsInPlace, Finished
    <3> QED
      BY <3>1, <3>2, DepthTypePrime
  <2> QED
    BY <2>1, <2>2, <2>3, <2>4, <2>5
<1> QED
  BY <1>1, <1>2, <1>3

LEMMA ReasonsStay ==
  ASSUME PoolInv, SleepInv, Persists
  PROVE  \A u \in OnDoneSig : stack'[u] = stack[u] => Reason(u)' /\ Joiner(u)'
<1> TAKE u \in OnDoneSig
<1>1. u \in Threads /\ Reason(u) /\ Joiner(u)
  BY DEF OnDoneSig, SleepInv, PoolInv, PoolTyped
<1> QED
  BY <1>1, ReasonPersists

LEMMA NothingPersists ==
  ASSUME UNCHANGED <<tasks, id>>
  PROVE  Persists
  BY DEF Persists

(* Who waits on which signaler, after a step of a thread that is in a task. *)
LEMMA OwnStackSignals ==
  ASSUME PoolInv, NEW t \in Threads, stack[t] # <<>>, t \notin asleep,
         \A u \in Threads : u # t => stack'[u] = stack[u],
         t \in Workers => stack'[t] # <<>>,
         asleep' \subseteq asleep \cup {t}
  PROVE  /\ OnReadySig' = OnReadySig \cap asleep'
         /\ \A u \in OnDoneSig' : u = t \/ (u \in OnDoneSig /\ stack'[u] = stack[u])
<1>1. asleep \subseteq Threads
  BY DEF PoolInv, PoolTyped
<1> QED
  BY <1>1 DEF OnReadySig, OnDoneSig, Threads

(* No free worker is less free for it.                                      *)
LEMMA OwnStackIdle ==
  ASSUME PoolInv, NEW t \in Threads, stack[t] # <<>>,
         \A u \in Threads : u # t => stack'[u] = stack[u],
         asleep' \subseteq asleep \cup {t}, gone' = gone
  PROVE  Idle \subseteq Idle'
  BY DEF Idle, Free, Awake, Threads

(* A task that adds in place, waits, goes on or ends in place.              *)
LEMMA OwnStep ==
  ASSUME PoolInv, SleepInv, NEW t \in Threads,
         AddInPlace(t) \/ AddWaits(t) \/ WaitForTask(t) \/ WaitForAllTasks(t) \/ EndInPlace(t)
  PROVE  SleepInv'
<1>1. /\ stack[t] # <<>> /\ t \notin asleep
      /\ \A u \in Threads : u # t => stack'[u] = stack[u]
      /\ t \in Workers => stack'[t] # <<>>
  BY OwnStack
<1>2. /\ tasks' = tasks /\ we_are_destructing' = we_are_destructing /\ gone' = gone
      /\ asleep' \subseteq asleep \cup {t} /\ t \notin gone
  BY DEF AddInPlace, AddWaits, WaitForTask, WaitForAllTasks, EndInPlace, AtEnd, Executes, Awake
<1>3. Persists
  <2>1. CASE AddInPlace(t)
    <3>1. PICK n, p, a, c : Begins(t, n, p, a, c)
      BY <2>1, AddInPlaceBegins
    <3>2. id' = [id EXCEPT ![c] = 1] /\ id[c] = 0 /\ id \in [Tasks -> Nat]
      BY <3>1 DEF Begins, Adding, PoolInv, PoolTyped
    <3> QED
      BY <1>2, <3>2 DEF Persists
  <2>2. CASE ~AddInPlace(t)
    BY <1>2, <2>2, NothingPersists DEF AddWaits, WaitForTask, WaitForAllTasks, EndInPlace
  <2> QED
    BY <2>1, <2>2
<1>4. /\ OnReadySig' = OnReadySig \cap asleep'
      /\ \A u \in OnDoneSig' : u = t \/ (u \in OnDoneSig /\ stack'[u] = stack[u])
  BY <1>1, <1>2, OwnStackSignals
<1>5. Idle \subseteq Idle'
  BY <1>1, <1>2, OwnStackIdle
<1>6. (OnReadySig # {} => ~we_are_destructing /\ Cardinality(ReadySlots) <= Cardinality(Idle))'
  <2>1. ReadySlots' = ReadySlots
    BY <1>2 DEF ReadySlots, IsReady, IsEmpty
  <2> QED
    BY <1>2, <1>4, <1>5, <2>1, StillEnough
<1>7. (asleep \cap gone = {})'
  BY <1>2 DEF SleepInv
<1>8. ASSUME t \in OnDoneSig' PROVE Reason(t)' /\ Joiner(t)'
  <2>1. t \in asleep' /\ stack' = stack
    BY <1>1, <1>8 DEF OnDoneSig, AddInPlace, AddWaits, WaitForTask, WaitForAllTasks, EndInPlace
  <2>2. Reason(t) /\ Joiner(t)
    BY <1>1, <2>1 DEF AddInPlace, AddWaits, WaitForTask, WaitForAllTasks, EndInPlace, Reason, Joiner
  <2> QED
    BY <1>3, <2>1, <2>2, ReasonPersists
<1>9. (\A u \in OnDoneSig : Reason(u) /\ Joiner(u))'
  <2>1. \A u \in OnDoneSig' : Reason(u)' /\ Joiner(u)'
    BY <1>3, <1>4, <1>8, ReasonsStay
  <2> QED
    BY <2>1
<1> QED
  BY <1>6, <1>7, <1>9 DEF SleepInv

(* add_task signals one of the workers that sleep for a task.               *)
LEMMA AddToSlotStep ==
  ASSUME PoolInv, SleepInv, NEW t \in Threads, AddToSlot(t)
  PROVE  SleepInv'
<1>1. /\ stack[t] # <<>> /\ t \notin asleep
      /\ \A u \in Threads : u # t => stack'[u] = stack[u]
      /\ t \in Workers => stack'[t] # <<>>
  BY OwnStack
<1>2. PICK n, p, a, c, i, v : Queues(t, n, p, a, c, i, v)
  BY AddToSlotQueues
<1>3. /\ i \in Slots /\ IsEmpty(i) /\ id' = [id EXCEPT ![c] = v] /\ id[c] = 0 /\ id \in [Tasks -> Nat]
      /\ \A j \in Slots : j # i => tasks'[j] = tasks[j]
  BY <1>2 DEF Queues, Adding, PoolInv, PoolTyped
<1>4. PICK woken \in OneOf(OnReadySig) : asleep' = asleep \ woken
  BY DEF AddToSlot
<1>5. /\ we_are_destructing' = we_are_destructing /\ gone' = gone /\ EmptySlots # {}
      /\ asleep' \subseteq asleep \cup {t}
  BY <1>4 DEF AddToSlot
<1>6. Persists
  BY <1>3 DEF Persists
<1>7. /\ OnReadySig' = OnReadySig \cap asleep'
      /\ \A u \in OnDoneSig' : u = t \/ (u \in OnDoneSig /\ stack'[u] = stack[u])
  BY <1>1, <1>5, OwnStackSignals
<1>8. Idle \subseteq Idle'
  BY <1>1, <1>5, OwnStackIdle
<1>9. (OnReadySig # {} => ~we_are_destructing /\ Cardinality(ReadySlots) <= Cardinality(Idle))'
  <2> SUFFICES ASSUME OnReadySig' # {} PROVE ~we_are_destructing /\ Cardinality(ReadySlots') <= Cardinality(Idle')
    BY <1>5
  <2>1. /\ OnReadySig # {} /\ ~we_are_destructing /\ Cardinality(ReadySlots) <= Cardinality(Idle)
    BY <1>7 DEF SleepInv
  <2>2. PICK w \in OnReadySig : woken = {w}
    BY <1>4, <2>1 DEF OneOf
  <2>3. w \in Workers /\ w \notin Idle /\ w \in Idle'
    <3>1. w \in asleep /\ w \in Workers /\ stack[w] = <<>> /\ w # t /\ w \in Threads
      BY <1>1, <2>2 DEF OnReadySig, Threads
    <3>2. w \notin gone' /\ w \notin asleep' /\ stack'[w] = <<>>
      BY <1>1, <1>4, <1>5, <2>2, <3>1 DEF SleepInv
    <3> QED
      BY <3>1, <3>2 DEF Idle, Free, Awake
  <2>4. ReadySlots' = ReadySlots \cup {i} /\ i \notin ReadySlots
    <3>1. \A j \in Slots : j # i => (IsReady(j)' <=> IsReady(j))
      BY <1>3 DEF IsReady, IsEmpty
    <3>2. IsReady(i)' /\ ~IsReady(i)
      BY <1>2 DEF Queues, IsReady, IsEmpty, PoolInv, SlotInv
    <3> QED
      BY <1>3, <3>1, <3>2 DEF ReadySlots
  <2>5. Cardinality(ReadySlots') = Cardinality(ReadySlots) + 1
    <3>1. IsFiniteSet(ReadySlots)
      BY FiniteSlots DEF ReadySlots
    <3> QED
      BY <2>4, <3>1, FS_AddElement
  <2>6. Cardinality(Idle) + 1 <= Cardinality(Idle')
    <3>1. IsFiniteSet(Idle) /\ IsFiniteSet(Idle')
      <4>1. Idle \in SUBSET Workers /\ Idle' \in SUBSET Workers
        BY DEF Idle
      <4> QED
        BY <4>1, FiniteSlots
    <3>2. Cardinality(Idle \cup {w}) = Cardinality(Idle) + 1
      BY <2>3, <3>1, FS_AddElement
    <3>3. Idle \cup {w} \subseteq Idle'
      BY <1>8, <2>3
    <3> QED
      BY <3>1, <3>2, <3>3, FS_Subset
  <2>7. Cardinality(ReadySlots) \in Nat /\ Cardinality(Idle) \in Nat /\ Cardinality(Idle') \in Nat
    BY FiniteSlots DEF ReadySlots, Idle
  <2> QED
    BY <2>1, <2>5, <2>6, <2>7
<1>10. (asleep \cap gone = {})'
  BY <1>4, <1>5 DEF SleepInv
<1>11. t \notin OnDoneSig'
  BY <1>1, <1>4 DEF OnDoneSig
<1>12. (\A u \in OnDoneSig : Reason(u) /\ Joiner(u))'
  <2>1. \A u \in OnDoneSig' : Reason(u)' /\ Joiner(u)'
    BY <1>6, <1>7, <1>11, ReasonsStay
  <2> QED
    BY <2>1
<1> QED
  BY <1>9, <1>10, <1>12 DEF SleepInv

(* A ready task less, a free worker less.                                   *)
LEMMA TakeTaskStep ==
  ASSUME PoolInv, SleepInv, NEW w \in Workers, TakeTask(w)
  PROVE  SleepInv'
<1>1. PICK i, k : Takes(w, i, k) /\ PoolTyped'
  BY TakeTaskTakes
<1>2. /\ w \in Threads /\ Free(w) /\ w \notin asleep /\ we_are_destructing' = we_are_destructing /\ gone' = gone
      /\ asleep' = asleep
  BY DEF TakeTask, Free, Awake, Threads
<1>3. stack'[w] # <<>> /\ \A u \in Threads : u # w => stack'[u] = stack[u]
  <2>1. Depth(w)' = 1
    BY <1>1 DEF Takes
  <2>2. stack'[w] # <<>>
    BY <1>1, <1>2, <2>1, DepthTypePrime
  <2>3. \A u \in Threads : u # w => stack'[u] = stack[u]
    BY DEF TakeTask, PoolInv, PoolTyped
  <2> QED
    BY <2>2, <2>3
<1>4. Persists
  BY <1>1 DEF Takes, Persists
<1>5. OnReadySig' = OnReadySig /\ OnDoneSig' = OnDoneSig
  BY <1>2, <1>3 DEF OnReadySig, OnDoneSig, Threads
<1>6. Idle' = Idle \ {w} /\ w \in Idle
  BY <1>2, <1>3 DEF Idle, Free, Awake, Threads
<1>7. ReadySlots' = ReadySlots \ {i} /\ i \in ReadySlots
  <2>1. \A j \in Slots : j # i => (IsReady(j)' <=> IsReady(j))
    BY <1>1 DEF Takes, IsReady, IsEmpty
  <2>2. IsReady(i) /\ ~IsReady(i)' /\ i \in Slots
    BY <1>1 DEF Takes, IsReady
  <2> QED
    BY <2>1, <2>2 DEF ReadySlots
<1>8. Cardinality(Idle') = Cardinality(Idle) - 1 /\ Cardinality(ReadySlots') = Cardinality(ReadySlots) - 1
  <2>1. IsFiniteSet(ReadySlots) /\ IsFiniteSet(Idle)
    BY FiniteSlots DEF ReadySlots, Idle
  <2> QED
    BY <1>6, <1>7, <2>1, FS_RemoveElement
<1>9. Cardinality(ReadySlots) \in Nat /\ Cardinality(Idle) \in Nat
  BY FiniteSlots DEF ReadySlots, Idle
<1>10. (OnReadySig # {} => ~we_are_destructing /\ Cardinality(ReadySlots) <= Cardinality(Idle))'
  BY <1>2, <1>5, <1>8, <1>9 DEF SleepInv
<1>11. (asleep \cap gone = {})'
  BY <1>2 DEF SleepInv
<1>12. (\A u \in OnDoneSig : Reason(u) /\ Joiner(u))'
  <2>1. \A u \in OnDoneSig : u # w /\ u \in Threads
    BY <1>2 DEF OnDoneSig, PoolInv, PoolTyped
  <2>2. \A u \in OnDoneSig' : Reason(u)' /\ Joiner(u)'
    BY <1>3, <1>4, <1>5, <2>1, ReasonsStay
  <2> QED
    BY <2>2
<1> QED
  BY <1>10, <1>11, <1>12 DEF SleepInv

(* The end of a task signals all who wait for one.                          *)
LEMMA EndTaskStep ==
  ASSUME PoolInv, SleepInv, NEW w \in Workers, EndTask(w)
  PROVE  SleepInv'
<1>1. PICK p, i : EndsTask(w, p, i)
  BY EndTaskEnds
<1>2. /\ w \in Threads /\ w \notin asleep /\ stack[w] # <<>>
      /\ we_are_destructing' = we_are_destructing /\ gone' = gone
      /\ asleep' = asleep \ OnDoneSig
      /\ stack' = [stack EXCEPT ![w] = <<>>] /\ stack \in [Threads -> Seq(FrameSet)]
  BY DEF EndTask, AtEnd, Executes, Awake, Threads, DoneWakes, PoolInv, PoolTyped
<1>3. \A u \in Threads : u # w => stack'[u] = stack[u]
  BY <1>2
<1>4. OnReadySig' = OnReadySig /\ OnDoneSig' = {}
  BY <1>2, <1>3 DEF OnReadySig, OnDoneSig, Threads
<1>5. Idle \subseteq Idle'
  BY <1>2, <1>3 DEF Idle, Free, Awake, Threads
<1>6. ReadySlots' = ReadySlots
  <2>1. \A j \in Slots : IsReady(j)' <=> IsReady(j)
    BY <1>1 DEF EndsTask, IsReady, IsEmpty
  <2> QED
    BY <2>1 DEF ReadySlots
<1>7. (OnReadySig # {} => ~we_are_destructing /\ Cardinality(ReadySlots) <= Cardinality(Idle))'
  BY <1>2, <1>4, <1>5, <1>6, StillEnough
<1> QED
  BY <1>2, <1>4, <1>7 DEF SleepInv

(* A step that leaves the tasks and the stacks as they are.                 *)
LEMMA RestStep ==
  ASSUME PoolInv, SleepInv, UNCHANGED <<tasks, stack, slot, id>>, (asleep \cap gone = {})',
         (OnReadySig # {} => ~we_are_destructing /\ Cardinality(ReadySlots) <= Cardinality(Idle))',
         \A u \in OnDoneSig' : u \in OnDoneSig \/ (u \in Threads /\ Reason(u) /\ Joiner(u))
  PROVE  SleepInv'
<1>1. \A u \in OnDoneSig' : u \in Threads /\ Reason(u) /\ Joiner(u)
  BY DEF OnDoneSig, SleepInv, PoolInv, PoolTyped
<1>2. Persists
  BY NothingPersists
<1>3. \A u \in OnDoneSig' : Reason(u)' /\ Joiner(u)'
  BY <1>1, <1>2, ReasonPersists
<1>4. (\A u \in OnDoneSig : Reason(u) /\ Joiner(u))'
  BY <1>3
<1> QED
  BY <1>4 DEF SleepInv

(* Nobody is left asleep by a step.                                         *)
LEMMA SleepStep ==
  ASSUME PoolInv, SleepInv, [Next]_vars
  PROVE  SleepInv'
<1>1. ASSUME UNCHANGED <<tasks, we_are_destructing, stack, slot, id, gone>>, asleep' \subseteq asleep
      PROVE  SleepInv'
  <2>1. OnReadySig' \subseteq OnReadySig /\ OnDoneSig' \subseteq OnDoneSig /\ Idle \subseteq Idle'
        /\ ReadySlots' = ReadySlots
    BY <1>1 DEF OnReadySig, OnDoneSig, Idle, Free, Awake, ReadySlots, IsReady, IsEmpty
  <2>2. (OnReadySig # {} => ~we_are_destructing /\ Cardinality(ReadySlots) <= Cardinality(Idle))'
    BY <1>1, <2>1, StillEnough
  <2>3. (asleep \cap gone = {})'
    BY <1>1 DEF SleepInv
  <2> QED
    BY <1>1, <2>1, <2>2, <2>3, RestStep
<1>2. ASSUME NEW w \in Workers, WorkerWaits(w) PROVE SleepInv'
  <2>1. /\ UNCHANGED <<tasks, we_are_destructing, stack, slot, id, gone>> /\ asleep' = asleep \cup {w}
        /\ ReadySlots = {} /\ ~we_are_destructing /\ stack[w] = <<>> /\ w \notin gone /\ w \in Threads
    BY <1>2 DEF WorkerWaits, Free, Awake, Threads
  <2>2. OnDoneSig' \subseteq OnDoneSig
    BY <1>2, <2>1 DEF OnReadySig, OnDoneSig
  <2>3. Cardinality(ReadySlots') <= Cardinality(Idle')
    <3>1. ReadySlots' = {}
      BY <2>1 DEF ReadySlots, IsReady, IsEmpty
    <3>2. Cardinality({}) = 0 /\ Cardinality(Idle') \in Nat
      BY FS_EmptySet, FiniteSlots DEF Idle
    <3> QED
      BY <3>1, <3>2
  <2>4. (asleep \cap gone = {})'
    BY <2>1 DEF SleepInv
  <2> QED
    BY <2>1, <2>2, <2>3, <2>4, RestStep
<1>3. ASSUME NEW w \in Workers, WorkerEnds(w) PROVE SleepInv'
  <2>1. /\ UNCHANGED <<tasks, we_are_destructing, stack, slot, id, asleep>> /\ gone' = gone \cup {w}
        /\ we_are_destructing /\ w \notin asleep
    BY <1>3 DEF WorkerEnds, Free, Awake
  <2>2. OnDoneSig' \subseteq OnDoneSig /\ OnReadySig' = {}
    BY <2>1 DEF OnReadySig, OnDoneSig, SleepInv
  <2>3. (asleep \cap gone = {})'
    BY <2>1 DEF SleepInv
  <2> QED
    BY <2>1, <2>2, <2>3, RestStep
<1>4. ASSUME NEW c \in Clients, ShutdownWaits(c) PROVE SleepInv'
  <2>1. /\ UNCHANGED <<tasks, we_are_destructing, stack, slot, id, gone>> /\ asleep' = asleep \cup {c}
        /\ PoolBusy /\ stack[c] = <<>> /\ c \notin gone /\ c \in Threads /\ c \notin Workers
    BY <1>4, ThreadPoolAssumption DEF ShutdownWaits, ProgramsOver, Awake, Threads
  <2>2. OnReadySig' = OnReadySig /\ OnDoneSig' \subseteq OnDoneSig \cup {c}
    BY <2>1 DEF OnReadySig, OnDoneSig
  <2>3. Reason(c) /\ Joiner(c)
    BY <2>1 DEF Reason, Joiner
  <2>4. (asleep \cap gone = {})'
    BY <2>1 DEF SleepInv
  <2>5. Idle \subseteq Idle' /\ ReadySlots' = ReadySlots
    BY <2>1 DEF Idle, Free, Awake, ReadySlots, IsReady, IsEmpty
  <2>6. (OnReadySig # {} => ~we_are_destructing /\ Cardinality(ReadySlots) <= Cardinality(Idle))'
    BY <2>1, <2>2, <2>5, StillEnough
  <2> QED
    BY <2>1, <2>2, <2>3, <2>4, <2>6, RestStep
<1>5. ASSUME NEW c \in Clients, Shutdown(c) PROVE SleepInv'
  <2>1. /\ UNCHANGED <<tasks, stack, slot, id, gone>> /\ asleep' = asleep \ OnReadySig
    BY <1>5 DEF Shutdown
  <2>2. OnReadySig' = {} /\ OnDoneSig' \subseteq OnDoneSig
    BY <2>1 DEF OnReadySig, OnDoneSig
  <2>3. (asleep \cap gone = {})'
    BY <2>1 DEF SleepInv
  <2> QED
    BY <2>1, <2>2, <2>3, RestStep
<1>6. ASSUME NEW t \in Threads, Work(t) PROVE SleepInv'
  <2>1. CASE AddToSlot(t)
    BY <2>1, AddToSlotStep
  <2>2. CASE AddInPlace(t) \/ AddWaits(t) \/ WaitForTask(t) \/ WaitForAllTasks(t) \/ EndInPlace(t)
    BY <2>2, OwnStep
  <2>3. CASE t \in Workers /\ (TakeTask(t) \/ WorkerWaits(t) \/ WorkerEnds(t) \/ EndTask(t))
    BY <1>2, <1>3, <2>3, TakeTaskStep, EndTaskStep
  <2>4. CASE t \in Clients /\ (ShutdownWaits(t) \/ Shutdown(t))
    BY <1>4, <1>5, <2>4
  <2> QED
    BY <1>6, <2>1, <2>2, <2>3, <2>4 DEF Work
<1>7. ASSUME NEW t \in Threads, SpuriousWakeup(t) PROVE SleepInv'
  BY <1>1, <1>7 DEF SpuriousWakeup
<1>8. CASE UNCHANGED vars
  BY <1>1, <1>8 DEF vars
<1> QED
  BY <1>6, <1>7, <1>8 DEF Next, Ended

(* No signal is lost: who sleeps has a reason to, although add_task signals *)
(* one worker and threads wake up for nothing.                              *)
THEOREM SleepersAreWoken == Spec => []SleepersHaveReason
<1>1. Init => SleepInv
  BY DEF Init, SleepInv, OnReadySig, OnDoneSig
<1>2. PoolInv /\ SleepInv /\ [Next]_vars => SleepInv'
  BY SleepStep
<1>3. SleepInv => SleepersHaveReason
  BY DEF SleepInv, SleepersHaveReason, Reason, Idle
<1> QED
  BY <1>1, <1>2, <1>3, PoolInvariant, PTL DEF Spec

-------------------------------------------------------------------------------
(* What ForkJoin sees of a task.                                            *)
LEMMA StatusIs ==
  PoolInv => \A k \in Tasks :
    Status[k] = IF Running(k) THEN "running" ELSE IF Waiting(k) THEN "added"
                ELSE IF Known(k) THEN "done" ELSE "new"
<1> SUFFICES ASSUME PoolInv, NEW k \in Tasks
             PROVE  Status[k] = IF Running(k) THEN "running" ELSE IF Waiting(k) THEN "added"
                                ELSE IF Known(k) THEN "done" ELSE "new"
  OBVIOUS
<1>1. Running(k) <=> In(k) # {}
  BY DEF Running, In, Depth, TaskAt
<1>2. Waiting(k) <=> Queued(k) # {}
  BY DEF Waiting, Queued
<1>3. ~(Running(k) /\ Waiting(k))
  BY DEF PoolInv, OnceInv
<1>4. Known(k) <=> id[k] # 0 \/ k \in Roots
  BY DEF Known
<1>5. Status[k] = CASE In(k) # {} -> "running"
                    [] Queued(k) # {} -> "added"
                    [] In(k) = {} /\ Queued(k) = {} ->
                         IF id[k] # 0 \/ k \in Roots THEN "done" ELSE "new"
  BY DEF Status
<1>6. CASE Running(k)
  BY <1>1, <1>2, <1>3, <1>5, <1>6
<1>7. CASE ~Running(k) /\ Waiting(k)
  BY <1>1, <1>2, <1>5, <1>7
<1>8. CASE ~Running(k) /\ ~Waiting(k)
  BY <1>1, <1>2, <1>4, <1>5, <1>8
<1> QED
  BY <1>6, <1>7, <1>8

LEMMA StatusType == Status = [k \in Tasks |-> Status[k]]
  BY DEF Status

LEMMA StatusPrime ==
  PoolInv' => \A k \in Tasks :
    Status'[k] = IF Running(k)' THEN "running" ELSE IF Waiting(k)' THEN "added"
                 ELSE IF Known(k)' THEN "done" ELSE "new"
<1>1. (PoolInv => \A k \in Tasks :
         Status[k] = IF Running(k) THEN "running" ELSE IF Waiting(k) THEN "added"
                     ELSE IF Known(k) THEN "done" ELSE "new")'
  BY StatusIs, PTL
<1> QED
  BY <1>1

(* One task gets a status, the others keep theirs.                          *)
LEMMA StatusChanges ==
  ASSUME PoolInv, PoolInv', NEW c \in Tasks, \A k \in Tasks : k # c => Same(k), NEW s, Status'[c] = s
  PROVE  Status' = [Status EXCEPT ![c] = s]
<1>1. \A k \in Tasks : k # c => Status'[k] = Status[k]
  BY StatusIs, StatusPrime DEF Same
<1>2. Status = [k \in Tasks |-> Status[k]]
  BY StatusType
<1>3. Status' = [k \in Tasks |-> Status'[k]]
  BY DEF Status
<1> QED
  BY <1>1, <1>2, <1>3

LEMMA StatusSame ==
  ASSUME PoolInv, PoolInv', \A k \in Tasks : Same(k)
  PROVE  Status' = Status
<1>1. \A k \in Tasks : Status'[k] = Status[k]
  BY StatusIs, StatusPrime DEF Same
<1>2. Status = [k \in Tasks |-> Status[k]]
  BY StatusType
<1>3. Status' = [k \in Tasks |-> Status'[k]]
  BY DEF Status
<1> QED
  BY <1>1, <1>2, <1>3

(* A child is one of the tasks that are added.                              *)
LEMMA AddedByIs ==
  ASSUME NEW p \in Tasks
  PROVE  /\ \A j \in Kids(p) : Children[p][j] \in ToSet(Children[p])
         /\ \A c \in ToSet(Children[p]) : \E j \in Kids(p) : c = Children[p][j]
  BY DEF ToSet, Kids

(* Who adds runs, and what it adds is new.                                  *)
LEMMA AddingStatus ==
  ASSUME PoolInv, NEW t \in Threads, NEW n, NEW p, NEW a, NEW c, Adding(t, n, p, a, c)
  PROVE  /\ c \in Tasks /\ Status[c] = "new"
         /\ \E q \in Tasks : Promise!AddedBy(q, c) /\ Status[q] = "running"
<1>1. /\ p \in Tasks /\ c \in Tasks /\ p = TaskAt(t, n) /\ n \in 1 .. Depth(t)
      /\ ~Known(c) /\ Over(c) /\ a + 1 \in Kids(p) /\ c = Children[p][a + 1]
  BY DEF Adding
<1>2. Status[c] = "new"
  BY <1>1, StatusIs DEF Over
<1>3. Status[p] = "running"
  BY <1>1, StatusIs DEF Running
<1>4. c \in ToSet(Children[p])
  BY <1>1, AddedByIs
<1> QED
  BY <1>1, <1>2, <1>3, <1>4 DEF Promise!AddedBy, Promise!ToSet, ToSet

(* Who ends has added everything and, unless it is forgetful, all of it is  *)
(* done.                                                                    *)
LEMMA FinishedStatus ==
  ASSUME PoolInv, NEW t \in Threads, NEW n, NEW p, Finished(t, n, p)
  PROVE  /\ p \in Tasks
         /\ \A c \in ToSet(Children[p]) : Status[c] # "new" /\ (p \notin Forgetful => Status[c] = "done")
<1>1. p \in Tasks /\ \A j \in Kids(p) : id[Children[p][j]] # 0 /\ (p \notin Forgetful => Over(Children[p][j]))
  BY DEF Finished
<1>2. ASSUME NEW j \in Kids(p)
      PROVE  /\ Status[Children[p][j]] # "new"
             /\ p \notin Forgetful => Status[Children[p][j]] = "done"
  <2>1. PICK c \in Tasks : c = Children[p][j]
    BY <1>1, ChildType
  <2>2. Known(c) /\ (p \notin Forgetful => Over(c))
    BY <1>1, <2>1 DEF Known
  <2>3. Status[c] # "new" /\ (p \notin Forgetful => Status[c] = "done")
    BY <2>2, StatusIs DEF Over
  <2> QED
    BY <2>1, <2>3
<1> QED
  BY <1>1, <1>2, AddedByIs

(* When the pool is idle and no program goes on, everything is done.        *)
LEMMA AllDone ==
  ASSUME PoolInv, ProgramsOver, ~PoolBusy
  PROVE  \A k \in Tasks : Status[k] = "done"
<1>1. \A i \in Slots : IsEmpty(i) /\ ~tasks[i].is_being_processed
  BY DEF PoolBusy, EmptySlots, PoolInv, SlotInv
<1>2. \A t \in Threads : Depth(t) = 0
  <2>1. \A c \in Clients : Depth(c) = 0
    BY DepthType DEF ProgramsOver, PoolInv, Threads
  <2>2. \A w \in Workers : Depth(w) = 0
    BY <1>1 DEF PoolInv, WorkerInv
  <2> QED
    BY <2>1, <2>2 DEF Threads
<1>3. \A k \in Tasks : Over(k)
  BY <1>1, <1>2 DEF Over, Running, Waiting, IsReady
<1>4. \A k \in Tasks : Known(k)
  <2> DEFINE K == {k \in Tasks \ Roots : ~Known(k)}
  <2>1. SUFFICES K = {}
    BY DEF Known
  <2>2. SUFFICES ASSUME K # {} PROVE FALSE
    OBVIOUS
  <2>3. PICK k \in K, p \in Tasks \ K : k \in ToSet(Children[p])
    BY <2>2, TaskForest
  <2>4. p \in Tasks /\ Known(p) /\ Over(p)
    BY <1>3, <2>3 DEF Known
  <2>5. PICK j \in Kids(p) : k = Children[p][j]
    BY <2>3, <2>4, AddedByIs
  <2>6. id[k] # 0
    BY <2>4, <2>5 DEF PoolInv, EndedInv
  <2> QED
    BY <2>3, <2>6 DEF Known
<1> QED
  BY <1>3, <1>4, StatusIs DEF Over

(* A shutdown closes; every other step leaves the pool open or closed.      *)
LEMMA StepKinds ==
  ASSUME PoolInv, [Next]_vars
  PROVE  \/ \E c \in Clients : Shutdown(c)
         \/ Effect /\ we_are_destructing' = we_are_destructing
<1>1. (\E c \in Clients : Shutdown(c)) \/ we_are_destructing' = we_are_destructing
  BY DEF Next, Work, AddToSlot, AddInPlace, AddWaits, WaitForTask, WaitForAllTasks, EndInPlace, TakeTask,
         WorkerWaits, WorkerEnds, EndTask, ShutdownWaits, SpuriousWakeup, Ended, vars
<1> QED
  BY <1>1, StepHasEffect

(* Every step of the pool is one of ForkJoin, or changes nothing there.     *)
LEMMA PromiseStep ==
  ASSUME PoolInv, PoolInv', [Next]_vars
  PROVE  [Promise!Next]_(Promise!vars)
<1>1. CASE \E c \in Clients : Shutdown(c)
  <2>1. PICK c \in Clients : Shutdown(c)
    BY <1>1
  <2>2. (\A k \in Tasks : Status[k] = "done") /\ we_are_destructing' = TRUE
    BY <2>1, AllDone DEF Shutdown
  <2>3. \A k \in Tasks : Same(k)
    BY <2>1 DEF Shutdown, Same, Running, Waiting, Known, IsReady, IsEmpty, Depth, TaskAt
  <2>4. Status' = Status
    BY <2>3, StatusSame
  <2>5. Promise!Close
    BY <2>2, <2>4 DEF Promise!Close
  <2> QED
    BY <2>5 DEF Promise!Next
<1>2. ASSUME Effect, we_are_destructing' = we_are_destructing
      PROVE  [Promise!Next]_(Promise!vars)
  <2>0. ASSUME Status' = Status PROVE [Promise!Next]_(Promise!vars)
    BY <1>2, <2>0 DEF Promise!vars
  <2>1. ASSUME NEW k \in Tasks, Promise!Add(k) \/ Promise!RunInPlace(k) \/ Promise!Run(k) \/ Promise!Finish(k)
        PROVE  [Promise!Next]_(Promise!vars)
    BY <1>2, <2>1 DEF Promise!Next
  <2>2. ASSUME NEW t \in Threads, NEW n, NEW p, NEW a, NEW c, NEW i, NEW v, Queues(t, n, p, a, c, i, v)
        PROVE  [Promise!Next]_(Promise!vars)
    <3>1. /\ c \in Tasks /\ Status[c] = "new"
          /\ \E q \in Tasks : Promise!AddedBy(q, c) /\ Status[q] = "running"
      BY <2>2, AddingStatus DEF Queues
    <3>2. Status'[c] = "added"
      BY <2>2, <3>1, QueuesChanges, StatusPrime
    <3>3. Status' = [Status EXCEPT ![c] = "added"]
      BY <2>2, <3>1, <3>2, QueuesChanges, StatusChanges
    <3>4. Promise!Add(c)
      BY <3>1, <3>3 DEF Promise!Add
    <3> QED
      BY <2>1, <3>1, <3>4
  <2>3. ASSUME NEW t \in Threads, NEW n, NEW p, NEW a, NEW c, Begins(t, n, p, a, c)
        PROVE  [Promise!Next]_(Promise!vars)
    <3>1. /\ c \in Tasks /\ Status[c] = "new"
          /\ \E q \in Tasks : Promise!AddedBy(q, c) /\ Status[q] = "running"
      BY <2>3, AddingStatus DEF Begins
    <3>2. Status'[c] = "running"
      BY <2>3, <3>1, BeginsChanges, StatusPrime
    <3>3. Status' = [Status EXCEPT ![c] = "running"]
      BY <2>3, <3>1, <3>2, BeginsChanges, StatusChanges
    <3>4. Promise!RunInPlace(c)
      BY <3>1, <3>3 DEF Promise!RunInPlace
    <3> QED
      BY <2>1, <3>1, <3>4
  <2>4. ASSUME NEW t \in Threads, NEW n, NEW p, NEW x, Joins(t, n, p, x)
        PROVE  [Promise!Next]_(Promise!vars)
    BY <2>0, <2>4, JoinsChanges, StatusSame
  <2>5. ASSUME NEW t \in Threads, NEW n, NEW p, Finished(t, n, p), \A k \in Tasks : k # p => Same(k),
               Running(p), ~Running(p)', ~Waiting(p)', Known(p)'
        PROVE  [Promise!Next]_(Promise!vars)
    <3>1. /\ p \in Tasks
          /\ \A c \in ToSet(Children[p]) : Status[c] # "new" /\ (p \notin Forgetful => Status[c] = "done")
      BY <2>5, FinishedStatus
    <3>2. Status[p] = "running" /\ Status'[p] = "done"
      BY <2>5, <3>1, StatusIs, StatusPrime
    <3>3. Status' = [Status EXCEPT ![p] = "done"]
      BY <2>5, <3>1, <3>2, StatusChanges
    <3>4. Promise!Finish(p)
      BY <3>1, <3>2, <3>3 DEF Promise!Finish, Promise!ToSet, ToSet
    <3> QED
      BY <2>1, <3>1, <3>4
  <2>6. ASSUME NEW t \in Threads, NEW n, NEW p, EndsInPlace(t, n, p)
        PROVE  [Promise!Next]_(Promise!vars)
    <3>1. Finished(t, n, p)
      BY <2>6 DEF EndsInPlace
    <3> QED
      BY <2>5, <2>6, <3>1, EndsInPlaceChanges
  <2>7. ASSUME NEW w, NEW i, NEW k, Takes(w, i, k)
        PROVE  [Promise!Next]_(Promise!vars)
    <3>1. /\ k \in Tasks /\ Waiting(k) /\ ~Running(k) /\ Running(k)'
          /\ \A q \in Tasks : q # k => Same(q)
      <4>1. k \in Tasks
        BY <2>7 DEF Takes
      <4> QED
        BY <2>7, <4>1, TakesChanges DEF PoolInv, OnceInv
    <3>2. Status[k] = "added" /\ Status'[k] = "running"
      BY <3>1, StatusIs, StatusPrime
    <3>3. Status' = [Status EXCEPT ![k] = "running"]
      BY <3>1, <3>2, StatusChanges
    <3>4. Promise!Run(k)
      BY <3>2, <3>3 DEF Promise!Run
    <3> QED
      BY <2>1, <3>1, <3>4
  <2>8. ASSUME NEW w, NEW p, NEW i, EndsTask(w, p, i)
        PROVE  [Promise!Next]_(Promise!vars)
    <3>1. w \in Threads /\ Finished(w, 1, p)
      BY <2>8 DEF EndsTask, Threads
    <3> QED
      BY <2>5, <2>8, <3>1, EndsTaskChanges
  <2>9. ASSUME UNCHANGED <<tasks, stack, slot, id>> PROVE [Promise!Next]_(Promise!vars)
    <3>1. \A k \in Tasks : Same(k)
      BY <2>9 DEF Same, Running, Waiting, Known, IsReady, IsEmpty, Depth, TaskAt
    <3> QED
      BY <2>0, <3>1, StatusSame
  <2> QED
    BY <1>2, <2>2, <2>3, <2>4, <2>6, <2>7, <2>8, <2>9 DEF Effect
<1> QED
  BY <1>1, <1>2, StepKinds

(* The programs run at first.                                               *)
LEMMA RootsRun ==
  ASSUME Init, NEW k \in Roots
  PROVE  Running(k)
<1>1. PICK c \in Clients : k = Program[c]
  BY DEF Roots
<1>2. c \in Threads /\ stack[c] = <<[task |-> k, added |-> 0, joined |-> 0]>>
  BY <1>1 DEF Init, Frame, Threads
<1>3. PICK f : stack[c] = <<f>> /\ f.task = k
  BY <1>2
<1>4. Len(stack[c]) = 1 /\ stack[c][1] = f
  BY <1>3
<1> QED
  BY <1>2, <1>3, <1>4 DEF Running, Depth, TaskAt

LEMMA PromiseInit == Init => Promise!Init
<1> SUFFICES ASSUME Init PROVE Promise!Init
  OBVIOUS
<1>1. PoolInv
  BY InitHasPoolInv
<1>2. \A k \in Tasks : ~Waiting(k) /\ id[k] = 0
  BY DEF Init, Waiting, IsReady, IsEmpty
<1>3. \A k \in Tasks : Running(k) <=> k \in Roots
  <2>1. ASSUME NEW k \in Tasks, k \in Roots PROVE Running(k)
    BY <2>1, RootsRun
  <2>2. ASSUME NEW k \in Tasks, Running(k) PROVE k \in Roots
    BY <1>1, <1>2, <2>2, FrameFacts DEF Running, Known
  <2> QED
    BY <2>1, <2>2
<1>4. \A k \in Tasks : Status[k] = IF k \in Roots THEN "running" ELSE "new"
  BY <1>1, <1>2, <1>3, StatusIs DEF Known
<1>5. Status = [k \in Tasks |-> IF k \in Roots THEN "running" ELSE "new"]
  BY <1>4, StatusType
<1>6. we_are_destructing = FALSE
  BY DEF Init
<1> QED
  BY <1>5, <1>6 DEF Promise!Init

(* The pool implements ForkJoin: every task is executed once, a join        *)
(* returns when what it waits for is done, and the pool is shut down when   *)
(* all is done.                                                             *)
THEOREM PoolKeepsPromise == Spec => Kept
<1>1. PoolInv /\ PoolInv' /\ [Next]_vars => [Promise!Next]_(Promise!vars)
  BY PromiseStep
<1> QED
  BY <1>1, PromiseInit, PoolInvariant, PTL DEF Spec, Kept, Promise!Spec
================================================================================
