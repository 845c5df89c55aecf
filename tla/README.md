# A TLA+ model of the LabProdam camera programs

The repository holds five small interactive programs and one tracker that look
at a room through a camera: people vote or dial by holding a hand over a box in
the picture, raised hands and objects are counted, and moving objects are
followed. Beside them it carries the dlib library. This directory models the
control of those programs, and two of dlib's classes for threads, in TLA+,
checks it with TLC and proves its main properties with TLAPS.

## 1. Inventory

| component | code | state | operations | hard behaviour |
|---|---|---|---|---|
| camera loop | `HandCounter.cpp`, `VoteMode.cpp`, `DialMode.cpp`, `ObjectCounter.cpp`, `Tracking/baratas.cpp` (the same loop five times) | `camAdapted`, `camAdaptationStartTime`; the camera's controls | grab, calibrate, count down, poll the keyboard | two clock readings per round, recalibration at any moment, a clock that jumps, a camera that goes away |
| camera controls | `proc/Util.cpp` | exposure and white balance of the device | `EnableCameraAutoAdjust`, `DisableCameraAutoAdjust` | neither `open` nor `ioctl` is checked |
| blob detector | `proc/BlobDetector.cpp` | background model; hulls, ellipses, circles of the last frame | `findBlobs`, `findEllipses`, `findHough`, `resetBackground`, getters, drawing | the background model lives through calibrations |
| interactive object | `proc/InteractiveObject.cpp` | `active`, `activeStamp`, `counted`, `count` | `ProcessHulls`, `Deactivate` | 32-bit millisecond stamps, one count per hold |
| panel | `VoteMode.cpp` 56-106, `DialMode.cpp` 55-101 | two or ten interactive objects | process every box in turn, then deactivate all if several are active | several boxes active in the middle of a frame, a clock reading per box |
| vote mode | `VoteMode.cpp` | counts of no (left) and yes (right) | as the panel | a hand that reaches both boxes |
| dial mode | `DialMode.cpp` | `numbers`, the label `i` | append a digit, compare with the code | `i` advances twice past a pressed box |
| tracker | `Tracking/Tracker.cpp`, `TrackObj.cpp`, `MKalman.cpp` | the vector of objects with history, filter and `nFramesUnseen` | `init`, `track` | assignment ties, padding of the cost matrix, thresholds, births and deaths in one call |
| assignment | `Tracking/dlib/dlib/optimization/max_cost_assignment.h` (vendored) | labels, matching, slacks | `max_cost_assignment` | documented loop invariants of the Hungarian algorithm |
| trajectory program | `Tracking/baratas.cpp` | the loop and a tracker | as both | skips the keyboard in the frame of `init` |
| background removal counter | `HandCounter_bgRemoval.cpp` | `height` of the counting line | up and down keys, count hulls | region of interest against the picture |
| object counter | `ObjectCounter.cpp` | the loop and the circles of the last frame | as the loop | |
| read-write mutex | `Tracking/dlib/dlib/threads/read_write_mutex_extension.h` (vendored) | the count of locks, two flags of a writer, a mutex and a signaler | `lock`, `unlock`, `lock_readonly`, `unlock_readonly` | a writer gathers locks while readers come and go; few wake-ups are sent |
| thread pool | `Tracking/dlib/dlib/threads/thread_pool_extension.cpp`, `.h` (vendored) | as many slots for tasks as threads, two signalers | add a task, wait for one or for all, shut down | tasks add tasks and wait for them; slots are used again; who is woken |
| the rest | the rest of `Tracking/dlib`, `imgs/`, `proc/sendmail.py_no` | | | |

The programs are single threads. What is concurrent is their environment: the
wall clock moves between any two statements (and may be set back), the hands
move between frames, the camera may ignore a request or disappear, and the
operator may press a key in any round. All components talk by plain calls; the
panels own their interactive objects, the loop owns detector and camera, and
`baratas` owns the tracker. The two classes of dlib are used by threads of any
program; the five do not use them, and each is modelled by itself, with clients
that call it in every order its documentation allows.

What makes each correct:

* loop: frames are processed only when the camera had its calibration time since
  it was asked (less, at the start, what opening the window took), with frozen
  controls, against a background of this calibration; the calibration ends; the
  countdown outgrows its three bytes only when a round hangs for ten seconds or
  the clock is set back far;
* panel: between frames one box at most is active; a box is counted only when
  it was held alone, long enough, and once per hold; a held box is counted;
* dial: the number consists of the digits of the boxes counted, in their order;
* tracker: every blob is one object; the number of objects is bounded; a scene
  that stands still keeps its objects;
* assignment: the invariants its comments state, that it returns, and that the
  result is an assignment of the largest total;
* trajectory program: the tracker only sees frames of a calibrated camera, and
  the operator is heard although one frame goes past the keyboard;
* object counter: it goes on counting once the operator leaves it alone;
* background removal counter: the line stays in the picture, and who crosses it
  is counted;
* read-write mutex: many readers or one writer, no lock and no wake-up is lost,
  everybody is served;
* thread pool: every task is executed once, joins wait for what they should, and
  everything ends, unless a task waits for all tasks of a thread it is itself a
  task of.

`PROJECT.json` lists the hazards behind these, each at its line.

## 2. Modules

| module | what it is | code |
|---|---|---|
| `CameraLoop` | the shared loop, the clock, the camera; operators that a program extends with its frame step | the five `main`s, `Util.cpp`, the background of `BlobDetector.cpp` |
| `HandCounter` | `CameraLoop` with the counting of hulls | `HandCounter.cpp` |
| `InteractiveObject` | a box as a record, its methods as operators on it | `InteractiveObject.cpp` |
| `Panel` | boxes, one `ProcessHulls` per step, and the resolution at the end of a frame; extends `CameraLoop` and `InteractiveObject` | the frame step of `VoteMode.cpp` and `DialMode.cpp` |
| `Poll` | what a panel promises: no frames, no camera, no order of processing | abstract |
| `VoteMode`, `DialMode` | the programs: `Panel` with their layouts (`VoteMode` is `PanelSpec(Layout)`), and the dialled number | `VoteMode.cpp`, `DialMode.cpp` |
| `Assignment` | what `max_cost_assignment` promises: an assignment of maximal total cost, any of those | `max_cost_assignment_abstract.h` |
| `MaxCostAssignment` | the Hungarian algorithm step by step, one action per way through its loops; extends `Assignment` for the comparison | `max_cost_assignment.h` |
| `Tracker` | `init` and `track` on a line; extends `Assignment` and uses the contract | `Tracker.cpp`, `TrackObj.cpp`, `MKalman.cpp` |
| `Census` | what the tracker promises about how many objects of which age there are | abstract |
| `ObjectCounter` | `CameraLoop` with the circles | `ObjectCounter.cpp` |
| `BgRemoval` | its own loop, the counting line, the cut of a frame at it | `HandCounter_bgRemoval.cpp` |
| `Baratas` | the program: `CameraLoop` with the actions of `Tracker` as its frame step; extends both | `Tracking/baratas.cpp` |
| `ReadWriteMutex` | the mutex and the threads that call it | `read_write_mutex_extension.h` |
| `ReadersWriter` | what it promises: up to `max_locks` readers or one writer | `read_write_mutex_extension_abstract.h` |
| `ThreadPool` | slots, workers and clients, each in a stack of tasks | `thread_pool_extension.cpp`, `.h` |
| `ForkJoin` | what the pool promises: tasks are added, executed once and awaited | `thread_pool_extension_abstract.h` |
| `MC*` | values of the constants for TLC | |
| `CameraLoopProofs` | theorems about the loop and `HandCounter` | |
| `PanelProofs` | about a panel of any layout, which `VoteMode` is, and `DialMode` | |
| `AssignmentProofs` | lemmas about sums and assignments of the largest total | |
| `MaxCostAssignmentProofs` | theorems about the Hungarian algorithm | |
| `TrackerProofs` | about `Tracker` and `Baratas` | |
| `BgRemovalProofs`, `ReadWriteMutexProofs`, `ThreadPoolProofs` | about those modules | |

**State and code.** `pc` names the next step of the loop: `grab` (`cap >>
frame`), `calibrate` (the first clock reading), `countdown` (the second one),
the frame steps of the program (`process`; `findBlobs`, `boxes`, `resolve`;
`code`), `key` (`waitKey`) and `note`, where after the space key the start of
the new calibration is read, the camera being asked already. Before all of them
is `open`: at the start of a program it is the other way round, the start is
read first, and the camera is asked and opened when the window is there. A step
ends where the code reads the clock, so the clock can move between any two
readings. `clock` counts quanta, `QuantaPerSec` to the second, and `time(NULL)`
is `Seconds`. `autoAdjust` holds the two controls of the device. `background`
abstracts the background model to what matters of it: has it learned anything,
and only from frames of this calibration? `hulls`, `boxes`, `numbers`, `label`,
`objects` are the variables of the code; `lead`, `adapting`, `opened`, `since`,
`scene` and `steady` are history variables that no guard of the code reads.
`lead` is the time from the reading of the start to the request to the camera,
`adapting` the time since that request; both count what passes, whatever a
clock that is set back shows. `adapting` stops once it is longer than a
calibration, which keeps the states few.

**Abstractions.** A hull is the set of its vertices (the code tests vertices
only), and `HullSets` are the sets of hulls a frame may show. What image
processing finds is arbitrary within that set. In the tracker a point is one
coordinate, in units of `PixelUnits` to the pixel so that truncation of a
prediction to whole pixels is kept; the Kalman gain is any value between
nothing and all, except before the first prediction of the filter, where it is
zero as in OpenCV; velocities are those of `Speeds`. `max_cost_assignment` is
any assignment of maximal total cost. Drawing, windows, colours and texts are
left out.

In `MaxCostAssignment` the loops of the code are a program counter: `stage` is
the loop over `match_size`, `search` the queue, `scan` the columns seen from one
row, `tight` the columns after an improvement of the labels, `flip` the path.
Rows and columns count from 1, so that 0 stands for the code's -1; costs are
unbounded integers. `compute_slack` is part of the action that adds a row.

In `BgRemoval` a blob is the rows it covers, from `top` to `bottom`, and the
vertices of its hull are its two ends; that is enough for a line that is a row,
and it is the hard case of `CrossingIsCounted`, a blob whose vertices are far
from the line. A frame that cannot be cut ends the program by an exception.

In the two classes of dlib all state is guarded by one mutex, so an action is
what a thread does from the time it has the mutex until it returns or waits on
a signaler; a wait gives the mutex up, and `asleep` holds the threads that have
yet to be woken. A woken thread tests its loop's condition again like one that
comes anew, which is why `pc` names loops and not statements. Wake-ups without a
signal are actions too (`SpuriousWakeup`). `reading` and `writing` of the mutex
and `stack` of the pool are what callers know of the calls they have made. A
task of the pool is a list of tasks that it adds and the way it waits for them;
what it computes besides is left out.

**Not modelled.**
* OpenCV's image processing: what it finds is arbitrary.
* The members of the detector that no program uses, the pictures, the mail
  script, windows and drawing.
* A clock that is set forward: a calibration would then end at once, in the
  code as well.
* The frame grabbed once before the loop (`VoteMode.cpp` 28, `DialMode.cpp` 34),
  which only gives the width of the picture, a constant here.
* Of dlib all but the assignment, the mutex and the pool. It is a library of a
  thousand files of which the programs use a matrix type and one function. Most
  of it is numerical, sequential code over data that a model checker cannot
  enumerate to any purpose (optimisation, learning, linear algebra, images), or
  input and output (sockets, windows, files). Its other classes for threads
  (pipe, threaded objects, timer) could be modelled like the two here.
* Futures of the thread pool, which call `wait_for_task`, and the threads of the
  pool before they have entered their ids.
* A run that shows how `wait_for_all_tasks` locks up. It waits until no slot has
  a task that this *thread* added (`thread_pool_extension.cpp` 112-122). When a
  task that a worker executes leaves a task behind and ends, the same worker may
  take that one, whose slot bears the worker's own number; if it adds a task and
  waits for all, it waits for its own slot for good. The model does the same,
  and `EverythingEnds` has the premise `Untangled`, which says that no task
  below a forgetful one joins in this way. The run has such a task (`a1`, left
  behind by `a`) that joins by id; when `ByIds` does not hold it, TLC
  reports the lock-up as a violation of the conclusion.
* `unlock_readonly` for a lock that nobody has, while a writer gathers. The
  abstract says that such a call has no effect (lines 127-131), but the code
  tells a readonly lock by `available_locks != max_locks` (line 138), which is
  also true of the locks a writer has gathered; so it adds one, and a reader may
  end up beside the writer. At all other times the call is modelled, and has no
  effect (`UnlockNothing`).

## 3. Runs

| run | configuration | bounds | shows |
|---|---|---|---|
| `hand` | `HandCounter.cfg` | two quanta per second, calibration of 1 s, clock to 12 s, the loop stalls up to 10 s, anywhere, the opening of the camera included; the clock is set back once, to any time; requests up to 11 s | the loop's safety properties; several calibrations fit, the seconds are cut off anywhere, and the countdown both fits and does not, by a stall and by the clock |
| `objects` | `ObjectCounter.cfg` | two quanta per second, calibration of 1 s, last request at quantum 4 of 11, the clock is set back once, the camera may ignore requests | `KeepsCounting`: calibrations end, and stay ended |
| `vote` | `VoteMode.cfg` | stamps modulo 7, so that they wrap within the 8 quanta of a run; one or both hands, an arm over both boxes, vertices on the border | one active box, votes only for a sole holder, refinement of `Poll`, a hand that stays is counted |
| `dial` | `DialMode.cfg` | three boxes, up to three digits, code "10", stamps modulo 4 | number and counts agree, digits are their boxes, pace, refinement of `Poll` |
| `tracker_census` | `TrackerCensus.cfg` | two blobs at two places further apart than the threshold, all orders and losses, one unseen frame allowed | the tracker's properties, refinement of `Census` |
| `assignment` | `MaxCostAssignment.cfg` | all 3 x 3 matrices of three values, a positive one among them | the documented invariants, termination, and the result against the contract |
| `baratas` | `Baratas.cfg` | calibration of 1 s, recalibrations up to second 3 of 6, one blob at two places | the composition: what the tracker may see and when, and that the keyboard is polled |
| `bg_removal` | `BgRemoval.cfg` | pictures of 4 and 6 rows, a line that starts at row 5, every set of up to two blobs, every sequence of keys | where the line may end the program, and that who crosses it is counted |
| `mutex` | `ReadWriteMutex.cfg` | five threads, three locks | the accounts of locks, no lost wake-up, refinement of `ReadersWriter`, everybody is served |
| `pool` | `ThreadPool.cfg` | two workers, two clients, seven tasks up to three deep, joined by id, all at once, or not at all; a task left behind has a task of its own | no lost wake-up, refinement of `ForkJoin`, everything ends |
| `tracker_origin` | `TrackerOrigin.cfg` | places away from the origin, nothing moves | violated: see findings |
| `tracker_pairing` | `TrackerPairing.cfg` | up to three blobs in a row three hundredths of a pixel apart | violated: see findings |

The bounds are small because the behaviour repeats: a calibration, a hold, a
frame and the life of an object are each complete several times within them.
Three rows are what the Hungarian algorithm needs for a path of more than one
edge to flip and for labels to be improved more than once in a stage; three
values give ties, which the choice of a tight edge depends on. The calibration
takes 1 s instead of 3 in `hand`, `objects` and `baratas`, and the theorems
hold for every time; it is zero in the panels' runs (one quantum of waiting is
left, the comparison is strict), where the calibration is not the subject. Ten
seconds of stall are more than the nine after which the countdown may take a
third character; nothing in the code bounds a stall. `NumBoxes` is 2 or 3
instead of 10 in `DialMode`: with three boxes a box before, at and after the
pressed one exists. `MaxUnseen` is 1 or 2 instead of 3: an object goes through
sighted, unseen, lost and found again. In `tracker_census` predictions do not
move; the theorems about the tracker hold for all velocities
(`TrackerStillScene` with a hypothesis). Five threads and three locks of the
mutex let one writer gather while another awaits its turn, readers sleep and
readers read; a thread takes one readonly lock, because threads that take two
can block one another for good (the second waits for the writer that waits for
the first), and the theorems hold for any number. The pool has more tasks that
wait than workers, so that workers do tasks in place and clients find no slot;
the line of `bg_removal` starts inside one picture and below the other. Every
run of a program stops at `MaxClock`; a program that has ended stays so, which
is the action `Ended`, so that no run needs deadlock checking off.

**Fairness.** `FairSpec` is weakly fair on the program's step and on time: the
loop never blocks for good (`waitKey(30)` returns, the camera returns a frame or
an empty one), and clocks run. Nothing is assumed of hands, operator or camera.
`KeepsCounting` needs that the operator stops asking: no request comes after
`LastRequest`. `HeldIsCounted` speaks of holds that have clock left in
the model. `max_cost_assignment` is a function of one thread, and `Returns`
assumes only that it goes on (weak fairness on its steps). `OperatorIsHeard`
assumes what the other programs do. In `ReadWriteMutex` a thread inside a call
that does not sleep gets the mutex in the end, and who has a lock gives it back;
nobody has to ask for one. In `ThreadPool` every thread that does not sleep goes
on, since tasks and clients end when nothing holds them up; that is not enough
for tasks that are not `Untangled`. Both are what a fair
scheduler of threads gives; wake-ups come from signals, not from fairness.

**Findings.** Two runs show where code and its comments differ.
`HistoryInScene`: the filter is started with a predicted state but no corrected
one, so an object that is not sighted right after its first frame is predicted
at the picture's corner. `NearestPairing`: the cells of the cost matrix that
pair nothing have different values, which enter the total that the assignment
maximises.

## 4. Proofs

The theorems hold for every value of the constants that satisfies the
assumptions named in the modules (`LoopAssumption`, `ObjectAssumption`,
`PanelAssumption`, `DialAssumption`, `HandAssumption`, `CostAssumption`,
`TrackerAssumption`, `LineAssumption`, `ReadWriteMutexAssumption`,
`ThreadPoolAssumption`, `TaskForest`). What else a theorem needs is in its
statement:

* `SteadyClock`, the clock is never set back, for the timing of holds and of
  dialled digits (the panels compare milliseconds of the same clock), and
  `ObedientCamera`, a request to the camera reaches both controls, for frozen
  controls; the programs have no answer to the contrary of either;
* `AdaptationTime <= 99` for the three characters of the countdown: what is left
  of the calibration itself has two digits;
* `Band > 1` for `LineCountsCrossing`: the code compares with 10 rows, and with
  one row nothing would be counted;
* for `TrackerStillScene` that a distance costs something (100 in the code), that
  a fraction of a pixel is near (100 pixels are), and that filters do not come to
  believe in a motion that is not there: no velocity, or places in whole pixels.
  With places between pixels and a velocity the property is not true of the
  model, where the filter's gain may be any number in every frame: TLC finds an
  object that is corrected to a velocity and then never again, and drifts away.

`TaskForest` says what a task is in the code, one call of `add_task`: it is
added once, by one task, and going back from it to who added it ends at the
program of a client.

* *Loop* (`CameraLoopProofs`), for stalls of any length, however often the
  clock is set back. `LoopInv` adds to the properties that the clock is ahead
  of the beginning of the start second by no more than the time that really
  passed (`lead + adapting`, as long as that is not yet enough), and that in
  the countdown the time of the last step lies within the calibration, however
  far back the clock has gone since. From the first follows `HandCalibration`
  (`LongEnough`: division by `QuantaPerSec` is where the strict comparison of
  whole seconds is needed), from the second `HandCountdown`, which names the
  only two ways the buffer is outgrown. `HandFrozen` needs only the obedient
  camera and `HandBackground` nothing: the controls are frozen and the
  background is reset in the same step that ends a calibration.

* *Panel* (`PanelProofs`). `SoleHolder` is not inductive. `PanelInv` says what
  the order of processing maintains: boxes still to come are active exactly if
  they were when the frame began, at most one was, and a counted box is among
  those. `HoldInv` ties stamps to the history variable `since` and is what the
  refinement of `Poll` needs, with `MinusBound`: a difference of wrapped stamps
  never exceeds the real one. The theorems `PanelSpecInvariant`, `VoteTyped`,
  `VoteSoleHolder`, `VoteCountNeedsSoleHolder` and `VoteKept` hold for a panel of
  any layout and any number of boxes. For the dial, which adds to the frame,
  `DialInvariant` says that a label is the index of its box unless a box before
  it was active when the frame began, and then no later one is pressed, whence
  `DialDigitIsBox`; `DialNumberTellsCounts` is by the number of places of a digit
  in a sequence; `DialTakesTime` with `PaceInv`, by which a box that is active
  and not counted was touched after all earlier digits, unless it is doomed to
  be deactivated at the end of this frame. `DialKept` is the refinement.

* *Sums* (`AssignmentProofs`). The total of an assignment is a fold over a set,
  whose order nothing is known of. `TotalIsSum` replaces it by a sum from which
  any member may be taken out; it and the comparison of sums are inductions over
  finite sets, made without the induction theorems (which the provers cannot
  instantiate) from a smallest set that is bad (`SmallestBadSet`, by the
  well-foundedness of strict inclusion). `TotalInLabels` is the duality of linear
  programming: labels that are feasible bound the total of every assignment, and
  an assignment reaches the bound exactly if all its edges are tight. Both the
  algorithm and the tracker rest on it.

* *Assignment* (`MaxCostAssignmentProofs`), for matrices of every size. None of
  the documented invariants is inductive alone. `HungarianInv` adds `TreeInv`,
  which ties the rows of the tree to its columns, makes each slack the least gap
  between the tree and a column, and hangs every row on its parent by a tight
  edge, parents before children (`Linked`, with a rank as witness); and `PathInv`,
  which says the same of the rest of the path while it is flipped. With as many
  rows as columns an unmatched row leaves an unmatched column (`FreeColumn`, by
  the pigeonhole principle), so the least slack exists. The theorems are
  `HungarianTyped`, `HungarianLabels`, `HungarianSlack`, `HungarianMatching`,
  `HungarianCertificate` (the result is a bijection along tight edges under
  feasible labels), and `HungarianOptimal`: by `TotalInLabels` that certificate
  means that the result keeps the contract the tracker is modelled with.

* *Tracker* (`TrackerProofs`), for every scene, threshold and motion. From the
  contract of the assignment, a permutation of the indices, follows that the
  blobs near their predictions and the objects sighted match one to one
  (`SightingsMatch`); `TrackStep` counts the vector after erasure and birth age
  by age, with lemmas about sequences picked by a set of indices. `TrackerInv`
  bounds the objects of every age by the blobs of a frame: the total bound
  `ObjectsBounded` is not inductive without the ages. `TrackerKept` maps every
  frame to a frame of `Census`. `TrackerStillScene` needs that the assignment is
  optimal: `StillPairing` gives labels of the cost matrix under which the pairing
  of every object with its own place is tight, so every optimal assignment pairs
  places that look the same in whole pixels, and no pair is far. `StillInv` keeps
  a bijection of objects and blobs from frame to frame.

* *Trajectory program* (`TrackerProofs`). `BaratasTracks` says that the loop
  leaves the tracker's variables alone except in its frames, so that every theorem
  of `Tracker` holds in the program.
  `BaratasTracksCalibratedFrames` comes from the invariant of the loop and holds
  for a clock that is set back.

* *Counting line* (`BgRemovalProofs`). `LineInv`: once a frame was processed the
  line lies in the picture, and keys are polled only after one was; the clamp of
  each key keeps it so (`LineTyped` above, `LineStaysInPicture` below).
  `LineCountsCrossing` is about the cut of a blob in the row next to the line.

* *Mutex* (`ReadWriteMutexProofs`), for any number of threads, locks and
  readonly locks per thread. `LocksAccounted` and `SleepersHaveReason` are
  inductive together with `WritersAgree`, which says who gathers and who has the
  write lock. The delicate step is `UnlockReadonlyKeeps`: a wake-up may be left
  out because, when the lock is not the first one that is free, no reader can be
  asleep. `MutexTyped` says that the unsigned count neither wraps below zero nor
  passes `max_locks`; `MutexKept` is the refinement of `ReadersWriter`, whose
  number of free locks is `max_locks` less the readonly locks taken.

* *Thread pool* (`ThreadPoolProofs`), for any number of workers, none included,
  any number of clients, and any forest of tasks. `PoolInv` ties the slots, the
  stacks and the ids together: a slot that is not empty has a task whose id tells
  the slot (`SlotInv`); a worker in a task belongs to a marked slot (`WorkerInv`);
  the frames of a stack are a path in the forest, of each the children up to
  `added` have ids, those up to `joined` are over, and what it added is in the
  slots under its thread (`FrameInv`); no task runs twice or runs and waits
  (`OnceInv`); before a task begins none of its children was added, and after it
  ended all were (`FreshInv`, `EndedInv`). The actions that change tasks do it in
  one of six ways (`Queues`, `Begins`, `Joins`, `EndsInPlace`, `Takes`,
  `EndsTask`), and the proof goes by these: which action has which effect, what
  the effect does to what is running, waiting and known, that it keeps `PoolInv`,
  and which step of `ForkJoin` it is. The joins are the heart (`AwaitedIsOver`):
  a task that is in a slot is found there, by its id, which tells the slot
  (`IdTellsSlot`), and by the thread that added it; so when it is not found, it
  has ended, also when it was done in place and its id is 1.
  `SleepersAreWoken` counts: a worker sleeps only while no more tasks are ready
  than workers are awake and without a task, which one signal per task added, and
  a worker per task taken, maintain. `PoolKeepsPromise` maps the stacks and slots
  to the `Status` of tasks; that the pool is shut down only when *all* tasks are
  done follows from `EndedInv` and the forest, in which a task that is not done
  would have one that is not done above it, up to the program of a client.

What is proved need not be run everywhere: `SoleHolder` and
`CountNeedsSoleHolder` are run for the two boxes of the vote and proved for both
programs, and the type invariants of `DialMode` and `ReadWriteMutex` are proved
only. Every safety property that a run checks and that holds is now the statement
of a theorem.

Only model-checked: liveness (`KeepsCounting`, `HeldIsCounted`, `Returns`,
`OperatorIsHeard`, `AllServed`, `EverythingEnds`), which is beyond the prover, and
the two findings, which are counterexamples. That a fold over a set is a sum had
to be proved for one fold by hand; induction over data in general is beyond the
provers, and no module that is proved about declares a recursive operator.

## 5. Plan

1. Weaker hypotheses: the theorems about panels that assume a clock that is
   never set back could ask that only of the time of a hold. A run that shows
   what a stray `unlock_readonly` and a tangled `wait_for_all_tasks` lead to, as
   a violation each.
2. A proof that the tracker needs no more of the assignment than its contract is
   there; the other direction, a tracker that takes the assignment the algorithm
   computes, would join the two by their specifications.
3. The remaining classes of dlib that threads share: pipe, threaded object,
   multithreaded object and timer.
