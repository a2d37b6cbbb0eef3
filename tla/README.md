# Verification of the facial landmark app

The program is an Android app that finds the 68 landmarks of a face in a
picture. On start, `MainActivity.onCreate` copies a trained model out of the
app's assets, has a small native library load it with dlib, passes the
library the pixels of a picture and draws the points it gets back. There are
about 380 lines of own code (Kotlin and C++); dlib 19.21 is vendored, as
sources and as a prebuilt `libdlib.so` that is linked to the native library.

This directory holds TLA+ modules of that program, TLC configurations that
check them on small instances, and proofs for TLAPS that hold for every value
of their constants. Paths below are relative to `src/app/src/main/`; `D/` is
`cppLibs/dlib/include/dlib/`.

## 1. The system

| component | state it keeps | operations | hard about it |
|---|---|---|---|
| activity, `java/.../MainActivity.kt` | where `onCreate` is; what is shown | `onCreate`, on the UI thread; runs again in the same process after a rotation or a return | a process that lives on keeps the state of the native library; exceptions end the process |
| model file, `java/.../util/FileUtil.kt` | the copy of the asset in the external files directory | `copyFileFromAsset` | killed or failed in the middle; nothing is synced or closed; an existing file is taken for a whole one |
| native library, `cpp/native-lib.cpp` | globals `shapePredictor`, `_mutex` | `loadModel`, `detectLandmark` | lock and unlock by hand around calls that throw; detection takes no lock |
| image conversion, `cpp/native-lib.cpp` | byte array and image of one call | `convertBitmapPixelToNV21`, `convertNV21ToArray2d` | index arithmetic of three planes, odd sizes, signed bytes |
| shape predictor, `D/image_processing/shape_predictor.h` | initial shape, forests, anchors, deltas | `deserialize`, `operator()` | fills in a value member by member; indexes vectors without looking |
| regression trees, same file | splits and leaf values of a tree | `regression_tree::operator()` | node numbers of a heap, unsigned arithmetic |
| serialization, `D/serialize.h`, `D/matrix/matrix.h` | an input stream | `deserialize` of integers, floats, vectors, matrices | what is left behind when the stream ends early |
| read-write mutex, `D/threads/read_write_mutex_extension.h` | free locks, two flags, the locks grabbed so far | `lock`, `unlock`, `lock_readonly`, `unlock_readonly` | a writer grabs its locks bit by bit while readers give theirs back; all sleep on one signaler |
| thread pool, `D/threads/thread_pool_extension.{h,cpp}` | one task slot per worker, ids, trapped exceptions | `add_task` and its forms, `wait_for_task`, `wait_for_all_tasks`, the workers, the destructor | tasks add tasks and wait for them; exceptions cross threads; wake-ups; destruction with tasks left |
| landmark view, `java/.../ImageWithLandmark.kt` | an array of coordinates | `setLendmarks`, `onDrawForeground` | pure output |

How they interact: everything the app does itself runs on the UI thread.
`onCreate` calls `copyFileFromAsset` if the file is missing, then
`Native.loadModel` (JNI), then `Native.detectLandmark` (JNI), which converts
the picture twice and runs the predictor, and then the view. `loadModel`
returns nothing, so `onCreate` cannot tell whether it succeeded. The
components share two pieces of state across calls: the file, which outlives
the process, and the two globals of the library, which outlive the activity.

The mutex and the pool belong to dlib's threading library. The app ships them
but does not call them: `_mutex` is a `std::mutex`. They are modelled because
they are the concurrent code in this repository whose correctness is least
obvious, and they keep their state to themselves, so their modules stand alone.

What would make each component correct:

- activity: it ends up showing the right landmarks, or fails visibly; it never
  shows wrong ones and never hangs.
- model file: a partial file does not pass for a whole one.
- native library: loads exclude each other; a free lock means a usable
  predictor; a failed load can be repeated.
- image conversion: no index outside of the array; what is decoded is what was
  encoded.
- shape predictor: every level of the cascade is evaluated with vectors that
  have the elements it uses.
- trees: every walk ends at a leaf that exists.
- serialization: what a file that ends early leaves in memory can be told item
  by item; no element is used that was never made.
- read-write mutex: readers or one writer; nobody sleeps for what is free.
- thread pool: every task is run once and comes to its end; no exception is
  lost; nothing is left when the pool is gone.

The code does not live up to all of this. Section 5 lists where it does not.

## 2. The modules

| module | models | abstracts |
|---|---|---|
| `ShapePredictor` | the value of a predictor, `deserialize` and its failures, when a level of `operator()` is defined | numbers, to whether they are the asset's |
| `NativeLib` | `loadModel`, `detectLandmark`, `_mutex`, any number of threads | the picture, to whether its sides are even |
| `ModelFile` | `copyFileFromAsset`, page cache and disk | bytes, to items of `ShapePredictor` |
| `Landmarks` | abstract: what the user is promised | everything else |
| `MainActivity` | `onCreate`, the process, the user and the system; composes `NativeLib` and `ModelFile` | drawing |
| `Nv21` | the two image conversions | nothing but widths of integers that do not overflow |
| `RegressionTree` | the walk through one tree | which way a split goes |
| `ItemReader` | abstract: what `deserialize` promises, item by item | everything below an item |
| `Deserializer` | `deserialize` number by number, through vectors, trees and matrices | bytes of a number |
| `ReadersWriters` | abstract: the locks a read-write mutex may hand out | waiting |
| `ReadWriteMutex` | `read_write_mutex` with its mutex and signalers | code between two waits, to one step |
| `ThreadPool` | `thread_pool_implementation` | what a task computes |
| `Induction` | nothing of the program: induction and recursion over numbers, for the proofs | |
| `*_proofs` | theorems about the module of that name | |
| `MC*` | constants for TLC | |

### Predictor and file (`ShapePredictor`, `ModelFile`)

A model file is the sequence of items that dlib's `serialize` writes: version,
size and values of the initial shape, and then three vectors, each a count
followed by one element per cascade level. A file is abstracted to the number
of items it holds whole; it is always a prefix of the asset, since it is only
created, truncated and appended to. The last item may be cut off inside; what
a cut leaves behind is a choice (`Interrupted`), which follows from dlib:
counts, dimensions and floats are read into locals, `unpack_int` zeroes its
target before it reads, `vector::resize` comes before the elements. That these
choices are the right ones is shown by `Deserializer`, below. So a
predictor is a function from items to "unread", "torn", "damaged" and "full".
`LevelDefined` says when `operator()` has defined behaviour on a level.

`ModelFile` writes one item per round of the copy loop. `disk` is what is left
after a loss of power: the write-back may happen at any time and nothing forces
it. A stream whose file is removed goes on writing into nothing.

`Deserializer` reads the same file number by number. `File` lists its fields in
the order in which the nested `deserialize` functions ask for them, and memory
has one cell for each: `resize` makes the cells of the elements, as their
constructor does, and keeps those that are there from an earlier read; the
stream may end before or inside any field. `Predictor` reads the items off the
cells, and with it `Deserializer` implements `ItemReader`, which does what
`Deserialized` and `Interrupted` say. So the coarse view that `NativeLib` and
`MainActivity` take of a load is not an assumption but a theorem. It was wrong once: a second
file that ends inside a float, behind an integer that the first failure had
zeroed, makes an item whole again which `Interrupted` used to call damaged.

### Library (`NativeLib`)

`pc[t]` is where thread `t` is: "lock" and "open" in `loadModel`, "read" in
`deserialize`, "level" in the loop over the cascade, "fault" after a signal.
The two handlers that only log (`OpenFails`, `ReadFails`) return to "idle" and
leave `mutex` as it is, as the code does. dlib throws whenever the stream does
not open and whenever a read fails, so with `StreamErrors` a load may fail on a
file that is there and whole, before its first item or after any; without, only
on one that is missing or short. `stream` is what the load got out of the file.

A detection next to a load is a data race: `Racing` says which items are just
being written, `Undefined` what may come of it. The same operator covers a level
that indexes a vector outside of its bounds. `detectLandmark` converts the
picture before it looks at the predictor. If a side is odd the conversions leave
their array, as `Nv21` shows, and `ConvertOutside` lets the process end there or
the points be wrong. That a write outside of the array spoils nothing but this
picture, if no signal ends it, is assumed: a heap that is damaged and used later
is not modelled. The array and the image belong to one call, so the conversions
are one step with the start of the call.

`beside` is a history variable: it tells whether a load, under way or failed, held
`_mutex` at some time during the last detection of a thread. No step depends on it.

### Program (`MainActivity`)

`step` is the statement of `onCreate` that runs next. The library is
instantiated with a single thread, `UI`. Around `onCreate` there are the start
of a process, re-creation of the activity in a live process, its end at any
time it is idle or hangs, and, if `Faults` allows them, I/O errors ("io": in the
copy, in opening the model file, in reading it), kills at any time, loss of
power, removal of the file and a picture that cannot be decoded. `Pictures` says
whether the pictures have even or odd sides.

### Pictures and trees (`Nv21`, `RegressionTree`)

`Nv21` is the arithmetic of the code, index by index and byte by byte, with
`jbyte` signed and `0xff & x` as `% 256`. Reads outside of the array yield any
of the bytes in `Strays`, writes outside are lost, and the process may end
after either (`Fault`). `RegressionTree` walks down with child indices that
wrap at `Word`; `rank` and `span` record the turns taken.

### Threads (`ReadWriteMutex`, `ThreadPool`)

Both keep all their state under one mutex, which is given up only in a wait.
What runs between two waits is therefore one step, and `asleep` is who waits on
a signaler: `signal` removes one of them, `broadcast` all, and `Spurious` any,
because `pthread_cond_wait` may.

In `ReadWriteMutex`, `lock()` is `Queue` (wait for another writer),
`StartGrabbing` and `GoOnGrabbing` (take what is free, wait for the rest);
`obtained` is its local `locks_obtained`. A thread that has a readonly lock may
ask for another. In `ThreadPool`, `pc` says where a thread is in the pool.
A worker in a task may do all that a client may: add tasks, which it runs
inline if no slot is empty, and wait. `Rethrow` is `propagate_exception`; a task
may catch what it is given or end with it.

## 3. What the runs check

| run | configuration | states | shows |
|---|---|---|---|
| `native_lib` | two threads, one level, every file, stream errors, both kinds of pictures | 1 437 260 | exclusion of loads, what a free lock means, that a failed load is the last, when a detection without a lock is safe |
| `faults` | two levels, all faults, both kinds of pictures | 185 458 | what wrong landmarks and a hang presuppose; how a partial file persists; where every `onCreate` ends |
| `no_faults` | ten levels, no faults, even pictures | 142 | `MainActivity` implements `Landmarks`, liveness included |
| `nv21` | 13 sizes with two colours in every arrangement, and 2 x 2 with ten | 307 996 | the array is left exactly for odd sizes; the encoder's layout; greys survive, green does not |
| `model` | files of two levels read three times; trees of 0 to 31 splits | 48 769 | a load number by number implements the load item by item; a level called defined is; every walk ends at an existing leaf, in full trees at the one the turns spell |
| `rw_mutex` | four threads, three locks, two of them in one thread | 21 213 | the mutex implements a readers-writers lock, loses no wake-up and stands still only over a nested lock |
| `thread_pool` | two workers, a client, two tasks in each slot | 62 652 | tasks are run once and end, exceptions are kept, the destructor leaves nothing behind |
| `hang`, `initial_value`, `requirements`, `nv21_layout`, `nv21_odd` | one fault each | | violations, section 5 |

Safety of the library and the program:

- `OneLoader`, `ReadSoFar`: loads do not interfere, whichever of them fail.
- `FreeMeansWhole`: the leaked lock is, by accident, what protects the program.
  A failed load damages the predictor and keeps the lock, so no later load
  builds on the damage. The variant `ReadFailsUnlocking` is the repair one
  thinks of first, a `lock_guard`. It breaks `FreeMeansWhole` and
  `GarbageNeedsBrokenLoad`: the guard must come with a load into a fresh object
  that replaces the global only when it is complete.
- `LeakIsFinal`: after a failed load neither the lock nor the predictor changes
  until the process ends.
- `SafeAlone`: what the missing lock in `detectLandmark` costs, and what it does
  not. A detection in an even picture which no load was beside, from its start to
  its end, is not killed by a signal and computes no wrong point: a load that came
  and went meanwhile is enough for either, a thread that only waits for the lock
  is not, nor is a load that succeeded before.
- `LoadedOrLeaked`: no failure of a load is survived and forgotten.
  `GarbageNeedsBrokenLoad`, `HangNeedsShape`: wrong landmarks are traced back to a
  picture with an odd side, or to a load of this very process which got the size of
  the shape and not the whole model, because the file was cut off or a read
  failed. A hanging UI thread is traced back to such a load alone.
- `FileIsFinal`: the program never mends a model file.

The file in memory:

- `KeepsItems`: the refinement of `ItemReader`, through up to three loads into
  the same predictor, each ending anywhere.
- `CellsExist`: `deserialize` writes only to elements that `resize` has made.
- `DefinedIsUsable`: a level that `LevelDefined` accepts item by item has, number
  by number, all that `operator()` uses; a half-read tree does not get past it.

The mutex and the pool:

- `Conservation`, `FlagsTell`: locks are neither lost nor made up while a writer
  has some of them, and the flags speak for one thread.
- `KeepsPromise`: at most `MaxLocks` readers, or one writer and nobody else.
- `OneWorker`: a slot that is being processed has one worker, which is in that
  slot's task. `ExceptionsKept`: a slot with an exception is not used again.
- `NoLostWakeup`, in both: in the pool, no fewer workers look for tasks than
  tasks are ready, although `signal` wakes only one at a time.
- `NothingLeftBehind`: when workers leave, all is done.

Liveness of the program: `OnCreateEnds`, `HangAfterFailure` and
`WholeFileIsEnough` (a whole file and a free lock lead to the right landmarks,
unless the file or the process goes away, the file does not open or is not read to
its end, or the picture has an odd side), under weak fairness of `UIStep`, the steps of the UI
thread. Android runs the UI thread of a live process whenever it can run, and
nothing in `onCreate` waits for anything but `_mutex`. Nothing else is fair: the
user need not start or rotate anything, the system need not kill anything, no
fault has to happen and a write-back may be put off for good.

Liveness of the mutex and the pool: `NoStandstill` says that among waiting
threads some other one has a lock, and gives it back; it excepts only the thread
that asks for a second readonly lock while a writer grabs (`NestedWait`), which
is a deadlock the code can really come to. A single writer has no such promise:
others may pass it in the queue. `TasksEnd` and `CallsReturn` except only tasks
that wait for all tasks of their thread and so, perhaps, for themselves
(`WaitsForTaskThatWaits`): the pool goes by the thread that added a task, and a
worker is the same thread in all its tasks. `CallsReturn` is about `wait_for_task`,
`wait_for_all_tasks`, clients that wait in `add_task` for a slot, and the
destructor. A thread waits only for the task it added last: waits in a circle
over older ids, which a caller would have to pass on to another task, are outside
the model. Fairness: a thread that can run
does (weak fairness of the steps inside a call), a lock is given back (`Release`)
and a task ends. The last needs strong fairness of `Finish`, since a task that
calls the pool again and again leaves and re-enters the state in which it could
end. Nobody has to call the pool, and no spurious wake-up has to happen.

Pictures: `EvenStaysInside` and `OddGoesOutside` together say that even sizes,
and only those, stay inside of the array. `PlanarLayout` is what the encoder
really leaves (luma, a plane of U, a plane of V). `GreyStaysGrey` is why the app
finds anything at all: the disagreement about chroma does not touch greys.
`NeverGreen` is the price of the masks: chroma counts as positive.

### Bounds

- `Cascades`: levels are alike, and what matters of a file is the kind of the
  item it ends in and whether the element it ends before is the first, a middle
  or the last of its vector. Two levels have all of these except a middle
  element; the proofs cover every number. With threads one level is enough,
  because an overlap concerns one level at a time. Without faults there is
  little choice, and ten levels (as in the 68-point model) cost nothing.
- `Pictures`: what matters is whether a side is odd; `Nv21` tells what happens then.
- `Threads`: two, the least for an overlap; `OneLoader` and `Racing` are about
  pairs. The two are interchangeable, so the run uses symmetry.
- `Sizes`: up to 3 x 3, 2 x 4, 4 x 2, 2 x 5 and 6 x 2, so that all parities,
  several chroma rows and columns and planes of odd length occur.
- `Colours`: two that differ in all samples are enough to tell every byte of the
  array from its neighbours; the 2 x 2 picture has ten.
- `SplitCounts`: full trees of depth 0 to 5 and all sizes between;
  `Word` is the smallest in which 31 splits of 12 bytes fit.
- `model`: two levels, trees, pixels and numbers give each vector a first and a
  last element; a tree with one split and two leaves has every kind of field.
  Three loads: one that fails, one that fails over its remains, and one after
  that. The run either reads files or walks a tree; the two share no state.
- `rw_mutex`: four threads are a writer that grabs, one that queues, and two
  readers; three locks can be partly grabbed; two readonly locks in one thread
  are the least that nest.
- `thread_pool`: with two workers one can wait for the other and a task can find
  the slots full; two tasks (`MaxTasks`) in each slot use a slot again.
  Several clients differ from one client with tasks only in that all of them
  may wait for a slot; the proofs cover any number.
- Where a run has `CHECK_DEADLOCK FALSE`, the modelled function returns, or the pool is gone.

## 4. What is proved

All theorems are checked by TLAPS without assumptions other than the named
`ASSUME`s of the modules, which TLC evaluates on every run: a cascade has a
level, `NoThread` and `NoFile` are different from threads and lengths, there are
pictures and their sides are "even" or "odd", `StreamErrors` is a Boolean, sizes
are positive, colours and stray bytes are colours and bytes, splits fit into
memory at 12 bytes each, threads are finitely many, a mutex has a lock, a pool
has a worker and an owner, and workers are not clients.

`NativeLib_proofs` (any number of threads and levels): `Typing`,
`MutualExclusion`, `LoadsAddUp`, `Consistency`, `LeakForever`, `DetectionSafety`. The
inductive invariant is `TypeOK`, `OneLoader`, `ReadSoFar` and `FreeMeansWhole`:
that the lock is free only over a fresh or a whole predictor is needed for the
next load to start from one of these, and what a load has read so far is needed
for `Unlock` to give back a whole one. `DetectionSafety` (`SafeAlone`) rests on that
and on `AloneInv`: while a detection in an even picture has been alone so far, the
lock is free, so nobody writes to the predictor and it is fresh or the model; on a
fresh one there are no points and no levels, on the model the points are right and
every level is defined.

`MainActivity_proofs` (any number of levels, any faults and pictures): `Typing`,
`NoSilentFailure`, `GarbageTraced`, `HangTraced`, `FileNeverMended`. What is
shown depends on a failure that may lie a whole `onCreate` back, so the
invariant follows the predictor through the process: what a load starts from
(`LoadStart`), what it has read and what is still unread (`Loading`), what it
leaves (`Loaded`), that a forest never comes without a shape (`ShapeFirst`),
what a detection makes of it (`Detecting`), and what a later `onCreate` finds
(`LeakedShape`). `FileNeverMended` needs only that a copy starts where there is
no file. `KeepsPromiseSafely` is the safety half of the refinement: with
`Faults = {}` and `Pictures = {"even"}`, the initial states of `MainActivity` are those of `Landmarks` and
every step maps to a step or a stutter. Its invariant `FaultFree` says that the
file is whole except while it is copied, and that only a load under way holds
the lock; so every load reads to the end, and what is shown is right.

`Nv21_proofs` (pictures of any size): `Typing`, `IndicesInside`,
`IndicesOutside`, `Planes`, `GreysKept`, `GreenLost`. The invariant
`SamplesPlaced` gives both chroma indices in closed form from row and column;
with it `SamplesFit` bounds them, by the monotonicity of products. `PlanesSoFar`
adds the content: the s-th sample of either plane is that of the pixel
`Corner(s)`. `GreySamples` is the colour arithmetic of greys, for all 256.

`RegressionTree_proofs` (any number of splits, any word): `Typing`,
`LeafInTree`, `TurnsSpellLeaf`. A node is at most a child of the last split, so
child indices do not wrap and the leaf is in range, also in trees that are not
full. `TurnsSpellLeaf` is about full ones: by its invariant `OnPath` the node is
`span - 1 + rank` and `span` a power of two, and two powers of two that differ
do so by a factor of two at least, so the walk leaves the splits exactly when
`span` is the number of leaves.

`Deserializer_proofs` (any number of levels, trees, splits, pixels, numbers and
loads): `Invariant`, `CellsAreConstructed`, `DefinedLevelsAreUsable`,
`ReaderKeepsItems`. The proof has two halves.

- The file. Its lemmas follow the nesting of the `deserialize` functions
  upwards, from a number to `File`, joining pieces. `Nested` says that a field
  below the depth of its piece has a container ahead of it; `Segment`, that the
  fields are in item order without a gap, that an item does not end in fields
  which are not kept (`Kept`), that it has the size of a container, ahead of
  any number which a failed read may zero (`Sized`), and that only elements of
  the three vectors have such numbers (`Numeric`). `FileShape` is the result.
- The reader. The inductive invariant `IInv` has, besides types and
  `CellsExist`: in a running call all fields so far are the asset's
  (`ReadSoFar`); the fields ever read are those up to some place in the file
  (`NoGaps`); only numbers are ever zeroed (`ZeroedNumbers`); and the items
  before and behind the one in progress are as they were when it was begun
  (`OthersUnchanged`), while that one was complete then exactly if it is now
  (`ItemInProgress`). The last is what makes `Interrupted` right: a cut damages an
  item that was complete and tears one that was not, and does nothing else.
  `DefinedLevelsAreUsable` needs `NoGaps` and `ZeroedNumbers`: a forest that has
  been read implies the sizes ahead of it, and no size is ever zero.

So for every size of the model `Interrupted` allows whatever a cut may leave
behind, and what is proved of `NativeLib` and `MainActivity` does not rest on
an item-by-item idealisation of dlib.

`ReadWriteMutex_proofs` (any finite set of threads, any number of locks, any
depth of nesting): `Typing`, `LocksConserved`, `FlagsTrue`, `WakeUps`,
`Refinement`. The inductive invariant is `TypeOK`, `Conservation`, `FlagsTell`
and `NoLostWakeup` together: that a writer which has grabbed the last lock finds
no reader follows from counting, and it is the count, not a flag, that keeps
readers out. `Refinement` maps each step of the mutex to a step of
`ReadersWriters` or a stutter, and needs that invariant in the step in which a
writer obtains its last lock.

`ThreadPool_proofs` (any number of workers, clients and tasks): `Typing`,
`OneWorkerForEachTask`, `IdsAreUnique`, `NoExceptionLost`, `WakeUps`,
`AllDoneAtTheEnd`; `Invariance` is the conjunction. The argument behind `WakeUps`
is a count: workers and slots are equally many, and busy workers and slots in
process stand in a bijection (`OneWorker`), so a worker that is not busy exists
for each slot that holds a task nobody runs (`EnoughWorkers`). One that sleeps
can then be woken for a new task, or all that are not busy are looking already.

`Induction` is what these proofs need of induction. Theorems that take an operator
as a parameter cannot be used with the provers at hand, so it states induction
for sets of numbers (`Upwards`, from one number to another) and recursion for
functions (`Recursion`: a first value and a step function define a sequence), both
from the least-number principle. A predicate is then put into the form of a set,
and the existence of a recursively defined function, such as the one behind
`FlattenSeq`, follows from its step.

Every invariant and action property that a passing run checks is thus proved for
all values of the constants. Only model-checked are the liveness properties, the
liveness half of the refinement of `Landmarks` among them: fairness and `ENABLED`
are beyond the prover.

## 5. Where the code disagrees with itself

- `hang`: `loadModel` catches an exception without unlocking `_mutex`. Kill the
  app during its first copy, start it again (wrong landmarks), rotate it, and
  `loadModel`, which is to "load the specified landmark model" (`Native.kt:26`),
  never returns.
- `initial_value`: `D/serialize.h:44-45` promises that a value has its initial
  value when `deserialize` throws. A `shape_predictor` keeps what was read.
- `requirements`: `detectLandmark` uses such a predictor although
  `D/image_processing/shape_predictor.h:69` and `249-254` require vectors of
  matching sizes.
- `nv21_layout`: the comment at `native-lib.cpp:172` describes interleaved V and
  U, and the decoder expects it; the encoder writes planes.
- `nv21_odd`: the comment at `native-lib.cpp:173` and the size of the array
  assume one sample of U and V for four pixels. In odd sizes the encoder makes more:
  in a picture of 2 x 3 the plane of U runs into the plane of V, in larger ones that
  of V out of the array as well. The bitmap is scaled to the display: `man.png` (512 x 428) is 1177
  pixels high at 440 dpi.

Met while modelling, and kept as notes because no run is needed to see them:

- `D/threads/read_write_mutex_extension_abstract.h:112-113` only forbids
  `lock_readonly` to a thread that has a write lock, so one that has a readonly
  lock may ask for another. It may wait forever, for the writer that waits for its
  first lock (`NestedWait` in `NoStandstill`).
- By lines 128-131 of the same file, `unlock_readonly` has no effect if there is no
  readonly lock. The code (`read_write_mutex_extension.h:138`) looks only at
  whether locks are missing, as they are while a writer grabs, and makes up a lock
  then. The model has only calls that give back a lock of the thread.

## 6. Not modelled

- Drawing and logging; the build files; the tests, which are generated stubs.
- `bitmapToByteArray` in `MainActivity`, which nothing calls.
- Training and the variant of `operator()` that returns features: not used.
- dlib beyond the files named above, that is, some 99 % of the lines under
  `src/`: the vendored tree has about a thousand files of matrices, optimisation,
  learning, image processing, GUI and networking which this program never calls.
  A model of them would say nothing about the program. This is why the modules
  cover a large part of the app's own code and a very small part of the repository.
- Of serialization, the bytes of a number (`pack_int`, `unpack_int`, mantissa and
  exponent), types a `shape_predictor` does not have, and writing.
- A pool without threads, which runs every task in its caller.
- `pyramid_up` and the transforms between shapes: floating-point resampling and
  least squares.
- 32-bit overflow of `width * height * 3`: it needs a bitmap of 2 GB.

## 7. Plan

Done, in this order: `ShapePredictor`, `NativeLib`, `ModelFile`,
`MainActivity` with `Landmarks`, their proofs, `Nv21`, `RegressionTree`,
`ReadWriteMutex` with `ReadersWriters`, `ThreadPool`, their proofs,
`Deserializer` with `ItemReader`, `Induction` and the proofs about `Deserializer`
and about full trees.

Left:

1. `PackedInt`: the byte format of `pack_int` and `unpack_int`
   (`D/serialize.h:257-486`): what is read back is what was written, for every
   width.
2. `Region`: `detectLandmark` upsamples the picture but not the region it looks
   at, and draws the points unscaled: what part of the picture the landmarks can
   come from, in integer coordinates.
3. A corrected `loadModel`, that loads into a local predictor under a guard, and
   which of the violated properties it restores.
4. `D/pipe/pipe_kernel_1.h`, the bounded queue between threads, on the pattern of
   the pool.
