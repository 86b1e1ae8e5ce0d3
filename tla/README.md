# A TLA+ model of libopenacc and its tuner

The repository holds a runtime for OpenACC programs compiled to OpenCL
(`src/libopenacc`), programs that use it (`src/tests`), and a tuner that runs
experiments with it and stores them in a data base (`src/tuner`,
`src/libopenacc/lib/utils`).  This directory holds a model of it, the instances
TLC checks, and proofs for TLAPS.

Source paths below are relative to `src/`; `lib/` is `libopenacc/lib/`.

## 1. Inventory

### Components

| Component | Source | State | Operations |
|---|---|---|---|
| Associative containers | `lib/utils/containers/associative.c` (with `map.c`, `set.c`) | sorted array, count, allocated size | insert, lookup (binary search), remove, clear |
| Two-way map | `lib/utils/containers/bimap.c` | 42 slots, two indexes, count | insert, lookup and remove by either key |
| Memory manager | `lib/internal/mem-manager.c` | a two-way map per device: host pointer, device pointer, size | present?, device pointer of, map, unmap |
| Data environments | `lib/internal/data-env.c`, `lib/private/data-env.c` | stack of environments; per device a set of host pointers | push, pop (release all), map, unmap |
| Memory API | `lib/private/memory.c`, `lib/public/memory.c` | none of its own | create, copyin, copyout, delete, update, `present_or_*`, `*_regions_`, malloc/free |
| Command queues | `lib/private/memory.c`, `lib/private/kernel.c`, `lib/private/region.c` | one in-order OpenCL queue per device | non-blocking read, write, launch; `clFinish` at region start and stop and at the end of a data construct |
| Distribution | `lib/private/memory.c` (`acc_distributed_data`), `lib/internal/kernel.c`, `lib/private/kernel.c` | portions of devices, of loops and of arrays | part of an array, iterations of a device, offset argument |
| Loop tiling and version selection | `lib/internal/kernel.c`, `lib/opencl/libopenacc.cl`, the kernels of `tests` | best version so far, seven tiles of every loop | select a version, solve its tiles, run the work-items |
| Initialisation and shutdown | `lib/public/runtime.c`, `lib/private/init.c`, `lib/internal/init.c` | flags of the parts set up; per device context, queue, programs | `acc_init_once`, `acc_init`, `acc_shutdown`, `acc_init_region_` |
| Regions | `lib/private/region.c`, `lib/internal/region.c` | devices and launch sizes of a region, its program per device | build, start (programs, defaults, wait), stop |
| Device table | `lib/internal/opencl-init.c`, `lib/internal/runtime.c`, `lib/public/device.c` | platforms, devices, type ranges, current device | register, collect, choose type and number |
| Profiling | `lib/utils/profiling.c` | registered events, `run_id`, table of events | register, release, describe platforms |
| Tuner | `tuner/run-109.sh.in`, `tuner/acc-tuner-execute-109.c`, `lib/utils/tuning.c` | table of runs with a status field | the script marks groups of runs, the executor claims, launches and completes them |
| Data base access | `lib/utils/sqlite.c` | connections of a process: a file used directly, or a copy of it in memory | open, save, close, create a table, conditional reads, load the versions of the user's kernels |
| Generation | `tuner/acc-tuner-generate-{103,104,109}.c`, `lib/utils/tuning.c` | table `Runs` | enumerate versions, problem sizes, portions and the launches that fit |
| Analysis | `tuner/acc-tuner-process-{103,104,109}.c` | tables `Performances`, `VersionPerf`, `ParamPerf`; a batch of rows per thread | evaluate the executed runs, summarise, save |
| Others | `lib/public/async.c`, `lib/public/arch.c`, `lib/utils/{io,timer}.c`, `lib/private/debug.c`, lists in `lib/utils` | | constants, printing, unimplemented or unused functions |

### How they interact

A program opens a data construct (`acc_push_data_environment`), calls the memory
API, which asks the memory manager whether a host pointer is present, creates
buffers and records them *twice*: in the two-way map of the device and in the
set of the innermost environment.  Transfers and kernels are put into the queue
of a device and return at once.  Regions wait for the queues of their devices.
The end of a construct waits for the queue of the **current** device, walks
the sets of the innermost environment, and for each host pointer asks the map
for the buffer to release and removes the entry.

A kernel that is distributed over devices takes its array parts from portions
(in bytes) and its iterations from portions (in iterations), and subtracts an
offset (in elements) from the index; the three are computed in three places.

Script and executor of the tuner are processes that share one table.  The script
moves runs between 0 (to do) and 1 (marked); the executor from 1 to 2 (claimed)
and to 3 (done).  Each can stop between any two steps.

Generator, executor and analysis are processes of their own that meet in two
files: the versions of the kernels (with the performances the analysis adds) and
the profile (runs, devices, events).  The generator and the analysis work on
copies of both in memory, the executor on a copy of the versions; a copy is
written over the *whole* file when it is saved or closed, and nothing locks the
file in between.

Everything hangs on the first public call, which sets up the parts of the
runtime in a fixed order.  Then contexts are made and released device by device,
while buffers (in the memory manager), programs (in the table of the device) and
the open region refer to them.

### What is hard

* *Sequences of calls.*  The two-way map, the sorted containers and the stack of
  environments are exercised by the tests in one order each.
* *Duplicated state.*  Ownership of a buffer is in the environment, its address
  in the memory manager, its life with OpenCL.
* *Asynchrony.*  Host, and one queue per device, share the host arrays; order is
  kept by the queues and by three `clFinish`.
* *Arithmetic.*  Integer divisions for portions and tiles decide which work-item
  runs which iteration on which element.
* *Crashes and retries.*  The executor is expected to die on a bad
  configuration, and the script to start it again.
* *Lives of objects.*  A device can be shut down and initialised again; what was
  made in the old context must not be used in the new one.
* *Stale copies.*  What one process wrote to a file can be written over by
  another that read the file before.

What makes each component correct is stated with its properties in section 3;
every hazard is listed with its line in `PROJECT.json`.

## 2. Modules

| Module | Models | Abstract specification |
|---|---|---|
| `Associative` | associative container with its binary search | `KeyTable`: a function from keys to data |
| `BimapOps`, `Bimap` | two-way map: operators, and a client of one map | `PairTable`: a set of pairs of keys |
| `DataEnv` (uses `BimapOps`) | memory manager and data environments | `PresentTable`: nested scopes of allocations |
| `Transfers` (extends `DataEnv`) | queues, memory contents, transfers, kernels and waits | `BlockingMemory`: every call takes effect at once |
| `Distribution` | parts, iterations and offsets of devices | |
| `LoopTiling` | version selection, tiles and work-items | `ParallelLoop`: every iteration once, in any order |
| `Tuner` | script, executor and profiler of an experiment | |
| `Lifecycle` | first call, contexts, programs, regions and the current device | |
| `Database` | files, connections and their copies, tables, rows of runs | |
| `Generation` (extends `Database`) | the generators of the experiments | |
| `Analysis` (extends `Database`) | the analysis with its threads | |
| `Experiments` (extends both) | script and executor, and all programs over the same files | |
| `DeviceTable` | collection of the devices and their place in the table of types | |
| `MC*` | finite instances: named constants, symmetry | |
| `*_proofs` | theorems and their proofs | |

### State and code

`Associative`: `datas` is the array `storage` up to `count`, `size` the
allocated number of entries.  The binary search is a recursive function over the
ranges of the array (`Ranges`): `Turn` is one call of `associative_lookup_`, with its
base cases of one and two entries (`OneLeft`, `TwoLeft`); its result is relative to
the sub-range, as in the code.  The data of
an entry is a model value, keys are integers, so the comparison function is `<`.

`BimapOps` gives the operations of `bimap.c` as operators on a record
`bimap_t_` (`datas`, `key_1_map`, `key_2_map`, `count`) because the memory
manager has one such record for each device.  A slot that was never written holds `Junk`.
`CanInsert` is the conjunction of the assertions of `bimap_insert`; `Bimap` is a
client that calls only what they allow.  The two indexes of a two-way map are associative
containers themselves; here they are tables that find every key, which `Associative`
shows of up to six entries and `AssociativeSevenKeys` refutes for seven.  `Searchable` says that a map has no more,
and is a conjunct of the next-state relations of `Bimap`, `DataEnv` and `Transfers`: **nothing
in this directory is claimed of a program with seven arrays on one device**, although
the runtime allocates 42 slots.

`DataEnv`: `bimaps[d]` is the memory manager, `envs` the stack with the innermost
environment last, `buffers` the OpenCL memory objects not yet released, `halted`
tells why the program stopped (and nothing happens any more): an assertion of the code failed
(`assert`), the two-way map was `full`, OpenCL could not create a `buffer`, or it was asked to
release what is none (`release`).  One
action per call of the API; `acc_pop_data_environment` contains the loop of
`acc_clear_data_environment` with all its releases.  The per-device functions of
`private/memory.c` are modelled at their last argument, the device.  Two
specifications differ in the program that makes the calls: `Spec` is any
program with up to six arrays on a device, per environment and in all (`FewEntries`); `StructuredSpec` is what the compiler generates for data constructs:
an array of one size (`SizeAgrees`), and deletions only of what the innermost
environment mapped.

`Transfers`: `queues[d]` holds the commands put into the queue of a device and not
carried out, `memory` the contents of buffers, `host` those of arrays, `inUse` the
arrays that the program may not yet write because a transfer or kernel of them
was asked for and nothing it waited for has finished since.  A wait gives back the arrays of
the devices whose queues it finishes: those of a region at its start and stop, the current one at the
end of a construct (`Pop`), which leaves the arrays of the construct on other devices
in use.  `Execute` is the device:
it carries out the oldest command of its queue (OpenCL queues are created
in-order by `acc_init__`).  A kernel replaces the contents of its arrays
(`Compute`).  The tests write no array between copyin and the wait, which is the
guard of `HostWrite`.

`Distribution`: `original` is the split loop with its bounds and stride; `Accumulate` is the loop that
sums portions; the part of an array (`PartStart`, `PartSize`), the bounds of a
device (`Lower`, `Upper`) and `Offset` are the expressions of the three functions, in their units: bytes,
values of the index, and elements.  The values a device runs (`DeviceValues`) begin at its
own lower bound and go on with the stride of the loop; where the stride does not divide, some
kernels run the last value before the upper bound and others, whose tiles are solved from the
rounded `nbr_it`, do not, and `DeviceValues` has it.

`LoopTiling`: `acc_eval_kernel_version` is one turn of the loop of
`acc_select_kernel_version`, with the assertions of the solvers as a transition
to `abort`; `acc_build_ocl_kernel` launches; `RunWorkItem` runs a whole work-item: each
touches only its own iterations, which is what `ImplementsParallelLoop` shows, so
interleaving them turn by turn is enough.  The nest of loops of a kernel is
`LoopNest`; `Steps` is one of its `for` statements.  The kernels of the tests each have the loops
of some tiles and leave the others, which are of one iteration, out
(`tests/501/kernels.cl`, and `tests/103/kernels.cl:384` has all that share work; those of 101, 103 and
104 begin at 0 whatever the lower bound, which is 0 there).

`Tuner`: `executed` and `events` are the data base; the script is at `pc`, the executor
at `phase`.  One action per statement that reads or writes a table.  `Fail`
ends the executor wherever it is; `Interrupt` ends script and executor and starts
the script again.

`DeviceTable`: `pc` is the loop under way (`count` and `retrieve` of
`acc_collect_ocl_devices`, `platform` and `device` of `acc_init_ocl_devices`) or
how the program ended: `exit` for an unknown name, `crash` where a platform
without devices is looked into, `abort` for the assertion.  `found` is the array of
all devices, a name for each, and `base[p]` the pointer `devices[p]` into it.  `listing`, what
OpenCL would answer, has at least one platform; each query may fail.

`Lifecycle`: `check_list` is the bit field of `acc_init_once`, with one action for
each part that asserts the flag of the part before.  `devices_data[d]` is `Unset`, the
data of an initialised device (the number of its context and the version each
region was built with), or `Freed`: a pointer to freed memory.  `buffers[d][x]` is the
context a buffer was made in, and `alive` the programs OpenCL holds.  A program ends with
an `outcome`: an error that exits, a failed assertion, `foreign` (OpenCL is given an
object of another context or a version the program does not have), `undefined`
(memory is read that is not there).  Contexts are numbered, so that an object of a
former context is told from one of the present.  Nothing keeps the program from shutting
down a device that holds buffers or runs a region, from calling on a device that is not initialised, or
from changing the options of a region that is built, as nothing in the code does; the history
variable `left` remembers what it has left behind that way until it releases it.

`Database`: `disk[f]` has the tables of a file, `db[p][f]` the connection of a program with
its copy (`tables`) and what the file had when the copy was made (`loaded`).
`lost` is a history variable: the files that were written over with a copy older
than them.  `RunOffsets` and `RunField` are the layout of a row of `Runs` in memory,
`CanLoad` the assertions of `acc_sqlite_load_compiler_data`.

`acc_sqlite_read_table` counts the rows and then selects them, in two queries (`sqlite.c:344-359`);
here both see the same table.

`Generation`, `Analysis`: `gpc` and `apc` are the places in `main`; one step is one statement
that reads or writes a data base.  The combinations are made with `Product`, in the
order of the loops.  `EvaluateRun` and `InsertBatch` are the two halves of the parallel
region: each thread takes runs and keeps their rows, and behind the barrier the
critical section inserts the rows of one thread after the other.  The
problem sizes of the summaries are a constant, as the program has them in its text.
Everything is for one device (`DevicesAssumption`), since every program calls
`acc_tuning_init(1, ...)` and the generators find versions for the first device only.
Performances are whole numbers here and floats of single precision in the code, so what depends on
sums of them, the averages of the summary tables, is left out (section 6).

`Experiments`: `xpc` is script and executor, with the claim, the launch and its event, and the
completion of a run as in `Tuner`, but over the files of `Database`.  Each `End...` action
ends a process anywhere (and drops its copies); the user starts programs as he
likes, up to `MaxRunning` at once.  `test` tells the experiments 103 (and 104, which is the
same) and 109 apart.

`PROJECT.json` maps every definition to its lines.  In each module a definition
whose name has a suffix and a comment "Mutant" is a plausible mistake in the
definition it is named after; it is no part of the specification and shows that
a property notices the mistake.

## 3. What TLC checks

| Run | Question | Bounds |
|---|---|---|
| `Associative` | Are keys kept ascending and without duplicates, does the search find the largest key not above the wanted one, is the container a `KeyTable`? | six entries of seven keys, growing from one |
| `AssociativeSevenKeys` | The same with seven entries: **no** (finding) | seven entries |
| `BimapCompact` | Does a key lead to its own value, is `count` exact, do removals commute, is it a `PairTable`? For clients that leave no hole when they insert and store up to six | three keys of each kind, two slots: it fills up |
| `BimapAnyOrder` | The same for any client: **no** (finding) | three slots |
| `DataEnv` | Structured programs with up to six arrays on a device: nothing halts but a full map or a buffer that cannot be created, allocations belong to exactly one open environment, buffers are released exactly once, lookups see the innermost scope | two devices, three arrays and buffers, two sizes, depth 3, maps of two slots |
| `Transfers` | Do queued transfers look like blocking ones, and is an array the host was given back (at the end of a construct: by the current device) in no transfer still to come? | an array on each of two devices, two commands under way in all, depth 2 |
| `Distribution` | Are parts disjoint and inside the array, the values of the index disjoint and inside the loop, accesses of loops over the whole array inside the part? When is a split exact? | three devices, portions 0 to 3, 0 to 10 elements, loops with any bounds in the array and strides 1 to 3 |
| `LoopTiling` | Is the best matching version run, is every iteration executed exactly once in any interleaving? For versions that divide the loop | loops of up to 16, two strides, two lower bounds, up to three gangs, two workers, nine lists of versions |
| `Tuner` | Executed runs have exactly their event, none runs twice, decisions are final, a script that is not interrupted leaves no marks, runs to execute are decided unless it is or executors fail for ever before their first run | groups of three runs and one, two arrays, failures anywhere, one interruption |
| `DeviceTable` | Does every number of a type lead to a device of the type, whatever is listed, in whatever order, and whichever query fails? Are no devices of a sorted list forgotten? | one or two platforms of up to three devices, three models of two vendors, unknown names |
| `Lifecycle` | Is memory that is not there touched in the five known cases only, is an object used with another context only while something is left behind from before a shutdown or a change of options, are the programs OpenCL holds those of the tables? For any program | two devices of two types, a type without devices, one region of two versions, one array, two contexts per device: 1.5 million states |
| `Experiments` | Are the runs exactly the launches that fit, has every executed run its event and gets it one right row of performances, do summaries name rows that are there, is nothing lost but by writing back a stale copy, and never by a program that has the files to itself? | two versions (one static, one with dynamic tiles), one device, two threads, four starts of which two overlap, each failing anywhere: 0.8 million states |

Why these bounds are enough to be interesting: the binary search has its first
pivot in a sub-range at seven entries, so six is the largest size at which it
meets its contract; a two-way map with a hole and an insertion needs two slots
and three keys; three arrays and three levels allow an array mapped outside,
looked up in the middle and mapped again within; two devices are the least that have
different queues; portions that do not divide the number of elements, and a
device with none, are among those of `Distribution`; two groups are the least
that tell a run that is left behind from one that comes later; three devices of
two models are the least with a model in two pieces, and a second platform has
a start other than 0; two contexts of a device are the least
where an object of the one can meet the other, and two devices of two types the least
where calls on a type, on one device, on the current device and on the devices of a
region differ; four starts let a generator, an executor and an analysis run in turn and
one of them overlap or run twice, and an earlier profile with runs executed, failed and
left gives the analysis something to do from the beginning.

`CHECK_DEADLOCK FALSE` is set where a program may stop: a halted program, full
maps, a script that has no group left, a loop that is done, a table of devices that is
complete, a process that has ended.

One type invariant is among the properties of a run (`AssociativeTypeOK`, which bounds the
count by the size); those of `Bimap`, `DataEnv`, `Distribution`, `Tuner`, `DeviceTable` and
`Lifecycle` are part of the inductive invariants below.

**Fairness.**  Only `Tuner` has liveness.  `WF(Script)` and `WF(Executor)`: a shell
script and a process go on unless they are stopped (`Fail` and `Interrupt` have no
fairness).  There is no strong fairness: that an executor started over and over does not
fail *every* time before it claims its first run is nothing the code ensures (a data base it
cannot read makes it fail every time, `acc-tuner-execute-109.c:144`, and the script starts it
again, `run-109.sh.in:67`).  `RunsToExecuteAreDecided` therefore has that case as an alternative of its
own (`FailsBeforeItsFirstRun` happens again and again), beside an interruption, and says that
there is no other: no order of marks, claims, failures and starts leaves a run undecided.
After a claim a failure leaves the run at 2, which counts as decided.

## 4. What is proved

For all values of the constants, from the assumptions named in the modules:

* `Operators_proofs`: lemmas about operators without a state, cited by the modules
  below.  Induction over numbers is an argument about sets here (a set of numbers has
  a least element), and from it come the existence of a recursively defined function,
  what `FlattenSeq` puts together, and what each operation of the two-way map does to
  the set of pairs stored, from `SlotsAgree` (live indexes lead to a written slot that
  leads back).
* `Containers_proofs`, the two-way map: `KeysAlwaysLeadToTheirValue`, `CountIsExact` and
  `BimapImplementsPairTable`, for a client that stores up to six datas at a time and leaves no hole when it
  inserts, whatever the number of slots.  The invariant adds to the properties that the slots below `count` are the
  live ones whenever an insertion is allowed.  `RemovalsAlwaysCommute`: the loop that clears a
  data environment is one step of `DataEnv`, in whatever order it removes the arrays; by induction
  over the loop, a removal more (`OneMoreRemoved`) adds its key to the set of keys removed.
* `Containers_proofs`, the sorted array: it is never written past its end
  (`ArrayNeverOverflows`), for any number of entries; for this it is enough that the search
  returns *some* index (`LookupRange`).  Up to six entries, the hypothesis `MaxCount <= 6`
  of the other three theorems, the keys stay in strict order, the search meets its
  contract, and the container implements `KeyTable`.  Six is the limit
  because the index the code returns at a pivot is relative to the range: `HalvesInPlace` shows
  that up to six entries the second half has at most two and so no pivot.  From seven on the run
  `AssociativeSevenKeys` refutes what is proved here.
* `Memory_proofs`, data environments: type correctness, `NoSpuriousHalt`, `EnvironmentsHoldAllocations`,
  `OneOwner`, `NoBufferLeak` of `StructuredSpec`, for up to six arrays at a time on a device (`FewEntries`)
  and any number of devices.  None of them is inductive.  `EnvInv`
  joins them with: the maps are sound (`MapsAreSound`), live slots were
  written (`SlotsAreWritten`), every allocation has exactly one owner
  (`OwnersAreExact`), older environments own older slots (`OldestFirst`: this is why a
  pop leaves no hole, and why structured programs never meet the defect of
  the map), and no buffer is mapped on two devices (`BuffersAreExclusive`).
  `DataEnvImplementsPresentTable` is the refinement: for each
  call the step of `PresentTable` it maps to.
* `Memory_proofs`, transfers: `HostOwnsItsMemory` of `TransfersSpec`, for any devices, distribution and length
  of queues.  `QueuesInv` adds that a queue holds commands of arrays of its device only, which
  is why a wait for a device gives back its arrays and no others.
* `Memory_proofs`, `TransfersImplementBlockingMemory`: seen at the end of all queues, every transfer and
  kernel takes effect when it is asked for.  `AtTheEnd` carries out a queue command by
  command; the lemmas say that a command appended is carried out last (`PerformAppended`),
  the oldest first (`PerformFirst`, the step of `Execute`), and that commands on other
  buffers or arrays commute with it (`OtherBuffer`, `OtherArray`).  `TransfersInv` joins
  `EnvInv`, `QueuesInv` and `BuffersApart`: two buffers that are mapped or in a queued command are the same
  only for one device and array, so that a new buffer is in no command still queued, and what
  one queue does is not seen by another.
* `Kernel_proofs`, distribution: parts of arrays and values of the index are disjoint and within bounds, for
  any bounds and stride of the loop, and accesses of a loop over the whole array stay in the
  part, for any number of devices, portions and sizes, from
  `SumInv` (the portions summed so far) and lemmas on integer division.  Even splits, of
  the array by the sum of portions, of the loop by that times the stride, are
  exact (`EvenSplitsAreAlwaysExact`) by a second invariant, `Covered`: every number below
  the sum is in the range of one device.
* `Kernel_proofs`, tiling: the version chosen has the best score of those that match
  (`BestVersionIsAlwaysRun`, of any program), and for versions that divide the loop
  (`EvenSpec`) a matching version is found, every iteration is executed exactly once and
  the work-items implement `ParallelLoop` in any order.  Seven nested tiles are seven
  nested divisions of the loop into blocks: the lemmas on `BlocksCover`, `BlocksFit` and
  `BlocksAreDisjoint` say what one division does, `TilesAreNested` that the solved tiles are such
  divisions, and `WorkIsShared` that each iteration has one path through them, that is
  one work-item and one turn of its loops.  `ExecutedInv` says that what was executed is what
  the work-items that ran had to do.
* `Tuner_proofs`: `TunerInv` gives type correctness, `ExecutedRunsAreProfiled` and
  `NoRunIsProfiledTwice`: it says where the events of the run under way are
  (registered or in the table) and that marked runs have left none.  The step
  property `DecisionsAreFinal` follows from it, as a claim is of a marked run.
  `NoMarkIsLeft` needs in addition that, without an interruption, every marked run
  is of the group the script is at and the script still has to come to the unmarking
  (`MarksInv`).
* `Lifecycle_proofs`: `NoWildAccess`, `NoForeignObject` and `ProgramsAreOwned` for any
  table of devices, regions, versions and arrays and any number of contexts.
  `LifecycleInv` adds: pointers to freed data belong to devices whose context failed
  (`FreedHaveFailed`), a region that was started has its programs on each of its devices
  until it is stopped, but for those shut down meanwhile (`StartedIsBuilt`), buffers are of the present context of their device
  (`BuffersAreOfTheContext`) but for those in `left`, a program was
  built with the options the region still has (`ProgramsAreOfTheVersion`) but for those in `left`, and `alive` has
  exactly the programs of the tables (`AliveIsKnown`).
* `DeviceTable_proofs`: a number of a type leads to a device of that type, and the
  assertion at the end of a platform never fails, for any types, platforms and
  lists of devices.  `TableInv` says where the pieces of platforms are
  (`BasesInv`), that ranges registered hold only devices of their model
  (`ModelsInv`) or vendor (`VendorsInv`, but for those of the platform under way not
  looked at yet), that the piece under way is of one model (`PieceInv`), and that the sum is
  the length of the array unless a platform has no devices (`SumInv`), in which case
  the mapping does not end (`PlatformsInv`).  `ExactInv` adds, for lists that are sorted,
  that nothing behind the piece under way was registered before, from which
  `TypeCheckIsAlwaysExact` follows: no device is forgotten.
* `Experiments_proofs`: `AloneNothingIsEverLost`, from `AloneInv`: as long as no program was started
  beside another, the copies of the one that runs are of the files as they are.
  `OnlyStaleCopiesEverLose` and `ExecutedRunsAlwaysHaveEvents`, from `ExperimentInv`, which says
  what every table a program can put over a file has in common with the file: unless the file was
  overwritten, its copy at loading is what the file kept (`Keeps` is transitive, which is what
  makes it an invariant), runs are numbered by their place, and the event of a run
  is in the table before the run is at 3.

* `Experiments_proofs`, the numbers of the analysis: `SummariesAlwaysReferToPerformances` and
  `EveryExecutedRunIsEvaluatedOnce`, from `NumbersInv`, which stands beside `ExperimentInv`.
  `TablesCorrect` says of every file and every copy that runs can be measured
  (`Measurable`: as many numbers as the test has, their work below what the analysis takes
  for impossible), that events take time, that performances are below that bound, and that summaries refer
  to performances; each program only makes tables that are so from such
  tables (`AddsCorrect`), so no order of saves, crashes and old copies can do harm.  The lemmas on
  `perf_callback` follow the fold over the rows (`SummaryOf`: what was found lowest and highest is
  of a row seen).  `FieldsAreRead` is about the offsets of the fields of a row.
  `AnalysisInv` is about the threads: the executed runs that were taken and the rows that are
  held, by a thread or in the table behind those that were there when it was loaded, correspond one to one
  (`Placed`); a thread that takes a run adds one pair, one that inserts moves
  its rows behind those in the table (`MovedPlaced`), and when no thread holds any, all are in the table
  (`AllPlaced`).

* `Experiments_proofs`, the runs themselves: `RunsAreAlwaysTheFittingLaunches`, from `EvenInv`,
  which stands beside `ExperimentInv` too.  A generator adds the runs to its own copy, one
  combination of version, problem size and portions after the other, and fails anywhere; so the
  invariant must count what is still to come.  `Balanced` says of a table and of a list of combinations that of each
  launch that fits as many runs are in the table as combinations of the list will make, together the same number for
  every launch.  `EvenFiles` says so of every file with nothing to come, and of every copy, where
  for the generator's the list is `combos` (`Rest`); so a copy that is saved before it is
  complete would break it, one that is thrown away does not.  Each step of a combination moves one from the list
  into the table (`HeadComes`, `JoinedMade`, `OneRunEach`: a combination makes each launch that
  fits exactly once), and the list a generator begins with has each launch as often
  (`EachIsComing`).  This rests on what the nested loops of the generator enumerate, for any lists:
  `ProductFacts` and `ProductHas` (every combination and no other, each once if the lists have no
  element twice), and on `LaunchFitsIs`: the code's test of a launch against the tiles of a loop is the
  definition in `Fits`, where the rows of loops are in the order of their `loop_id`
  (`LoopsAreInOrder`, from `LoopOrderAssumption`: the code takes the number of the row).  `SameVersions`: no
  program changes the versions and loops in a file or copy.  `OneDevice` is `DevicesAssumption`.

The theorems on `Experiments` need of the constants that an event takes time
(`DurationsAssumption`), that no problem of the generator or of the profile from before does
more in a unit of time than `TooFast` (`TooFastAssumption`: the code starts its minimum at
1000000000 and would else name the run -1), that the code generator makes tables of
versions and of loops, whose tiles are unsigned, and none of performances (`VersionsAssumption`), that the rows of loops come in the order of their
`loop_id` (`LoopOrderAssumption`), that there is one device (`DevicesAssumption`),
that the portions of a profile from before add up (`EarlierAssumption`), and that exponents
differ and are in the table of 36 powers the generator has (`ExpsAssumption`,
`MaxAllocAssumption`; `acc-tuner-generate-103.c:81`: it counts them up from the first to the last, and does not
look whether they are in the table).

Only model-checked: liveness (`RunsToExecuteAreDecided`), which the prover cannot do.  Every
invariant and every action property the passing runs check is a theorem.

## 5. Findings and hypotheses

Two runs end in a counterexample; `PROJECT.json` quotes the line each contradicts.

* The search of the associative container returns an index relative to a sub-range
  (`associative.c:80`), which shows from seven entries on.
* The two-way map writes to slot number `count` although removals leave holes
  below it (`bimap.c:39`, `94`).  The current runtime meets it when `acc_unmap_data`
  or `acc_delete` is used out of order.

The other runs state hypotheses, and each is needed.  What happens without it was
seen by weakening the configuration (a line of the `.cfg` is enough):

* `FewEntries` in `Bimap`, `DataEnv` and `Transfers`: from seven arrays on a device on, the searches of the key maps
  and of the sets of an environment miss keys that are there (`associative.c:80`), so an array that
  is mapped is mapped again, a removal meets a NULL index or an allocation is never released.
* `SizeAgrees` in `StructuredSpec`, `NoSpuriousHalt`: asking for a mapped array with another size is answered with
  not present, a buffer is created and the assertion of the map stops the program (`private/memory.c:156`).
* `StructuredSpec` to `Spec`, property `EnvironmentsHoldAllocations`: `acc_unmap_data_`
  in a nested environment leaves its parent with a host pointer that has no
  allocation (`internal/data-env.c:56`), and the pop releases a NULL buffer.
* `original.lower = 0 /\ original.upper = n` in `AccessesStayInPart`: the offset is a share of the array, the bounds a share of
  the loop; with ten elements, a loop over 5 to 10 and portions 1 and 1 the first device runs 5 and 6 and
  its part ends at 5.
* `EvenSplitsAreExact` to its parts: `EveryIterationIsRun`, since first and last
  iteration are rounded separately (`internal/kernel.c:100`), and the share is one of values and not of
  iterations: ten elements, stride 2 and portions 1 and 1 make the second device run 5, 7 and 9 (`104`); `OffsetsMatchParts`, elements against
  bytes (`private/kernel.c:157`); `LaunchesFindTheirData`, a device with an empty part is launched
  (`private/kernel.c:118`).  With portions 9 and 7 (test 501) 16 elements are
  the smallest size at which all hold.
* `ForLaunch` in `EvenSpec`: the gangs and workers a version fixes are those of the launch.  Nothing in
  the code checks it, and iterations are left out or done twice where they differ.
* `EvenSpec` to `Spec` in `LoopTiling`, `EveryIterationOnce`: nothing guards the bounds of
  tiles that do not divide the loop (`internal/kernel.c:204`); `MatchingVersionIsFound`: a
  static version that does not fit stops the search by an assertion (`183`).  A
  version whose innermost tile is dynamic is never usable: its length goes to tile 2 (`232`).
* `Sorted` in `TypeCheckIsExact` of `DeviceTable`: a model whose devices are listed in two
  pieces keeps the last only, as does a vendor with two platforms (`opencl-init.c:272`); the
  others are found under no number of the type.
* `Pop` in `Transfers`: the end of a data construct waits for the current device only (`private/data-env.c:26`).  The
  tests 501 and 509 stop their region, copy out from both devices and end the construct
  (`tests/501/kernel-libopenacc.c:69`), then stop the clock and free the array (`tests/501/init.c:58`): the
  transfer of the device that is not current may not have ended.  `Pop_all` is the model of what they suppose, and breaks `HostOwnsItsMemory`.
* `NoMarkIsLeft` without `interrupts = 0` in `Tuner`: runs that were marked when the script was
  interrupted are at 1 for ever, since the script selects those at 0 (`run-109.sh.in:57`).
* The cases of `NoWildAccess` in `Lifecycle`: no platform (`opencl-init.c:74`), a context that
  fails and leaves its freed data published (`public/runtime.c:58`), and the defaults of a region
  without a list of devices (`internal/region.c:35`), which also reads the address of an array
  as a number of gangs; a call on a current device without data (`private/memory.c:98`, `338`, `361`,
  `private/data-env.c:25`), and a device of the running region that was shut down (`private/region.c:67`).
* The cases of `NoForeignObject` in `Lifecycle`: buffers stay in the memory manager over a shutdown
  (`public/runtime.c:133`) and are of the former context after the next `acc_init`; the program of a region is
  gone when its device was shut down and initialised again before a launch; a
  program is not built again for other options (`internal/region.c:81`).
* `overlapped` in `AloneNothingIsLost` of `Experiments`: an executor or a generator writes its copy of
  the versions back although it has only read it, and wipes the performances an analysis saved
  meanwhile; an analysis writes back the profile, and marks and events made meanwhile are gone, so
  that a run can be claimed again.
* `FailsBeforeItsFirstRun` in `RunsToExecuteAreDecided` of `Tuner`: an executor that always fails before its first
  run is started for ever (`run-109.sh.in:67`).

Met while modelling, and modelled as the code has it unless said otherwise:

* Running the generator twice doubles all runs, running the analysis twice all rows of
  performances; rows of devices are added at every start.  The generator of 109 makes no runs.
  `RunsAreTheFittingLaunches` therefore says that each launch is there *equally often*.
* `acc_tuner_is_valid_gwv_combinaison` asks for the length of the loop in row `i` of the table (`tuning.c:193`), and not
  of the one with its `loop_id`; the rows are selected without an order (`sqlite.c:492`).  `LaunchFits` has it so,
  `Fits` in `RunsAreTheFittingLaunches` goes by the `loop_id`; they agree under `LoopOrderAssumption`.
* Code for several devices that no program reaches: all would get the launch of the first ones of the list
  (`tuning.c:410`), and the fields of a row of `Runs` in memory begin again at 0 behind the row identifier
  (`sqlite.c:653`).
* The generator numbers versions by the row they are in and not by `version_id`
  (`acc-tuner-generate-103.c:74`); no filter of versions is given (`151`).
* A best performance that is written as 0 leaves the run identifier -1 (`best` in
  `SummariesReferToPerformances`).  Only versions below 2090 are summarised, and only the problem sizes
  in the text of the program.
* The status of a save is not looked at: `acc_sqlite_save` may do nothing.
* The executors hand descriptors to `acc_build_region` and `acc_build_kernel`, which take
  identifiers (`acc-tuner-execute-103.c:122`, `128`); modelled as meant.  A condition on a
  `version_id` has room for three digits (`tuning.c:380`, `sqlite.c:478`); identifiers in the
  model are small.

## 6. Not modelled

* `acc_copyin_regions_` on distributed arrays, which computes the part of each device and then copies
  the whole array (`private/memory.c:152`), and arrays in mode `e_all`, which several
  devices copy out to one address (`54`): the contents of parts of arrays are not in
  `Transfers`.  Mode `e_chunk` has no code.
* Several loops of one kernel, and the arguments of a kernel.
* Programs with seven or more arrays on one device (see `FewEntries` above).
* The averages in the summary tables: sums of floats of single precision
  (`acc-tuner-process-103.c:40`, `51`, `91`), which may be below the lowest of what is summed.  The
  performance of a run of 109 with several events is an average too; it is a whole number here, and
  nothing is claimed of it (`IsPerformanceOf`) unless there is one event.
* SQLite itself (external: a statement is atomic and durable), the text of statements, and the
  description of platforms and devices in the profile beyond its number of rows.
* The profiles of events: a query that comes too early is an error that ends the process, one of
  the failures that can happen anywhere.
* Asynchronous API: every function is an assertion that it is not implemented.
* `linked_list.c`, `node.c`, `sorted_list.c`, `free_memory_manager`,
  `acc_get_device_type_by_device_idx`, `acc_sqlite_reload` and `acc_sqlite_print_table`: no callers.
  The table per version and problem size of the analysis is commented out.
* Printing, reading of files, the timer, constant tables of architectures.

## 7. Plan

Done in the order of their weight: `BimapOps`, `Bimap`, `DataEnv`, `Transfers`,
`Distribution`, `LoopTiling`, `Tuner`, `Associative`, `DeviceTable`, then `Lifecycle` and the programs
of an experiment (`Database`, `Generation`, `Analysis`, `Experiments`).  What could follow:

1. Composition of `Distribution` and `Transfers`: a distributed array through copyin,
   kernels and copyout equals the array computed at once.
2. `Tuner` as an abstraction of the executor in `Experiments`, by a refinement mapping from the
   tables of the profile.
