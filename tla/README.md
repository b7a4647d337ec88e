# A TLA+ model of MicroBenchmarkHarness

MicroBenchmarkHarness is a C++ singleton (`MicroBenchmarkHarness.hpp`) with
which a micro benchmark parses its command line, starts its threads together,
calls a *function under test* (FUT) for a while or a number of times, and
prints how long that took. The repository holds the harness, its barrier, its
random numbers and atomic operations, and seven benchmarks. These modules
model the harness and the functions under test. TLC checks them on small
instances; TLAPS proves all of their safety properties but one, and that the
barrier and the run implement their abstract specifications, for any number of
threads, calls, files and arguments. Section 4 says what is left to TLC.

Names follow the source, without the leading underscore of the members.

## 1. Inventory

| part | source | state | operations |
|---|---|---|---|
| barrier | `HarnessBarrier.hpp` | `_joined`, `_lock`, `_cond` | `Join` |
| run | `MicroBenchmarkHarness.hpp`, `go` and `main` of the programs | start and stop time, `_finished`, `_timingIsSuspended`, the disposition of SIGALRM, the alarm clock, `_operationsCompleted`, the threads | `Init`, `StartTiming`, `SuspendTiming`, `StopTiming`, `StopSignal`, `StartThread`, `WaitForThreads`, `RunOps`, `GenericThread`, `isDone`, `CompletedOperations`, `PrintResults` |
| command line | `MicroBenchmarkHarness.hpp:55-127` | the option members, `leftOvers` | the loop of `Init`, its checks |
| random numbers | `FastRand.hpp` | a seed per thread | `RandLFSR` |
| atomic operations | `AtomicOps.hpp` | none | `atomic_exchange_and_add`, ... |
| swaps | `time_GSPS.cpp` | one array, or one per thread | `op` |
| file transfer | `file_rd.cpp`, `file_wr.cpp` | a file and a descriptor per thread | `read_forward`, `read_backward`, `write_forward` |
| file operations | `file_ops.cpp`, `fileOps_test.sh` | a directory per thread | `fcreate`, `fcreate_write`, `frename` |
| DAX accesses | `dax_load.cpp`, `dax_store.cpp` | a mapped heap, an index per thread; which lines of the heap are durable | random and sequential loads and stores, copies, fences, flushes |
| scripts, Makefile | `*.sh`, `Makefile` | none | start the programs |

How they interact. `main` calls `Init`, which starts the timing and sets the
alarm. A client of the first kind (`time_random.cpp`) then calls `RunOps`; a
client of the second kind (all the others) suspends the timing, prepares its
data, and starts threads that do what `GenericThread` does. `time_GSPS.cpp:117`
recommends a third kind, whose threads report each call as soon as it has
returned. The threads meet
in a start barrier; thread 0 starts the timing again and sets a new alarm;
they meet in a run barrier; each calls the FUT until `isDone` says so or until
its share of `-max` is used up, adds its count to the shared total with one
atomic instruction, and meets the others in a last barrier. The alarm's
handler runs on any thread, at any moment. `main` joins the threads and prints.

What is hard about it: the barrier is used again while threads still leave it;
its condition wait is not in a loop; two alarms can be on their way at once,
and the handler is good for one; the handler, thread 0 and `main` all write
the stop time; the threads learn of the end one by one; and the counts go
through divisions, casts and variables of different widths; a thread that could
not be created is missed by all the others. The functions under test have
hazards of their own: unlocked swaps, descriptors and offsets that outlive a
call, leaks on error paths, bytes taken for blocks, stores that are not durable
when the power fails. PROJECT.json
lists them at their lines, each with the properties that watch it.

What makes each part correct:

* barrier: rounds do not mix, nobody is stranded;
* run: nobody runs early or leaves early, a run lasts until its limit and is not
  killed by its own alarm, every call is counted once, the measured window holds the calls, the run ends; all
  in all it does what `BenchmarkRun` says in a few lines;
* command line: the client gets its own arguments, the limits are those that
  were asked for;
* random numbers: full period, never zero by itself;
* FUTs: what a call touches, what it leaves behind, what it never reaches or
  destroys, what a crash can take from it.

## 2. Modules

| module | models | instances |
|---|---|---|
| `CyclicBarrier` | what a barrier promises, whatever it is built from | - |
| `HarnessBarrier` | the object and the steps of `Join` | instantiated once by `BarrierRounds`, three times by `Harness` |
| `BarrierRounds` | one barrier used round after round; implements `CyclicBarrier` | `MCBarrierRounds` |
| `BarrierRoundsProofs` | proofs about it | - |
| `Harness` | a benchmark run: main, threads, barriers, clock, alarm, signals | `MCHarness` |
| `BenchmarkRun` | what a run promises a benchmark, without barriers, clocks and signals; `Harness` implements it | - |
| `HarnessAudit` | `Harness` with an account of the real calls and of the set-up's real time in history variables | `MCHarnessAudit` |
| `HarnessProofs` | proofs about `Harness`, `HarnessAudit` and the refinement of `BenchmarkRun` | - |
| `InitOptions`, `InitOptionsProofs` | the command line, proofs | itself |
| `FastRand`, `FastRandProofs` | the shift register, proofs | `MCFastRand` |
| `Gsps`, `GspsProofs` | the swaps, proofs | itself |
| `FileTransfer`, `FileTransferProofs` | reading and writing through a descriptor, proofs | itself |
| `FileOps`, `FileOpsProofs` | creating and renaming, program after program; proofs | itself |
| `DaxBlocks` | which bytes the DAX programs access | `MCDaxBlocks` |
| `DaxStore` | the stores on their way to the medium, in each store mode; extends and implements `DaxBlocks` | `MCDaxStore` |
| `DaxProofs` | proofs about both | - |

An operator called `Action_Mistake` is a definition as a plausible bug would
have it. No specification uses it; it documents what the properties can tell
apart, and "mutants" in PROJECT.json says which property notices which mistake.

### Barrier

The Makefile always defines `NO_BARRIERS`, so the barrier is the one made of a
mutex, a counter and a condition variable. `at[t]` is where thread `t` is in
`Join`: `out`, `count` (has the mutex), `test`, `wait` (on the condition),
`relock` (woken, without the mutex), `unlock`. Testing and waiting, or testing
and broadcasting, are one action: the mutex is held, and nothing else looks at
the object. The construction of the barrier with the number of threads is
folded into `Init`, because every user does it before the first thread exists.
The counter is a C `int` that never exceeds the number of threads.

`SpuriousWakeups` says whether `pthread_cond_wait` may return by itself, which
POSIX allows. The code waits without a loop, so the two settings are two
different barriers; both are checked. (`Harness` has them as two next-state
relations, `Next` and `LeakyNext`, and `HarnessAudit` uses the latter.) With
spurious wakeups only the mutex and the count modulo the number of threads are
left of the barrier.

### Harness

`client` is the kind of client, one of `Clients`: `RunOps` (`time_random.cpp`),
`go` (the other programs), `goCounting` (the loop of `time_GSPS.cpp:117`).
`OwnThreads` says that it is not the first, `CountsEachCall` that it is the
last. `mainPc` and `pc[t]` are program counters; `timing` is the one inside
`StartTiming`, which is executed statement by statement because the handler can
run between two of them. Its two callers (main in `Init`, thread 0 between the
barriers) never overlap. `StopSignal` is one action: its three statements are
read by others only through `_finished` and `_stopTime`, and the only reader of
both is far behind a barrier.

An alarm expires no sooner than its time (`AlarmExpires`) and its signal is
delivered some time later (`StopSignal`, or `KilledByAlarm` if the disposition
is the default one), so that a stale signal can meet a new alarm. `GracefulExit`
may happen at any moment. The clock counts from 1, and a time of 0 means unset,
as in the code. `now` is bounded: up to `MaxSetup` ticks pass before thread 0
has started the timing, up to `MaxRun` more in all. A timed run is bounded by
its alarm; the number of calls in it is not bounded but wraps at
`CounterModulus`, which stands for 2^32 (`GenericThread`) or 2^64 (`go`).

`isDone` compares a cast of the total with the limit. The total is
`operationsCompleted`, modulo `TotalModulus` (2^64), and the cast is modulo
`CastModulus` (2^32). Clients of the first two kinds look at it only while it is
0, or not at all when the share of a thread is positive; the third kind looks
at it before each call. A thread keeps its share in 32 bits (`unsigned int
threadOps`, 280), `_operationsPerThread` has 64: `operationsPerThread` is the
share after that. It matters for a negative `-max` only, which is a number near
2^64. A negative `-rt` stays negative, sets no alarm that could end a run, and
may stand beside a `-max`. It is cast to `unsigned int` where the alarm is set,
which is undefined for a negative `double`; `SetAlarm` takes the clock away, as
for 0. (With the usual compilers the cast gives a number near 2^32: an alarm in
136 years.)

`StartThread` puts the thread at the start barrier, or at `missing`:
`pthread_create` may fail, and its result is not looked at. The other threads
then wait in the start barrier for ever. `main` joins a handle that was never
written, which is undefined: `JoinMissingThread` crashes, `WaitForThreads`
goes on.

`WaitForThreads` waits for all threads in one step: joining them one after
another lets `main` go on at the same moment. Simplifications: one run per
process, `-hang` is not set.

`BenchmarkRun` is what remains when barriers, clocks and signals are taken
away: threads come, the timing starts when all are there, they are measured,
report, go home together, and the sum of what they have reported is printed.
Each call adds one to what a thread has yet to report, in the width of its
counter; each report moves that to the total, in the width of the total.
`Promise` maps the program counters to `place`, and the calls a thread has
counted and not yet added to `_operationsCompleted` (`NotReported`) to
`unreported`; that thread 0 has left `StartTiming` is its `started`.
The moment at which the total is read must be after the last report and the
moment of the first call after the start, so that nearly every action of
`Harness` would break the refinement if it came out of order.

`HarnessAudit` counts, in variables no step reads: the calls of each thread,
those that returned after `_finished`, the first call and the last return,
whether a wait has returned early, and the clock ticks of the set-up (`setup`),
from the alarm `Init` sets to the one thread 0 sets. The calls that have returned are a set
(`CallsReturned`), so that "every call is counted once" compares the printed
total with a cardinality.

### Command line

Words stand for arguments. `argv[++i]` takes the next word whatever it says; at
the end of the line it reads the null pointer, which is a crash, and so is the
division by a thread count of zero. Numbers may be negative, as for `atoi`; what
goes into `_operationCount` is taken modulo `ULongModulus` (2^64), into
`_threadCount` modulo `UIntModulus` (2^32), and `_runTimeSeconds` keeps its sign,
so that `-rt -1 -max 5` passes the check at 113. Which words are values is said without the
loop: a word is one if the options before it (`OptionsBetween`) are odd in
number (`IsValue`). The properties compare the loop with that: the client's
arguments are those that are no values and no options, and each limit is the
last value of its option.

### Functions under test

`FastRand` represents a seed as the set of its one bits. `Gsps` makes each load
and each store of `op` a step; the arrays' undefined contents are distinct
values, and any two indices can come up. `FileTransfer` has one thread: each
has a file and a descriptor of its own. `chunk` is `readSize` and `writeSize`;
the kernel cuts reads at the end of the file and writes at the capacity of the
device. `FileOps` makes each system call a step, counts descriptors and room on
the device, and lets the next program start at any moment, which also stands
for ^C; one thread's directory is never touched by another. `before[t]` is
history, and so are `created`, the numbers with which a file was ever created,
and `newest`, which follows the files themselves: it holds the names of those
that were created last with their number, moves with a rename, and loses the
name whose file a rename replaces.

`DaxBlocks` has the block index and the blocks of a thread's last two accesses;
the harness around it is left out, so that any thread may make the next call.
The asserts of the programs, and block sizes that do not divide by zero, are
its assumption. A `job` says which program runs, on what heap and in which
modes.

`DaxStore` adds what happens to a store. A call is at `copy` (`memcpyPtr`), then
at `flush` or `fence` (`barrierPtr`), then `out`; `left[t]` are the cache lines
it has still to do there. `fast_memcpy` puts line after line into a cache
(`unsaved`), which may write any line back at any time (`WriteBack`);
`pmem_memcpy_nodrain` posts them in an order of its own (`posted`), to arrive at
any time. `pmem_persist` writes the lines of its block back, whoever has stored
to them, and fences; `sfence` waits until the posted lines of its own thread have
arrived. These four, the caches and the kernel's page cache are external: they
are modelled from what the manuals of libpmem and of the processor promise. All
threads store copies of one buffer each, so `unsaved[l]` names the thread
rather than the contents. If `isPMEM` is false, what is flushed or has arrived
is in the page cache only. The first store of a thread may be outside the heap
(see below): it may hit nothing (`SegmentationFault`) or something else
(`StrayStore`). A power failure needs no action: what it would take is
what is in `unsaved` and `posted` at that moment.

## 3. Runs

| run | bounds | shows |
|---|---|---|
| `barrier` | 5 threads, 3 rounds, fair | `IInv`, `RoundSafety`, `NobodyStranded`, `NeverTwoAhead`, no deadlock; `Refinement`, `FairRefinement` |
| `barrier_spurious` | 3 threads, 3 rounds, spurious wakeups | `LockInv`, `CounterCountsCalls` |
| `harness` | 3 kinds of client, 3 threads, each of which may fail to be created; a set-up of 1 tick; a timed run of 2, a run without limit, no calls, 4 calls; fair | `NobodyRunsEarly`, `NobodyLeavesEarly`, `Termination`, `DoneIsForever`, `KeepsItsPromise` |
| `audit` | 3 kinds of client, 2 threads, up to 2 calls each; a set-up of 0 or 1 ticks; `-rt 1`, `-rt 1 -max 0`, `-max 0`, `-rt -1 -max 3`, `-max -1`; spurious wakeups | `ReportCountsEveryCall`, `OverrunAtMostOneCall`, `WindowCoversCalls`, `CountedRunIsNearlyExact`, `KilledOnlyAfterLongSetup`, `RunLastsUntilItsLimit` |
| `init_options` | all command lines of up to 5 arguments, the numbers -1, 0 and 1 among them | `ClientGetsItsArguments`, `LimitsAreThoseAskedFor`, `CrashesOnlyWithoutValue` |
| `gsps` | 2 threads, 2 swaps each, 0 to 3 elements | `SwapsPermute`, `RacesLoseFewElements` |
| `file_ops` | 2 threads, 1 or 2 files each, 4 programs, 2 calls | `LeaksOnFullDeviceOnly`, `NewestFilesSurvive`, `RenameMovesThoseBeforeAGap` |
| `file_transfer` | lengths 0 to 7, blocks 1 to 8, 3 calls | `ForwardReadsOnce`, `BackwardSkipsFirstChunk`, `WritesAreAppended` |
| `dax` | 2 threads; loads of 1, 2, 3 and 5 lines from a heap of 12; stores of 1, 2 and 3 lines to heaps of 2 to 6 in all modes; 2 posted lines per thread (`MaxPosted`) | `LoadsStayMapped`, `LaterStoresStayMapped`, `CrashLosesOnlyCallsInFlight` |
| `random8` | 8 bits from every seed | `FullPeriod`, `NeverZeroAgain` |

Why the bounds are enough. Barrier: a thread can be at most two rounds ahead
(proved), so three rounds contain every overlap; a third thread is the first
that is neither the first nor the last of a round. Run: three threads have a
first, a middle and a last one; the command lines contain each branch of
`isDone` and of the loops, and counts that divide by the threads and do not.
`DoneIsForever` needs `opts.max + ThreadCount <= CastModulus`,
which the code meets, because a positive `-max` is an `int`; the cast is then
the identity, and one modulus of 8 is enough for it and for the total, which in
timed runs wraps. In `audit` the run time is one
tick and the set-up is shorter or just as long: in the second case the alarm of
`Init` expires, its signal is delivered at any later moment, and thread
0 sets a second one, which may be delivered a tick late too. Waits may return
early. It needs two threads: what it compares is a sum and a few moments. Its moduli are as narrow as they can be
without a wrap of the counts of two calls per thread: 5 makes the cast and the
truncation of a huge share (`-max -1`) change the number. Files: a length below,
at and above multiples of the block, and above the file; three calls show the
second one meeting the traces of the first and the third those of both. `file_ops`: four
programs are create, interrupted rename, create, rename, or create, rename,
create, rename, which replaces files. `dax`: accesses that divide the
heap and that do not; blocks of more than one line, which a crash can cut; two
threads on the same lines; a posted line before and after another one. The
proofs of section 4 lift these bounds for every safety property but `FullPeriod`:
the wider registers differ from the 8-bit one in width and taps only, and that
none of them becomes zero is proved.

`barrier_spurious` has symmetric threads (it checks no liveness) and
`CHECK_DEADLOCK FALSE`: there the last threads may really wait for ever.

### Disagreements the runs show

Two runs check one property each that a comment or the Readme states, and TLC
finds it violated. PROJECT.json quotes the lines.

| run | property | the code |
|---|---|---|
| `fewer_calls_than_threads` | `Termination` | with 0 < `-max` < `-tc` the share of a thread is 0, so that the threads loop on `isDone`; they add to the total only after the loop, and the run never ends. A temporal counterexample under `FairSpec` |
| `dax_sections` | `StoresStartInOwnSection` | a byte offset is used as a block number (`dax_store.cpp:239`); the first store of thread 1 is outside the heap |

### Other disagreements met

The model contains the following behaviours too. For the first seven the change
to make is given with which TLC shows them.

* *A run that is stopped early.* `StartTiming` resumes the timing
  (`MicroBenchmarkHarness.hpp:201`) before it replaces the alarm of `Init`
  (202), and an alarm that has expired may be delivered later still. If the
  set-up takes as long as the run time, the run may end before its time,
  although the comment at 189-193 recommends just this use.
  `RunLastsUntilItsLimit` in `audit` says that this is the only case; without its
  exception (`LongSetup`) the same run finds the short measurement.
* *A process killed by its alarm.* `SA_RESETHAND` (199) makes the handler good
  for one signal. The alarm of `Init` expires during a long set-up, and its
  signal is still on its way when thread 0 installs the handler again. The stale
  signal is then delivered and uses the new handler up, so that the alarm thread
  0 sets next finds the default disposition and terminates the process. (If the
  first signal is handled before, nothing happens: no other alarm is set until
  the handler is back.) `KilledOnlyAfterLongSetup` in `audit` says that a long
  set-up is needed for it; `outcome # "killed"` as an invariant of that run shows
  it.
* *A negative run time.* In `RunOps` the timing is not suspended, so the alarm of
  `Init` can set `_stopTime` and `_finished` before thread 0 takes
  `_startTime`; `PrintResults` then prints a negative difference.
  `MCHarnessAudit.cfg` with `MaxSetup = 2` and the invariant
  `report.elapsed >= 0`.
* *A start before the start.* `Join` does not wait in a loop. One spurious wakeup
  lets a thread call the FUT before the timing has been started, against the
  comment at `time_GSPS.cpp:49-51`. `MCHarness.cfg` with
  `SPECIFICATION LeakySpec`: `NobodyRunsEarly` fails.
* *A count that wraps.* `GenericThread` counts in an `unsigned int` (280), so that
  more than 2^32 calls of one thread are reported wrongly. `MCHarnessAudit.cfg`
  with `CounterModulus = 3` and `MaxCalls = 4`: `ReportCountsEveryCall` fails.
* *A count that never gets there.* With the loop of `time_GSPS.cpp:117`, a
  negative `-max` becomes a number near 2^64 in `_operationCount`, and the cast
  in `isDone` (235) never reaches it. `MCHarness.cfg` with `CastModulus = 4`:
  `Termination` fails; with 5, where the total can wrap after threads have been
  told to stop, `DoneIsForever` fails.
* *Persistent memory that is not there.* The assertion that the heap is on
  persistent memory is commented out (`dax_store.cpp:197`). On any other file
  `pmem_persist` and `sfence` make nothing durable: `CrashLosesOnlyCallsInFlight`
  fails when `isPMEM` is taken out of `Durable`.
* `-max` is divided by `-tc` and rounded down; the rest is not run. How much can
  be missing is `CountedRunIsNearlyExact`.
* `-rt 2 -max 0` is accepted, and the run is over at once, and so is
  `-rt -1 -max 5`, whose limit is the count, although the message at 114 says
  "only one of -rt or -max". What is true of the limits that get through is
  `LimitsAreThoseAskedFor`.
* A `rename` onto an existing `f<k>` destroys that file: after create, rename,
  create, rename only the second generation is left. `fileOps_test.sh` empties
  the directories before each pair, and so does not meet it. What is safe is
  the file created last (`NewestFilesSurvive`).
* With `-S` the swaps of `time_GSPS.cpp` race: the array need not stay a
  permutation. Fewer elements are lost than swaps were begun on the array
  (`RacesLoseFewElements`).
* `file_wr.cpp:27` calls `-f` the file size, but every further call of
  `write_forward` appends another `-f` bytes (`WritesAreAppended`).
* The "sequential" accesses of the DAX programs advance by `accessSize` blocks
  rather than by one. They still stay in the heap (`LoadsStayMapped`).

### Fairness

`barrier`, `harness` and `fewer_calls_than_threads` use weak fairness of each
thread's steps and of main's: the kernel runs every thread that can run. A
mutex is not fair, but each thread locks it a bounded number of times, so weak
fairness of the single threads is enough. `Tick` is weakly fair because time
passes, and the alarm's steps are because the kernel raises and delivers
signals. ^C and spurious wakeups are owed to nobody.

## 4. Proofs

TLAPS checks these theorems for all values of the constants that satisfy the
named assumptions in the modules, and the hypotheses given below. The
invariants they rest on are inductive; TLC agrees with them on small instances.

* `BarrierRoundsProofs`. `BarrierAssumption`: a finite, nonempty set of
  threads. The inductive invariant has two parts. `LockInv` needs nothing of
  the waits: the mutex excludes (`MutexHeld`), the waiters are those on the
  condition (`WaitersAreWaiting`), a full counter still has its last thread
  between the increment and the reset (`LastIsThere`; without it the counter
  could exceed its type), and each thread is one arrival ahead of its
  departures while it is counted in. `MutexProtects` and `TypeCorrect` are
  proved from it, and `CounterIsRight` with one more conjunct. The second part
  (`IInv`) supposes that waits end only with the round: `JoinedCounts` says
  that the counter is the number of threads at `test` or `wait`, and
  `CountedAreAhead` that exactly these are one arrival ahead. When the counter
  is full, all threads are counted, so that all have arrived equally often:
  that is what makes the broadcast safe. `RoundsAreSafe`, `NoLostWakeup` and
  `RoundsDoNotOverlap` follow from `IInv` alone, and
  `BarrierImplementsCyclicBarrier` is the step simulation: `CountIn` is
  `Arrive`, `ReturnFromJoin` is `Depart`, all other steps stutter.

* `HarnessProofs`, about a run with any number of threads.
  * *Barriers.* The three barriers share the variable `at`, so each is described
    as a value together with its users, the threads between the call of its
    `Join` and the return (`BarrierOK`). Its counter is the number of users
    counted in. `Rounds` is the consequence that matters: once one thread has
    passed a barrier, all have been counted in it. `ThreadInv` joins the two
    (`ThreadsMeetInBarriers`); with the types and `MainInv` it is `RunInv`, from
    which `NoEarlyStart` and `NoEarlyEnd` follow. These theorems are about
    `Spec`, where a wait ends only with a broadcast; a spurious wakeup breaks
    them (section 3).
  * *Deadlock.* `NoDeadlock`: if all threads could be created, some thread has a
    step to take until all are done (`ThreadsGoOn`). `CanGoOn` says by hand what
    ENABLED would say; TLC finds the two equal in all states of `harness`. Where
    nobody moves, the users of a barrier are all on its condition (`AllWait`),
    and somebody is not among them, because a full counter still has its last
    thread before the broadcast. `Rounds` then says that nobody is there at all,
    for one barrier after the other. The theorem is the safety half of
    `Termination`. `MissingThreadStopsAll` is the other case: with one thread
    missing, none ever leaves the start barrier.
  * *Refinement.* `RunImplementsBenchmarkRun` is a step simulation with `RunInv`:
    each action of `Harness` is one action of `BenchmarkRun` or leaves `place`,
    `started`, the counts and the printed total alone.
  * *Alarm.* `AlarmFindsHandler` supposes nothing of the set-up and nothing of
    the waits. `AlarmInv` says for a set-up that is shorter than `-rt` where the
    one signal can be. `SetupCounted`: the alarm of `Init` is due `-rt` ticks after
    it was set, of which `setup` have passed. So it is replaced before it
    expires, and the handler is there when the second one does. As soon as the set-up has lasted
    as long as `-rt`, the invariant says nothing more, and the property holds by
    its exception. `LimitInv` adds that the threads leave their loops and the
    time is stopped no sooner than the alarm (`RunLasts`).
  * *Counts.* `CountInv`: without `goCounting` the total is the share of a thread
    times the number of threads that have reported; with it, the total and the
    calls under way are less than a thread count above `-max`. `DoneStaysDone`
    and `CountedRunNearlyExact` follow under `WideCounters`, which says that no
    total of a run by count wraps in the cast of `isDone`: a positive `-max` is
    an `int`, the cast has 32 bits. (A negative one is left out here: its run is
    never over with `goCounting`, and its share is arbitrary without.)
  * *Account.* `EveryCallReported`: the total is the number of calls of the
    threads that have reported, or of all calls but those under way
    (`EveryCall`). The calls are pairs of a thread and a number, so that the sum
    is the cardinality of a set. Its hypothesis `RoomForCalls` keeps the counts
    from wrapping; section 3 shows a report that is wrong without it.
    `OverrunIsBounded` (`LateInv`) and `WindowHoldsCalls` (`FirstInWindow`,
    `LastInWindow`) have no hypothesis. What is about the counts is proved of
    `AuditSpec`, whose waits may return early: only the first call of the window
    depends on the barriers.

* `InitOptionsProofs`, for command lines of any length. `ArgsInv` is the loop
  invariant: the argument at `i` is no value (`AtOption`), those before it have
  been sorted out (`Collected`), the limits are what they ask for (`Asked`), and
  what is accepted has one at most (`Limited`).
  Where options begin is found by counting back, so the main lemmas say that
  after an option its value and then an argument follow (`ValueFollows`), and
  that this value is the last of its option and of no other (`OneMoreValue`).

* `FastRandProofs`. `LfsrInjective`: since the highest bit is a tap, the top
  bit of the result tells which branch was taken, so the step can be undone.
  `SeedStaysNonZero`: the only way to zero would be to lose the only one bit,
  which puts the taps in.

* `GspsProofs`. `UndisturbedSwapsPermute` is about all interleavings in which no
  two swaps have met: those on one array then touch different elements
  (`Apart`), see only what they have put there (`Seen`), and an element missing
  from the array is held by a swap between its two stores (`Kept`). `Private`
  makes that true of private arrays without a condition. `RacesLoseFew` is about
  the swaps that meet. Nothing new comes into an array (`Own`). For what is lost,
  a swap whose stores begin joins the classes of its two indices, and an element
  stays in the class of its index (`StayInClass`). There are at most as many
  joins as such swaps (`FewJoins`), and every class keeps one of its elements, so
  that no more elements are lost than there were joins. That they are fewer than
  the swaps needs one thing more: either a join was saved, or no index has ever
  got its own element back (`NoneComesBack`), and then a class that has been
  joined keeps two. The classes are no history variable: `JoinInv` says that
  there is such a function, and each step says how to change it.

* `FileTransferProofs`. `ForwardInv` describes an offset by what has been asked
  for (`Asked`), the limit being the end of the file or of the device;
  `BackwardInv` says that the chunks before the last one are whole. The proofs
  suppose nothing of how lengths and blocks divide.

* `FileOpsProofs`. `Holding` ties descriptors to the call in progress, and leaks
  to calls that are over; `Room` to the limits of the process and the device: a
  leak means a full device. `Moving` says how far a rename has come, also when
  the program before was interrupted. It gives `AGapStopsRename`. `FilesSurvive`
  rests on `Newest`: a `file<k>` is always the newest with its number, so that
  an `f<k>` that a rename replaces never is.

* `DaxProofs`. `IndexInv`: a load's index is always a block; a store's is one as
  soon as it has been advanced. A block and whole cache lines of it fit the heap
  because blocks are counted rounded down (`BlocksAreMapped`), and
  `fast_memcpy`, which copies eight quad words at a time, copies exactly the
  block if its size is a multiple of a cache line (`MemcpyIsExact`).
  `StoreImplementsBlocks`: a store mode takes the steps of `DaxBlocks` and adds
  others, so that everything proved there holds in it too
  (`DaxAccessesAreMapped`). `CrashLosesOnlyInFlight` rests on `StoreInv`. The
  property itself is not inductive: it does not say that what is unsaved will
  still be saved before the call returns. `FlushIsAhead` does: an unsaved line
  belongs to a call that is copying, or flushing with that line still to do.
  `FenceIsAhead` does the same for posted lines, which the fence waits for.
  `PhaseIsRight` keeps the flush within the lines of the call
  (`StoreTypeCorrect`). The assumptions are `DaxAssumption` and
  `StoreAssumption`, the programs' own asserts.

Only model-checked:

* liveness (`FairRefinement`, `Termination`), out of the prover's reach;
* `FullPeriod`, which is a computation;
* the two disagreements of section 3, which are counterexamples.

## 5. Not modelled

* The branch of `HarnessBarrier.hpp` for systems with barriers and the
  `pthread_barrier` functions: never built, never called.
* `AtomicOps.hpp` except the addition `CompletedOperations` uses: inline
  assembly no program reaches. The addition is one step.
* A second `RunOps` in one process. Its `WaitForThreads` joins threads that have
  been joined before, which is undefined behaviour: nothing can be said of what
  comes after, and no program does it.
* `-hang`, which loops until a debugger writes a local variable.
* `SetRunTime` and `SetFootPrintMB`: called by nobody.
* `crunch` and `fill_buffer`: their results are used by nobody.
* Footprint arithmetic, `atoi` of numbers out of range, the text of the output.
* The processor's memory model, except for the path of stores to the medium:
  shared variables of the harness are read and written in program order. The
  scripts and the Makefile, except for the sequence of programs in
  `fileOps_test.sh`.

## 6. Plan

Done, in this order: barrier, run, audit, random numbers, DAX accesses, file
transfer, command line, file operations, swaps; then failing `pthread_create`,
the client that counts each call, the abstract `BenchmarkRun` and its
refinement, the store modes; the proofs of the barrier, the random numbers and
the DAX programs, then of the run, its account and its refinement, the file
transfers, the file operations, the swaps and the command line.

Left: `InitOptions` composed with `Harness`, so that what one lets through is by
construction what the other starts from. Today the two are held together by
`LimitsAreThoseAskedFor`, which says of the one what `HarnessAssumption` says of the
other.
