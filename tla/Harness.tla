------------------------------- MODULE Harness -------------------------------
(***************************************************************************)
(* The run of one benchmark over the MicroBenchmarkHarness singleton: the  *)
(* main thread, the threads that call the function under test (FUT), the   *)
(* three barriers between them, the real-time clock, the alarm that ends a *)
(* timed run, and the signals.                                             *)
(*                                                                         *)
(* There are three kinds of client.  "RunOps" is time_random.cpp: main     *)
(* calls RunOps, whose threads execute GenericThread.  "go" is             *)
(* time_GSPS.cpp and the file_ and dax_ programs: main suspends the        *)
(* timing, prepares its data, starts threads that execute go, and stops    *)
(* the timing itself.  "goCounting" is the same with the other loop that   *)
(* time_GSPS.cpp:117 recommends: it reports each call as soon as it has    *)
(* returned, so that isDone can see the count.                             *)
(*                                                                         *)
(* A statement that another thread or a signal handler can observe is an   *)
(* action of its own.  Every action needs a live process (outcome).        *)
(*                                                                         *)
(* As in HarnessBarrier, Action_Mistake is an action as a plausible bug    *)
(* would have it; no specification uses one.                               *)
(***************************************************************************)
EXTENDS Integers

CONSTANTS
    ThreadCount,      \* -tc
    CommandLines,     \* accepted settings of -rt and -max, see Accepted
    Clients,          \* the kinds of client, see above
    CounterModulus,   \* wrap of a thread's own count of calls: 2^32 for the
                      \* unsigned int of GenericThread, 2^64 for go's uint64_t
    CastModulus,      \* wrap of the unsigned int that isDone casts to and that
                      \* a thread keeps its share in, 2^32
    TotalModulus,     \* wrap of _operationsCompleted, 2^64
    NoThread,         \* see HarnessBarrier
    MaxSetup,         \* bound: clock ticks before thread 0 starts the timing
    MaxRun            \* bound: clock ticks allowed after MaxSetup

Threads == 0 .. ThreadCount - 1

\* What Init lets through: it refuses -rt and -max when both are positive.  A
\* negative -rt is kept as it is; a negative -max is a huge number.
Accepted == {o \in [rt : Int, max : Nat, maxSet : BOOLEAN] :
                /\ o.rt <= 0 \/ o.max = 0
                /\ o.max > 0 => o.maxSet}

\* -rt n, and -max n
Timed(n) == [rt |-> n, max |-> 0, maxSet |-> FALSE]
Counted(n) == [rt |-> 0, max |-> n, maxSet |-> TRUE]

ASSUME HarnessAssumption ==
    /\ ThreadCount \in Nat \ {0}
    /\ \A o \in CommandLines : /\ o \in Accepted
                               /\ o.rt <= MaxRun
                               /\ (o.max \div ThreadCount) % CastModulus
                                      < CounterModulus
    /\ Clients \subseteq {"RunOps", "go", "goCounting"}
    /\ {CounterModulus, CastModulus, TotalModulus} \subseteq Nat \ {0, 1}
    /\ NoThread \notin Threads
    /\ MaxSetup \in Nat /\ MaxRun \in Nat

VARIABLES
    client,               \* the program that runs
    opts,                 \* _runTimeSeconds, _operationCount, _opCountSet
    now,                  \* the clock that gettimeofday reads, from 1
    startTime, stopTime,  \* _startTime, _stopTime; 0 is unset
    finished,             \* _finished
    timingIsSuspended,    \* _timingIsSuspended
    handler,              \* the disposition of SIGALRM
    alarm,                \* when the alarm clock expires; 0 is off
    pending,              \* has a SIGALRM been raised and not delivered?
    timing,               \* the next statement of StartTiming, for its caller
    mainPc,               \* where main is
    pc,                   \* pc[t]: where thread t is
    threadOps,            \* threadOps[t]: its own count of calls
    operationsCompleted,  \* _operationsCompleted
    startBarrier, runBarrier, endBarrier,
    at,                   \* at[t]: where thread t is in Join
    report,               \* what PrintResults has printed
    outcome               \* how the process has ended, or "running"

clockVars == <<startTime, stopTime>>
signalVars == <<handler, alarm, pending>>
timingVars == <<timingIsSuspended, finished, timing>>
barrierVars == <<startBarrier, runBarrier, endBarrier, at>>
countVars == <<threadOps, operationsCompleted>>
vars == <<client, opts, now, clockVars, signalVars, timingVars, mainPc, pc,
          countVars, barrierVars, report, outcome>>

OwnThreads == client # "RunOps"
CountsEachCall == client = "goCounting"

Start == INSTANCE HarnessBarrier
             WITH bar <- startBarrier, SpuriousWakeups <- TRUE
Run == INSTANCE HarnessBarrier
             WITH bar <- runBarrier, SpuriousWakeups <- TRUE
End == INSTANCE HarnessBarrier
             WITH bar <- endBarrier, SpuriousWakeups <- TRUE

NothingPrinted == [printed |-> FALSE, elapsed |-> 0, ops |-> 0]

\* main is in Init, past the parsing of the command line.  The barriers are
\* there before the first thread is.
Init ==
    /\ client \in Clients
    /\ opts \in CommandLines
    /\ now = 1
    /\ startTime = 1 /\ stopTime = 0
    /\ finished = FALSE /\ timingIsSuspended = FALSE
    /\ handler = "default" /\ alarm = 0 /\ pending = FALSE
    /\ timing = "clock"
    /\ mainPc = "init"
    /\ pc = [t \in Threads |-> "none"]
    /\ threadOps = [t \in Threads |-> 0]
    /\ operationsCompleted = 0
    /\ startBarrier = Start!New /\ runBarrier = Run!New /\ endBarrier = End!New
    /\ at = [t \in Threads |-> "out"]
    /\ report = NothingPrinted
    /\ outcome = "running"

\* The quotient has 64 bits, the variable a thread keeps it in has 32.
operationsPerThread == (opts.max \div ThreadCount) % CastModulus

Goto(t, place) == pc' = [pc EXCEPT ![t] = place]

-----------------------------------------------------------------------------
(* StartTiming, statement by statement.  Its caller is main, inside Init,  *)
(* or thread 0, between the start barrier and the run barrier.             *)

TakeStartTime ==
    /\ timing = "clock" /\ timing' = "handler"
    /\ startTime' = now
    /\ UNCHANGED <<stopTime, timingIsSuspended, finished, signalVars>>

\* sigaction for SIGALRM is forgotten.
InstallHandler_Forgotten ==
    /\ timing = "handler" /\ timing' = "resume"
    /\ UNCHANGED <<clockVars, timingIsSuspended, finished, signalVars>>

InstallHandler ==
    /\ timing = "handler" /\ timing' = "resume"
    /\ handler' = "StopSignal"
    /\ UNCHANGED <<clockVars, timingIsSuspended, finished, alarm, pending>>

ResumeTiming ==
    /\ timing = "resume" /\ timing' = "alarm"
    /\ timingIsSuspended' = FALSE
    /\ UNCHANGED <<clockVars, finished, signalVars>>

\* The seconds are taken for microseconds.
SetAlarm_InMicroseconds ==
    /\ timing = "alarm" /\ timing' = "clock"
    /\ alarm' = IF opts.rt <= 0 THEN 0 ELSE now
    /\ UNCHANGED <<clockVars, timingIsSuspended, finished, handler, pending>>

\* alarm(_runTimeSeconds): replaces the previous alarm, and 0 means none.  The
\* cast of a negative time to unsigned int is undefined; compiled code gets a
\* number of seconds near 2^32, more than a century, which no run lasts.
SetAlarm ==
    /\ timing = "alarm" /\ timing' = "clock"
    /\ alarm' = IF opts.rt <= 0 THEN 0 ELSE now + opts.rt
    /\ UNCHANGED <<clockVars, timingIsSuspended, finished, handler, pending>>

BeforeTheAlarm == TakeStartTime \/ InstallHandler \/ ResumeTiming

-----------------------------------------------------------------------------
(* The main thread. *)

MainStartsTiming ==
    /\ mainPc = "init"
    /\ BeforeTheAlarm
    /\ UNCHANGED <<mainPc, pc, countVars, barrierVars, report, outcome>>

InitReturns ==
    /\ mainPc = "init"
    /\ SetAlarm
    /\ mainPc' = IF OwnThreads THEN "suspend" ELSE "create"
    /\ UNCHANGED <<pc, countVars, barrierVars, report, outcome>>

SuspendTiming ==
    /\ mainPc = "suspend" /\ mainPc' = "create"
    /\ timingIsSuspended' = TRUE
    /\ UNCHANGED <<clockVars, signalVars, timing, finished, pc, countVars,
                   barrierVars, report, outcome>>

\* Threads are created in the order of their ids.  pthread_create may fail;
\* its result is not looked at.
StartThread(t) ==
    /\ mainPc = "create"
    /\ pc[t] = "none" /\ \A u \in 0 .. t - 1 : pc[u] # "none"
    /\ \E place \in {"start", "missing"} : Goto(t, place)
    /\ mainPc' = IF t = ThreadCount - 1 THEN "join" ELSE "create"
    /\ UNCHANGED <<clockVars, signalVars, timingVars, countVars, barrierVars,
                   report, outcome>>

\* main goes on when the first thread is through.
WaitForThreads_FirstOnly ==
    /\ mainPc = "join" /\ \E t \in Threads : pc[t] \in {"end", "done"}
    /\ mainPc' = IF OwnThreads THEN "stop" ELSE "print"
    /\ UNCHANGED <<clockVars, signalVars, timingVars, pc, countVars,
                   barrierVars, report, outcome>>

\* pthread_join on each thread in turn: main goes on when all have returned.
\* Joining a thread that is not there may find that out and return.
WaitForThreads ==
    /\ mainPc = "join" /\ \A t \in Threads : pc[t] \in {"done", "missing"}
    /\ mainPc' = IF OwnThreads THEN "stop" ELSE "print"
    /\ UNCHANGED <<clockVars, signalVars, timingVars, pc, countVars,
                   barrierVars, report, outcome>>

\* The handle of a thread that was not created is uninitialised, and using
\* it may crash.  main gets to it when those before it have returned.
JoinMissingThread ==
    /\ mainPc = "join"
    /\ \E t \in Threads : /\ pc[t] = "missing"
                          /\ \A u \in 0 .. t - 1 : pc[u] \in {"done", "missing"}
    /\ outcome' = "crashed"
    /\ UNCHANGED <<clockVars, signalVars, timingVars, mainPc, pc, countVars,
                   barrierVars, report>>

\* The time of the alarm is kept when there was one.
StopTiming_KeepsTheAlarms ==
    /\ mainPc = "stop" /\ mainPc' = "print"
    /\ stopTime' = IF stopTime = 0 THEN now ELSE stopTime
    /\ UNCHANGED <<startTime, signalVars, timingVars, pc, countVars,
                   barrierVars, report, outcome>>

StopTiming ==
    /\ mainPc = "stop" /\ mainPc' = "print"
    /\ stopTime' = now
    /\ UNCHANGED <<startTime, signalVars, timingVars, pc, countVars,
                   barrierVars, report, outcome>>

\* Stops the timing if nobody has.
PrintResults ==
    /\ mainPc = "print" /\ mainPc' = "exit"
    /\ stopTime' = IF stopTime = 0 THEN now ELSE stopTime
    /\ report' = [printed |-> TRUE, elapsed |-> stopTime' - startTime,
                  ops |-> operationsCompleted]
    /\ UNCHANGED <<startTime, signalVars, timingVars, pc, countVars,
                   barrierVars, outcome>>

ReturnFromMain ==
    /\ mainPc = "exit"
    /\ outcome' = "exited"
    /\ UNCHANGED <<clockVars, signalVars, timingVars, mainPc, pc, countVars,
                   barrierVars, report>>

Main ==
    \/ MainStartsTiming
    \/ InitReturns
    \/ SuspendTiming
    \/ \E t \in Threads : StartThread(t)
    \/ WaitForThreads
    \/ JoinMissingThread
    \/ StopTiming
    \/ PrintResults
    \/ ReturnFromMain

-----------------------------------------------------------------------------
(* A benchmark thread: GenericThread, or a client's go. *)

mainVars == <<clockVars, signalVars, timingVars, mainPc, report, outcome>>

InsideStartBarrier(t) ==
    /\ pc[t] = "start"
    /\ Start!Inside(t)
    /\ UNCHANGED <<mainVars, pc, countVars, runBarrier, endBarrier>>

\* One barrier instead of two: the others do not wait for thread 0.
LeaveStartBarrier_NoRunBarrier(t) ==
    /\ pc[t] = "start"
    /\ Start!Unlock(t)
    /\ Goto(t, IF t = 0 THEN "timing" ELSE "loop")
    /\ UNCHANGED <<mainVars, countVars, runBarrier, endBarrier>>

LeaveStartBarrier(t) ==
    /\ pc[t] = "start"
    /\ Start!Unlock(t)
    /\ Goto(t, IF t = 0 THEN "timing" ELSE "run")
    /\ UNCHANGED <<mainVars, countVars, runBarrier, endBarrier>>

FirstThreadStartsTiming(t) ==
    /\ pc[t] = "timing"
    /\ BeforeTheAlarm
    /\ UNCHANGED <<mainPc, pc, countVars, barrierVars, report, outcome>>

FirstThreadSetsAlarm(t) ==
    /\ pc[t] = "timing"
    /\ SetAlarm
    /\ Goto(t, "run")
    /\ UNCHANGED <<mainPc, countVars, barrierVars, report, outcome>>

InsideRunBarrier(t) ==
    /\ pc[t] = "run"
    /\ Run!Inside(t)
    /\ UNCHANGED <<mainVars, pc, countVars, startBarrier, endBarrier>>

LeaveRunBarrier(t) ==
    /\ pc[t] = "run"
    /\ Run!Unlock(t)
    /\ Goto(t, "loop")
    /\ UNCHANGED <<mainVars, countVars, startBarrier, endBarrier>>

\* The command line -max 0 is not told from a timed run.
isDone_IgnoresOpCountSet ==
    IF opts.max = 0 THEN finished ELSE operationsCompleted >= opts.max

\* The limit has to be met exactly.
isDone_Exactly ==
    IF opts.max = 0 THEN opts.maxSet \/ finished
                    ELSE operationsCompleted % CastModulus = opts.max

isDone ==
    IF opts.max = 0 THEN opts.maxSet \/ finished
                    ELSE operationsCompleted % CastModulus >= opts.max

PollsIsDone == CountsEachCall \/ operationsPerThread = 0

\* The flag is looked at before every other call, to make the loop cheaper.
MoreCalls_EveryOtherCall(t) ==
    IF PollsIsDone THEN ~ isDone \/ threadOps[t] % 2 = 1
                   ELSE threadOps[t] < operationsPerThread

\* The head of either loop: one more call, or out.
MoreCalls(t) ==
    IF PollsIsDone THEN ~ isDone ELSE threadOps[t] < operationsPerThread

EnterCall(t) ==
    /\ pc[t] = "loop" /\ MoreCalls(t)
    /\ Goto(t, "op")
    /\ UNCHANGED <<mainVars, countVars, barrierVars>>

\* A count that is wider than its variable.
ReturnFromCall_Unbounded(t) ==
    /\ pc[t] = "op"
    /\ IF CountsEachCall
       THEN Goto(t, "count") /\ UNCHANGED threadOps
       ELSE Goto(t, "loop") /\ threadOps' = [threadOps EXCEPT ![t] = @ + 1]
    /\ UNCHANGED <<mainVars, operationsCompleted, barrierVars>>

\* The FUT returns and the call is counted, or is about to be reported.
ReturnFromCall(t) ==
    /\ pc[t] = "op"
    /\ IF CountsEachCall
       THEN Goto(t, "count") /\ UNCHANGED threadOps
       ELSE /\ threadOps' = [threadOps EXCEPT ![t] = (@ + 1) % CounterModulus]
            /\ Goto(t, "loop")
    /\ UNCHANGED <<mainVars, operationsCompleted, barrierVars>>

\* The loop is left with a return: nothing is reported.
LeaveLoop_Returns(t) ==
    /\ pc[t] = "loop" /\ ~ MoreCalls(t)
    /\ Goto(t, "done")
    /\ UNCHANGED <<mainVars, countVars, barrierVars>>

LeaveLoop(t) ==
    /\ pc[t] = "loop" /\ ~ MoreCalls(t)
    /\ Goto(t, IF CountsEachCall THEN "end" ELSE "count")
    /\ UNCHANGED <<mainVars, countVars, barrierVars>>

\* A lock-prefixed xadd: one step.
atomic_exchange_and_add(dv) ==
    operationsCompleted' = (operationsCompleted + dv) % TotalModulus

CompletedOperations(t) ==
    /\ pc[t] = "count"
    /\ atomic_exchange_and_add(IF CountsEachCall THEN 1 ELSE threadOps[t])
    /\ Goto(t, IF CountsEachCall THEN "loop" ELSE "end")
    /\ UNCHANGED <<mainVars, threadOps, barrierVars>>

\* GenericThread joins _runBarrier again; go joins its endBarrier.
InsideLastBarrier(t) ==
    /\ pc[t] = "end"
    /\ \/ OwnThreads /\ End!Inside(t) /\ UNCHANGED runBarrier
       \/ ~ OwnThreads /\ Run!Inside(t) /\ UNCHANGED endBarrier
    /\ UNCHANGED <<mainVars, pc, countVars, startBarrier>>

\* A thread that does not wait for the others at the end.
ReturnFromThread_NoBarrier(t) ==
    /\ pc[t] = "end"
    /\ Goto(t, "done")
    /\ UNCHANGED <<mainVars, countVars, barrierVars>>

ReturnFromThread(t) ==
    /\ pc[t] = "end"
    /\ \/ OwnThreads /\ End!Unlock(t) /\ UNCHANGED runBarrier
       \/ ~ OwnThreads /\ Run!Unlock(t) /\ UNCHANGED endBarrier
    /\ Goto(t, "done")
    /\ UNCHANGED <<mainVars, countVars, startBarrier>>

Thread(t) ==
    \/ InsideStartBarrier(t)
    \/ LeaveStartBarrier(t)
    \/ FirstThreadStartsTiming(t)
    \/ FirstThreadSetsAlarm(t)
    \/ InsideRunBarrier(t)
    \/ LeaveRunBarrier(t)
    \/ EnterCall(t)
    \/ ReturnFromCall(t)
    \/ LeaveLoop(t)
    \/ CompletedOperations(t)
    \/ InsideLastBarrier(t)
    \/ ReturnFromThread(t)

\* A wait in any of the barriers returns although nobody has signalled.
SpuriousWake(t) ==
    /\ \/ Start!SpuriousWake(t) /\ UNCHANGED <<runBarrier, endBarrier>>
       \/ Run!SpuriousWake(t) /\ UNCHANGED <<startBarrier, endBarrier>>
       \/ End!SpuriousWake(t) /\ UNCHANGED <<startBarrier, runBarrier>>
    /\ UNCHANGED <<mainVars, pc, countVars>>

-----------------------------------------------------------------------------
(* Time and signals.  SIGALRM may be delivered some time after the alarm   *)
(* has expired, so that the program can have set another one by then.      *)

AlarmExpires ==
    /\ alarm # 0 /\ alarm <= now
    /\ alarm' = 0 /\ pending' = TRUE
    /\ UNCHANGED <<clockVars, handler, timingVars, mainPc, pc, countVars,
                   barrierVars, report, outcome>>

\* SA_RESETHAND puts the default disposition back on entry to the handler.
StopSignal ==
    /\ pending /\ pending' = FALSE
    /\ handler = "StopSignal" /\ handler' = "default"
    /\ stopTime' = IF timingIsSuspended THEN stopTime ELSE now
    /\ finished' = (finished \/ ~ timingIsSuspended)
    /\ UNCHANGED <<startTime, alarm, timingIsSuspended, timing, mainPc, pc,
                   countVars, barrierVars, report, outcome>>

\* The default disposition of SIGALRM terminates the process.
KilledByAlarm ==
    /\ pending /\ handler = "default"
    /\ outcome' = "killed"
    /\ UNCHANGED <<clockVars, signalVars, timingVars, mainPc, pc, countVars,
                   barrierVars, report>>

\* SIGINT may come at any moment: the handler exits.
GracefulExit ==
    /\ outcome' = "interrupted"
    /\ UNCHANGED <<clockVars, signalVars, timingVars, mainPc, pc, countVars,
                   barrierVars, report>>

Live == outcome = "running" /\ UNCHANGED <<client, opts, now>>

\* The bounds leave the alarm of thread 0 time to expire.
NotYet == {"none", "missing", "start", "timing"}

TimingStarted == pc[0] \notin NotYet
Horizon == IF TimingStarted THEN 1 + MaxSetup + MaxRun ELSE 1 + MaxSetup

Tick ==
    /\ outcome = "running"
    /\ now < Horizon
    /\ now' = now + 1
    /\ UNCHANGED <<client, opts, mainVars, pc, countVars, barrierVars>>

MainStep == Live /\ Main
ThreadStep(t) == Live /\ Thread(t)
AlarmStep == Live /\ (AlarmExpires \/ StopSignal \/ KilledByAlarm)

ProcessOver == outcome # "running" /\ UNCHANGED vars

Next ==
    \/ MainStep
    \/ \E t \in Threads : ThreadStep(t)
    \/ AlarmStep
    \/ Live /\ GracefulExit
    \/ Tick
    \/ ProcessOver

Spec == Init /\ [][Next]_vars

\* The same with all that POSIX allows pthread_cond_wait to do.
LeakyNext == Next \/ \E t \in Threads : Live /\ SpuriousWake(t)

LeakySpec == Init /\ [][LeakyNext]_vars

\* The scheduler runs main and every thread that can run, time passes, and
\* the kernel raises and delivers the alarm.  Nobody has to press ^C.
Fairness ==
    /\ WF_vars(MainStep)
    /\ \A t \in Threads : WF_vars(ThreadStep(t))
    /\ WF_vars(AlarmStep)
    /\ WF_vars(Tick)

FairSpec == Spec /\ Fairness

-----------------------------------------------------------------------------

MainPlaces == {"init", "suspend", "create", "join", "stop", "print", "exit"}
ThreadPlaces == {"none", "missing", "start", "timing", "run", "loop", "op",
                 "count", "end", "done"}

TypeOK ==
    /\ client \in Clients
    /\ opts \in CommandLines
    /\ now \in 1 .. 1 + MaxSetup + MaxRun
    /\ startTime \in 1 .. now /\ stopTime \in 0 .. now
    /\ finished \in BOOLEAN /\ timingIsSuspended \in BOOLEAN
    /\ handler \in {"default", "StopSignal"}
    /\ alarm \in 0 .. now + MaxRun /\ pending \in BOOLEAN
    /\ timing \in {"clock", "handler", "resume", "alarm"}
    /\ mainPc \in MainPlaces
    /\ pc \in [Threads -> ThreadPlaces]
    /\ threadOps \in [Threads -> 0 .. CounterModulus - 1]
    /\ operationsCompleted \in 0 .. TotalModulus - 1
    /\ {startBarrier, runBarrier, endBarrier} \subseteq Run!Barriers
    /\ at \in [Threads -> Run!Places]
    /\ report \in [printed : BOOLEAN, elapsed : Int, ops : Nat]
    /\ outcome \in {"running", "exited", "killed", "interrupted", "crashed"}

Measuring == {"loop", "op", "count"}

\* "The main goal is to make sure that some threads don't start running
\* before all of them have been created" (time_GSPS.cpp:49, file_ops.cpp:73),
\* nor before thread 0 has started the timing (MicroBenchmarkHarness.hpp:283).
NobodyRunsEarly ==
    (\E t \in Threads : pc[t] \in Measuring) =>
        \A u \in Threads : pc[u] \notin NotYet

\* pthread_create has failed for all of them, or for none.
NobodyIsThere == \A t \in Threads : pc[t] = "missing"
NobodyIsMissing == \A t \in Threads : pc[t] # "missing"

\* No thread goes home, and main frees or reports nothing, while another
\* still calls the FUT, or has never been created: every call is in
\* _operationsCompleted by then (WaitForThreads and the last barrier,
\* MicroBenchmarkHarness.hpp:300).  Only without any thread does main go on.
NobodyLeavesEarly ==
    (\E t \in Threads : pc[t] = "done") \/ mainPc \in {"stop", "print", "exit"}
        => NobodyIsThere \/ \A u \in Threads : pc[u] \in {"end", "done"}

Limited == opts.rt > 0 \/ opts.maxSet

\* The threads ask isDone one by one, each when its own call is over: once
\* one of them is told to stop, so are all that ask later, though calls
\* under way are still being added to the total
\* (MicroBenchmarkHarness.hpp:235).  True when the total cannot wrap in the
\* cast: opts.max + ThreadCount <= CastModulus.  A positive -max is an int,
\* less than half of the modulus 2^32.
DoneIsForever == [][isDone => isDone']_vars

PlaceOf(t) ==
    CASE pc[t] \in {"none", "missing"}        -> "coming"
      [] pc[t] \in {"start", "timing", "run"} -> "there"
      [] pc[t] \in Measuring                  -> "measured"
      [] pc[t] = "end"                        -> "reported"
      [] pc[t] = "done"                       -> "home"

\* The calls that thread t has counted and not reported yet.
NotReported(t) ==
    IF CountsEachCall
    THEN IF pc[t] = "count" THEN 1 ELSE 0
    ELSE IF pc[t] \in {"end", "done"} THEN 0 ELSE threadOps[t]

Promise == INSTANCE BenchmarkRun
               WITH place <- [t \in Threads |-> PlaceOf(t)],
                    unreported <- [t \in Threads |-> NotReported(t)],
                    started <- TimingStarted,
                    total <- operationsCompleted,
                    result <- report.ops,
                    printed <- report.printed,
                    over <- outcome # "running"

\* "Handle some tricky stuff like signals and threads nicely" (Readme.md:11):
\* main, the threads, two or three barriers, an alarm and its handler
\* together do what BenchmarkRun says in a few lines, down to the total, to
\* which each report adds what its thread has counted, and that is printed.
KeepsItsPromise == Promise!Spec

\* Every benchmark run with a limit comes to an end (isDone,
\* MicroBenchmarkHarness.hpp:223), if all its threads could be created:
\* with one missing, the others wait for it in the start barrier.
Termination ==
    Limited => <>(outcome # "running" \/ ~ NobodyIsMissing)
=============================================================================
