---------------------------- MODULE HarnessAudit ----------------------------
(***************************************************************************)
(* Harness with an account of the calls of the FUT that really happen and  *)
(* of the time the set-up really takes, in history variables that no step  *)
(* of the program reads.  It is what the printed results and the end of    *)
(* the process are compared with.                                          *)
(***************************************************************************)
EXTENDS Harness, FiniteSets

CONSTANT MaxCalls   \* bound: calls of the FUT by one thread

ASSUME AuditAssumption == MaxCalls \in Nat

VARIABLES
    calls,      \* calls[t]:   calls of the FUT by thread t
    lateCalls,  \* lateCalls[t]: those that returned after _finished was set
    firstCall,  \* when the first call began; 0 if none has
    lastReturn, \* when the last call returned; 0 if none has
    wokenEarly, \* has a wait in a barrier returned without a broadcast?
    setup       \* clock ticks of the set-up: from the alarm that Init sets
                \* to the one that thread 0 sets

audit == <<calls, lateCalls, firstCall, lastReturn, wokenEarly, setup>>
auditVars == <<vars, audit>>

AuditInit ==
    /\ Init
    /\ calls = [t \in Threads |-> 0]
    /\ lateCalls = [t \in Threads |-> 0]
    /\ firstCall = 0 /\ lastReturn = 0
    /\ wokenEarly = FALSE
    /\ setup = 0

Calls(t) == pc[t] = "loop" /\ pc'[t] = "op"
Returns(t) == pc[t] = "op" /\ pc'[t] # "op"
SettingUp == mainPc # "init" /\ ~ TimingStarted

Audit ==
    /\ \A t \in Threads : Calls(t) => calls[t] < MaxCalls
    /\ calls' = [t \in Threads |-> calls[t] + IF Returns(t) THEN 1 ELSE 0]
    /\ lateCalls' = [t \in Threads |->
            lateCalls[t] + IF Returns(t) /\ finished THEN 1 ELSE 0]
    /\ firstCall' = IF firstCall = 0 /\ \E t \in Threads : Calls(t)
                    THEN now ELSE firstCall
    /\ lastReturn' = IF \E t \in Threads : Returns(t) THEN now ELSE lastReturn
    /\ wokenEarly' = (wokenEarly \/ \E t \in Threads : SpuriousWake(t))
    /\ setup' = setup + IF SettingUp /\ now' # now THEN 1 ELSE 0

AuditNext == LeakyNext /\ Audit

AuditSpec == AuditInit /\ [][AuditNext]_auditVars

-----------------------------------------------------------------------------

IsTimed == ~ opts.maxSet

\* The calls that have returned: the n-th one of thread t is <<t, n>>.
CallsReturned == {c \in Threads \X (1 .. MaxCalls) : c[2] <= calls[c[1]]}

\* "`Operations` is the total numbers of times the FUT ran" (Readme.md:73):
\* no thread's count is lost between its loop and the printed line.
ReportCountsEveryCall ==
    report.printed => report.ops = Cardinality(CallsReturned)

\* The alarm stops every thread as soon as its current call is over: none
\* starts another (the loops over isDone, MicroBenchmarkHarness.hpp:290).
OverrunAtMostOneCall ==
    IsTimed => \A t \in Threads : lateCalls[t] <= 1

\* All the reported calls were made between _startTime and _stopTime, but for
\* two exceptions: in a timed run RunOps has the _stopTime of the alarm
\* (MicroBenchmarkHarness.hpp:181), and a barrier that somebody has left early
\* does not hold back the first call (MicroBenchmarkHarness.hpp:287).
WindowCoversCalls ==
    report.printed /\ firstCall # 0 =>
        /\ wokenEarly \/ startTime <= firstCall
        /\ OwnThreads \/ ~ IsTimed => lastReturn <= stopTime

\* A positive -max is an int, less than half of the modulus 2^32; a negative
\* one is a number that the counts never reach.
PositiveCounts == 1 .. CastModulus - ThreadCount

\* -max is to "Set the number of ops to run" (Readme.md:32).  A run falls
\* short of it by less than one call per thread, and never exceeds it
\* (MicroBenchmarkHarness.hpp:120); if each call is reported by itself, no
\* call is missing, and at most one per other thread is under way when the
\* number is reached (time_GSPS.cpp:117).  True if all threads could be
\* created and -max is not negative.
CountedRunIsNearlyExact ==
    report.printed /\ NobodyIsMissing /\ opts.max \in PositiveCounts =>
        IF CountsEachCall
        THEN report.ops \in opts.max .. opts.max + ThreadCount - 1
        ELSE report.ops \in opts.max - ThreadCount + 1 .. opts.max

\* The alarm of Init expires before thread 0 has set its own.
LongSetup == opts.rt > 0 /\ setup >= opts.rt

\* SIGALRM finds its handler, which SA_RESETHAND removes each time it runs
\* (MicroBenchmarkHarness.hpp:199), whatever the delay of its delivery: only
\* when the set-up that is not to be timed (MicroBenchmarkHarness.hpp:189)
\* lasts as long as -rt can there be a second SIGALRM, and only then can the
\* first, delivered after thread 0 has put the handler back, take it away
\* from the second, which kills the process.
KilledOnlyAfterLongSetup == outcome = "killed" => LongSetup

\* A timed run is measured over no less than the time -rt asked for, however
\* late the alarm is delivered (StopSignal, MicroBenchmarkHarness.hpp:179),
\* unless the alarm of Init was due first or -max 0 ends the run at once; a
\* run without any limit prints nothing: only ^C ends it
\* (MicroBenchmarkHarness.hpp:202).
RunLastsUntilItsLimit ==
    report.printed /\ ~ NobodyIsThere =>
        /\ Limited
        /\ LongSetup \/ report.elapsed >= IF IsTimed THEN opts.rt ELSE 0
=============================================================================
