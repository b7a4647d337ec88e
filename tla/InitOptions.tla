----------------------------- MODULE InitOptions -----------------------------
(***************************************************************************)
(* How MicroBenchmarkHarness::Init takes the standard options out of the   *)
(* command line and what it then lets run.  The four footprint options are *)
(* one here, and so are -hang, -nondet, -h and --help, which take no value *)
(* and bear on none of the limits.                                         *)
(*                                                                         *)
(* Words stand for command-line arguments; what is not an option is a      *)
(* number or a word of the benchmark's own.                                *)
(***************************************************************************)
EXTENDS Integers, Sequences, FiniteSetsExt

CONSTANTS
    MaxArgs,        \* bound: arguments after the name of the program
    UIntModulus,    \* wrap of _threadCount, 2^32
    ULongModulus    \* wrap of _operationCount, 2^64

ASSUME InitAssumption ==
    /\ MaxArgs \in Nat
    /\ UIntModulus \in Nat \ {0, 1} /\ ULongModulus \in Nat \ {0, 1}

TakesValue == {"-tc", "-foot", "-rt", "-max", "-file"}
Flags == {"-hang"}
Standard == TakesValue \cup Flags
Numbers == {"-1", "0", "1"}
Words == Standard \cup Numbers \cup {"x"}

\* An int, which may be negative; what is no number counts as 0.
atoi(word) == CASE word = "1" -> 1 [] word = "-1" -> -1 [] OTHER -> 0

VARIABLES
    argv,         \* the arguments; argv[1] is the identifying string
    i,
    opts,         \* _runTimeSeconds, _operationCount, _opCountSet
    threadCount,  \* _threadCount
    durationSet,
    leftOvers,    \* what the benchmark will find in its argv
    outcome       \* "parsing", or what Init has done

vars == <<argv, i, opts, threadCount, durationSet, leftOvers, outcome>>
limits == <<opts, threadCount, durationSet>>

Init ==
    /\ argv \in UNION {[1 .. n -> Words] : n \in 0 .. MaxArgs}
    /\ i = 2
    /\ opts = [rt |-> 0, max |-> 0, maxSet |-> FALSE]
    /\ threadCount = 1
    /\ durationSet = FALSE
    /\ leftOvers = <<>>
    /\ outcome = IF argv = <<>> THEN "refused" ELSE "parsing"

InLoop == outcome = "parsing" /\ i <= Len(argv)

\* The value is looked at again, as if it were an option.
WithValue_ReadAgain(option, value) ==
    /\ InLoop /\ i < Len(argv)
    /\ argv[i] = option /\ argv[i + 1] = value
    /\ i' = i + 1
    /\ UNCHANGED <<argv, leftOvers, outcome>>

\* The option at i and the word after it, which is a value whatever it says.
WithValue(option, value) ==
    /\ InLoop /\ i < Len(argv)
    /\ argv[i] = option /\ argv[i + 1] = value
    /\ i' = i + 2
    /\ UNCHANGED <<argv, leftOvers, outcome>>

SetThreadCount ==
    \E value \in Words :
        /\ WithValue("-tc", value)
        /\ threadCount' = atoi(value) % UIntModulus
        /\ UNCHANGED <<opts, durationSet>>

SetRunTime ==
    \E value \in Words :
        /\ WithValue("-rt", value)
        /\ opts' = [opts EXCEPT !.rt = atoi(value)]
        /\ durationSet' = TRUE
        /\ UNCHANGED threadCount

SetOperationCount ==
    \E value \in Words :
        /\ WithValue("-max", value)
        /\ opts' = [opts EXCEPT !.max = atoi(value) % ULongModulus,
                                !.maxSet = TRUE]
        /\ durationSet' = TRUE
        /\ UNCHANGED threadCount

SetFootprintOrFile ==
    \E option \in {"-foot", "-file"}, value \in Words :
        /\ WithValue(option, value)
        /\ UNCHANGED limits

\* argv[++i] is the null pointer that ends argv: atoi and std::string read it.
ReadPastEnd ==
    /\ InLoop /\ i = Len(argv) /\ argv[i] \in TakesValue
    /\ outcome' = "crashed"
    /\ UNCHANGED <<argv, i, limits, leftOvers>>

\* A flag takes the next argument with it, as if that were its value.
SetFlag_WithAValue ==
    /\ InLoop /\ argv[i] \in Flags
    /\ i' = i + 2
    /\ outcome' = IF i = Len(argv) THEN "crashed" ELSE outcome
    /\ UNCHANGED <<argv, limits, leftOvers>>

SetFlag ==
    /\ InLoop /\ argv[i] \in Flags
    /\ i' = i + 1
    /\ UNCHANGED <<argv, limits, leftOvers, outcome>>

\* An argument the harness does not know takes the next one with it.
KeepLeftOver_WithItsValue ==
    /\ InLoop /\ argv[i] \notin Standard
    /\ leftOvers' = leftOvers \o
           SubSeq(argv, i, IF i < Len(argv) THEN i + 1 ELSE i)
    /\ i' = i + 2
    /\ UNCHANGED <<argv, limits, outcome>>

KeepLeftOver ==
    /\ InLoop /\ argv[i] \notin Standard
    /\ leftOvers' = Append(leftOvers, argv[i])
    /\ i' = i + 1
    /\ UNCHANGED <<argv, limits, outcome>>

RefusesLimits == ~ durationSet \/ (opts.rt > 0 /\ opts.max > 0)

\* After the loop: the checks, and then a division by _threadCount.
CheckLimits ==
    /\ outcome = "parsing" /\ i > Len(argv)
    /\ outcome' = IF RefusesLimits THEN "refused"
                  ELSE IF threadCount = 0 THEN "crashed"
                  ELSE "accepted"
    /\ UNCHANGED <<argv, i, limits, leftOvers>>

InitIsOver == outcome # "parsing" /\ UNCHANGED vars

Next ==
    \/ SetThreadCount
    \/ SetRunTime
    \/ SetOperationCount
    \/ SetFootprintOrFile
    \/ ReadPastEnd
    \/ SetFlag
    \/ KeepLeftOver
    \/ CheckLimits
    \/ InitIsOver

Spec == Init /\ [][Next]_vars

-----------------------------------------------------------------------------

\* Between the arguments q and p there are only options that take a value; q
\* is none of them, or it is the identifying string.
OptionsBetween(q, p) ==
    /\ q = 1 \/ argv[q] \notin TakesValue
    /\ \A r \in q + 1 .. p - 1 : argv[r] \in TakesValue

\* Is argument p the value of the option before it?  The words after q are by
\* turns an option and its value, whatever that says.
IsValue(p) ==
    \E q \in 1 .. p - 1 : OptionsBetween(q, p) /\ (p - q) % 2 = 0

\* The positions of the benchmark's own arguments up to argument p.
ClientsUpTo(p) ==
    {q \in 2 .. p : ~ IsValue(q) /\ argv[q] \notin Standard}

\* "It will parse the standard commandline options and remove them from the
\* argv" (MicroBenchmarkHarness.hpp:56), and nothing else: the benchmark gets
\* its own arguments, all of them and in their order.
ClientGetsItsArguments ==
    outcome = "accepted" =>
        /\ Len(leftOvers) = Cardinality(ClientsUpTo(Len(argv)))
        /\ \A p \in ClientsUpTo(Len(argv)) :
               leftOvers[Cardinality(ClientsUpTo(p))] = argv[p]

\* The positions, up to argument p, of the values of an option.
ValuesUpTo(option, p) == {q \in 2 .. p : IsValue(q) /\ argv[q - 1] = option}

\* The last of them, or else the default.
LastUpTo(option, p, default) ==
    IF ValuesUpTo(option, p) = {} THEN default
    ELSE atoi(argv[Max(ValuesUpTo(option, p))])

\* The limits that the arguments up to p ask for.
AskedUpTo(p) ==
    /\ opts.rt = LastUpTo("-rt", p, 0)
    /\ opts.max = LastUpTo("-max", p, 0) % ULongModulus
    /\ opts.maxSet = (ValuesUpTo("-max", p) # {})
    /\ threadCount = LastUpTo("-tc", p, 1) % UIntModulus
    /\ durationSet =
           (ValuesUpTo("-rt", p) \cup ValuesUpTo("-max", p) # {})

\* "[-rt <RunTime>|-max <MaxOps>] [-tc <#Threads>]" (Readme.md:29): a run
\* has the limits and the threads that were asked for last, whatever the
\* values look like: at least one limit was given, two are never in force,
\* a count is in force only if -max gave it, and a negative -rt is none,
\* whereas a negative -max is a huge one (MicroBenchmarkHarness.hpp:113).
\* These are the command lines that Harness starts from.
LimitsAreThoseAskedFor ==
    outcome = "accepted" =>
        /\ AskedUpTo(Len(argv)) /\ durationSet
        /\ opts.rt <= 0 \/ opts.max = 0
        /\ opts.max > 0 => opts.maxSet
        /\ threadCount > 0

\* Init fails to parse only a command line that ends with an option whose
\* value is missing, or that asks for no threads
\* (MicroBenchmarkHarness.hpp:75).
CrashesOnlyWithoutValue ==
    outcome = "crashed" =>
        \/ threadCount = 0
        \/ argv[Len(argv)] \in TakesValue /\ ~ IsValue(Len(argv))
=============================================================================
