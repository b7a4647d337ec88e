---------------------------- MODULE BenchmarkRun ----------------------------
(***************************************************************************)
(* What a run of the harness promises a benchmark, without barriers,       *)
(* clocks and signals: the timing starts when all threads are there, they  *)
(* are measured only after that, none goes home before all have reported   *)
(* their calls, and what is printed is the sum of what they have reported, *)
(* within the width of the variables.                                      *)
(* The process may be over at any moment: ^C is always possible.           *)
(***************************************************************************)
EXTENDS Naturals

CONSTANTS Threads, CounterModulus, TotalModulus

VARIABLES
    place,      \* place[t]: how far thread t has got
    started,    \* has the timing been started for the threads?
    unreported, \* unreported[t]: calls that thread t has yet to report
    total,      \* the calls reported so far
    result,     \* the printed total
    printed,    \* has it been printed?
    over        \* has the process ended?

counts == <<unreported, total>>
vars == <<place, started, counts, result, printed, over>>

Init ==
    /\ place = [t \in Threads |-> "coming"]
    /\ ~ started /\ ~ printed /\ ~ over
    /\ unreported = [t \in Threads |-> 0]
    /\ total = 0 /\ result = 0

All(places) == \A t \in Threads : place[t] \in places

Move(t, from, to) == place[t] = from /\ place' = [place EXCEPT ![t] = to]

Come(t) ==
    /\ Move(t, "coming", "there")
    /\ UNCHANGED <<started, counts, result, printed, over>>

StartTiming ==
    /\ All({"there"}) /\ ~ started
    /\ started' = TRUE
    /\ UNCHANGED <<place, counts, result, printed, over>>

Begin(t) ==
    /\ started
    /\ Move(t, "there", "measured")
    /\ UNCHANGED <<started, counts, result, printed, over>>

Call(t) ==
    /\ place[t] = "measured"
    /\ unreported' = [unreported EXCEPT ![t] = (@ + 1) % CounterModulus]
    /\ UNCHANGED <<place, started, total, result, printed, over>>

\* A thread reports its calls, for the last time or not.
Report(t) ==
    /\ \E to \in {"measured", "reported"} : Move(t, "measured", to)
    /\ total' = (total + unreported[t]) % TotalModulus
    /\ unreported' = [unreported EXCEPT ![t] = 0]
    /\ UNCHANGED <<started, result, printed, over>>

GoHome(t) ==
    /\ All({"reported", "home"})
    /\ Move(t, "reported", "home")
    /\ UNCHANGED <<started, counts, result, printed, over>>

\* When no thread has come there is nothing to wait for.
PrintTotal ==
    /\ All({"home"}) \/ All({"coming"})
    /\ ~ printed /\ printed' = TRUE
    /\ result' = total
    /\ UNCHANGED <<place, started, counts, over>>

End ==
    /\ over' = TRUE
    /\ UNCHANGED <<place, started, counts, result, printed>>

Next ==
    /\ ~ over
    /\ \/ \E t \in Threads : \/ Come(t) \/ Begin(t) \/ Call(t) \/ Report(t)
                             \/ GoHome(t)
       \/ StartTiming
       \/ PrintTotal
       \/ End

Spec == Init /\ [][Next]_vars
=============================================================================
