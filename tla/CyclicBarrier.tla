---------------------------- MODULE CyclicBarrier ----------------------------
(***************************************************************************)
(* What nvsl::Barrier (HarnessBarrier.hpp) promises to the threads that    *)
(* share it, whatever it is built from: the calls of Join fall into        *)
(* rounds, and no thread returns from its call of round r before every     *)
(* thread has made its call of round r.  The barrier can be used again at  *)
(* once; a fast thread may make its next call while a slow one is still    *)
(* on its way out of the current one.                                      *)
(***************************************************************************)
EXTENDS Naturals, FiniteSets

CONSTANTS
    Threads,    \* the threads the barrier was constructed for
    MaxRounds   \* bound: how often each thread calls Join

VARIABLES
    arrivals,   \* arrivals[t]:   calls of Join the barrier has counted for t
    departures  \* departures[t]: calls of Join that have returned to t

abstractVars == <<arrivals, departures>>

Init ==
    /\ arrivals = [t \in Threads |-> 0]
    /\ departures = [t \in Threads |-> 0]

\* Thread t, outside the barrier, is counted in.
Arrive(t) ==
    /\ arrivals[t] = departures[t]
    /\ arrivals[t] < MaxRounds
    /\ arrivals' = [arrivals EXCEPT ![t] = @ + 1]
    /\ UNCHANGED departures

\* Thread t leaves the round it is in, which everybody has reached.
Depart(t) ==
    /\ departures[t] < arrivals[t]
    /\ \A u \in Threads : departures[t] < arrivals[u]
    /\ departures' = [departures EXCEPT ![t] = @ + 1]
    /\ UNCHANGED arrivals

Next == \E t \in Threads : Arrive(t) \/ Depart(t)

Spec == Init /\ [][Next]_abstractVars

\* Nobody is kept waiting: a thread that may arrive or leave does so.
Fairness ==
    \A t \in Threads : /\ WF_abstractVars(Arrive(t))
                       /\ WF_abstractVars(Depart(t))

FairSpec == Spec /\ Fairness
=============================================================================
