---------------------------- MODULE BarrierRounds ----------------------------
(***************************************************************************)
(* One nvsl::Barrier used round after round by the threads it was built    *)
(* for, as GenericThread uses _runBarrier twice.  Each thread calls Join   *)
(* MaxRounds times; what it does in between does not touch the barrier.    *)
(*                                                                         *)
(* Two history variables count, for each thread, the increments of _joined *)
(* and the returns of Join; no action reads them except to stop after      *)
(* MaxRounds calls.  Over them the barrier implements CyclicBarrier.       *)
(***************************************************************************)
EXTENDS HarnessBarrier

CONSTANT MaxRounds

ASSUME RoundsAssumption == MaxRounds \in Nat

VARIABLES
    arrivals,
    departures

history == <<arrivals, departures>>
vars == <<bar, at, arrivals, departures>>

Init ==
    /\ bar = New
    /\ at = [t \in Threads |-> "out"]
    /\ arrivals = [t \in Threads |-> 0]
    /\ departures = [t \in Threads |-> 0]

CallJoin(t) ==
    /\ arrivals[t] < MaxRounds
    /\ Lock(t)
    /\ UNCHANGED history

CountIn(t) ==
    /\ Count(t)
    /\ arrivals' = [arrivals EXCEPT ![t] = @ + 1]
    /\ UNCHANGED departures

LastBroadcasts(t) == Broadcast(t) /\ UNCHANGED history

OtherWaits(t) == Wait(t) /\ UNCHANGED history

WakesSpuriously(t) == SpuriousWake(t) /\ UNCHANGED history

WokenRelocks(t) == Relock(t) /\ UNCHANGED history

ReturnFromJoin(t) ==
    /\ Unlock(t)
    /\ departures' = [departures EXCEPT ![t] = @ + 1]
    /\ UNCHANGED arrivals

\* The steps thread t takes on its own account.
Step(t) ==
    \/ CallJoin(t)
    \/ CountIn(t)
    \/ LastBroadcasts(t)
    \/ OtherWaits(t)
    \/ WokenRelocks(t)
    \/ ReturnFromJoin(t)

\* All rounds are over; anything else that stops is a deadlock.
AllRoundsOver ==
    /\ \A t \in Threads : departures[t] = MaxRounds
    /\ UNCHANGED vars

Next ==
    \/ \E t \in Threads : Step(t) \/ WakesSpuriously(t)
    \/ AllRoundsOver

Spec == Init /\ [][Next]_vars

\* The scheduler runs every thread that can run.
FairSpec == Spec /\ \A t \in Threads : WF_vars(Step(t))

-----------------------------------------------------------------------------

TypeOK ==
    /\ bar \in Barriers
    /\ at \in [Threads -> Places]
    /\ arrivals \in [Threads -> Nat]
    /\ departures \in [Threads -> Nat]

\* Nobody returns from round r while somebody has yet to arrive in it: the
\* reason why the benchmarks put barriers around the timed portion (Join,
\* HarnessBarrier.hpp:23).
RoundSafety ==
    \A t, u \in Threads : departures[t] <= arrivals[u]

\* No lost wakeup (the wait of HarnessBarrier.hpp:30): whoever waits on the
\* condition waits for a thread that has still to be counted in this round,
\* or for the last one, which is about to broadcast.
NobodyStranded ==
    \A t \in bar.cond : \E u \in Threads :
        \/ arrivals[u] < arrivals[t]
        \/ at[u] = "test"

\* A thread can start the next round while another still leaves this one,
\* but it never gets two rounds ahead: the counter that Join resets at
\* HarnessBarrier.hpp:27 is never shared by two rounds.
NeverTwoAhead ==
    \A t, u \in Threads : arrivals[t] <= departures[u] + 2

\* Whatever the waits do, spurious wakeups included, the counter is right
\* whenever the mutex is free: it is the number of calls that have been
\* counted since the last complete round (HarnessBarrier.hpp:25).
CountedCalls ==
    {c \in Threads \X (1 .. MaxRounds) : c[2] <= arrivals[c[1]]}

CounterCountsCalls ==
    bar.lock = NoThread => bar.joined = Cardinality(CountedCalls) % numThreads

-----------------------------------------------------------------------------
(***************************************************************************)
(* The inductive invariant, in two parts.  The first holds whatever the    *)
(* waits do: the mutex excludes, a full counter is one whose last thread   *)
(* is about to reset it, and a thread is one arrival ahead of its          *)
(* departures exactly while it is counted in.                              *)
(***************************************************************************)
MutexHeld ==
    \A t \in Threads : at[t] \in {"count", "test", "unlock"} <=> bar.lock = t

WaitersAreWaiting ==
    \A t \in Threads : t \in bar.cond <=> at[t] = "wait"

LastIsThere ==
    bar.joined = numThreads => \E t \in Threads : at[t] = "test"

DeparturesFollow ==
    \A t \in Threads :
        arrivals[t] =
            departures[t] + (IF at[t] \in {"out", "count"} THEN 0 ELSE 1)

ArrivalsBounded ==
    \A t \in Threads :
        arrivals[t] + (IF at[t] = "count" THEN 1 ELSE 0) <= MaxRounds

LockInv ==
    /\ TypeOK
    /\ MutexHeld
    /\ WaitersAreWaiting
    /\ LastIsThere
    /\ DeparturesFollow
    /\ ArrivalsBounded

(***************************************************************************)
(* The second part needs waits that end only with the round.  The threads  *)
(* counted in the current round are those between the increment and the    *)
(* broadcast; _joined is their number, and they are exactly one arrival    *)
(* ahead of all the others.                                                *)
(***************************************************************************)
Counted == {t \in Threads : at[t] \in {"test", "wait"}}

JoinedCounts == bar.joined = Cardinality(Counted)

CountedAreAhead ==
    \A t, u \in Threads :
        arrivals[t] + (IF u \in Counted THEN 1 ELSE 0)
            = arrivals[u] + (IF t \in Counted THEN 1 ELSE 0)

IInv ==
    /\ LockInv
    /\ JoinedCounts
    /\ CountedAreAhead

-----------------------------------------------------------------------------

Abstract == INSTANCE CyclicBarrier

\* The barrier does what CyclicBarrier says, step by step.
Refinement == Abstract!Spec

\* ... and, when every thread that can run does, it keeps nobody waiting.
FairRefinement == Abstract!FairSpec
=============================================================================
