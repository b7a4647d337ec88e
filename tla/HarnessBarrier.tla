--------------------------- MODULE HarnessBarrier ---------------------------
(***************************************************************************)
(* The barrier the harness is built with (HarnessBarrier.hpp, the branch   *)
(* of NO_BARRIERS, which the Makefile always defines): a counter guarded   *)
(* by a mutex, and a condition variable on which all but the last thread   *)
(* of a round wait.                                                        *)
(*                                                                         *)
(* The module holds the object and the steps of Join, one action for each  *)
(* point at which another thread can interleave.  A module that uses a     *)
(* barrier INSTANCEs this one with a variable of its own for bar, and      *)
(* shares the variable at between all its barriers: a thread is in at most *)
(* one Join at a time, so at[t] is its place in the Join it executes.      *)
(*                                                                         *)
(* An operator named after an action and a mistake (Broadcast_NoReset) is  *)
(* that action as a plausible bug in Join would have it.  No specification *)
(* uses it; put in place of the action, it breaks a property of            *)
(* BarrierRounds.                                                          *)
(***************************************************************************)
EXTENDS Naturals, FiniteSets

CONSTANTS
    Threads,          \* the threads that share the barrier
    NoThread,         \* the owner of a free mutex
    SpuriousWakeups   \* may pthread_cond_wait return without a broadcast?

ASSUME BarrierAssumption ==
    /\ IsFiniteSet(Threads)
    /\ Threads # {}
    /\ NoThread \notin Threads
    /\ SpuriousWakeups \in BOOLEAN

VARIABLES
    bar,   \* the object: _joined, the owner of _lock, the waiters of _cond
    at     \* at[t]: where thread t is in Join

\* Every user constructs the barrier with the number of threads it starts.
numThreads == Cardinality(Threads)

Barriers == [joined : 0 .. numThreads,
             lock   : Threads \cup {NoThread},
             cond   : SUBSET Threads]

Places == {"out", "count", "test", "wait", "relock", "unlock"}

\* A constructor that counts its caller in.
New_CountsItsCaller == [joined |-> 1, lock |-> NoThread, cond |-> {}]

\* Barrier(int count)
New == [joined |-> 0, lock |-> NoThread, cond |-> {}]

\* pthread_mutex_lock(&_lock)
Lock(t) ==
    /\ at[t] = "out"
    /\ bar.lock = NoThread
    /\ bar' = [bar EXCEPT !.lock = t]
    /\ at' = [at EXCEPT ![t] = "count"]

\* _joined++
Count(t) ==
    /\ at[t] = "count"
    /\ bar' = [bar EXCEPT !.joined = @ + 1]
    /\ at' = [at EXCEPT ![t] = "test"]

\* Without line 27.
Broadcast_NoReset(t) ==
    /\ at[t] = "test"
    /\ bar.joined = numThreads
    /\ bar' = [bar EXCEPT !.cond = {}]
    /\ at' = [u \in Threads |-> IF u = t THEN "unlock"
                                ELSE IF u \in bar.cond THEN "relock"
                                ELSE at[u]]

\* pthread_cond_signal for pthread_cond_broadcast.
Broadcast_WakesOne(t) ==
    /\ at[t] = "test"
    /\ bar.joined = numThreads
    /\ \E woken \in Threads :
        /\ woken \in bar.cond \/ bar.cond = {}
        /\ bar' = [bar EXCEPT !.joined = 0, !.cond = @ \ {woken}]
        /\ at' = [u \in Threads |-> IF u = t THEN "unlock"
                                    ELSE IF u \in bar.cond \cap {woken}
                                         THEN "relock" ELSE at[u]]

\* The last of the round resets the counter and wakes all the others, who
\* then compete for the mutex.
Broadcast(t) ==
    /\ at[t] = "test"
    /\ bar.joined = numThreads
    /\ bar' = [bar EXCEPT !.joined = 0, !.cond = {}]
    /\ at' = [u \in Threads |-> IF u = t THEN "unlock"
                                ELSE IF u \in bar.cond THEN "relock"
                                ELSE at[u]]

\* Without the else branch, line 30.
Wait_FallsThrough(t) ==
    /\ at[t] = "test"
    /\ bar.joined # numThreads
    /\ at' = [at EXCEPT ![t] = "unlock"]
    /\ UNCHANGED bar

\* A loop that polls the counter with the mutex held.
Wait_Spins(t) ==
    /\ at[t] = "test"
    /\ bar.joined # numThreads
    /\ UNCHANGED <<bar, at>>

\* The others release the mutex and block, in one step.
Wait(t) ==
    /\ at[t] = "test"
    /\ bar.joined # numThreads
    /\ bar' = [bar EXCEPT !.lock = NoThread, !.cond = @ \cup {t}]
    /\ at' = [at EXCEPT ![t] = "wait"]

\* POSIX lets pthread_cond_wait return although nobody has signalled, and
\* Join does not look at the counter again.
SpuriousWake(t) ==
    /\ SpuriousWakeups
    /\ t \in bar.cond
    /\ bar' = [bar EXCEPT !.cond = @ \ {t}]
    /\ at' = [at EXCEPT ![t] = "relock"]

\* pthread_cond_wait takes the mutex again before it returns.
Relock(t) ==
    /\ at[t] = "relock"
    /\ bar.lock = NoThread
    /\ bar' = [bar EXCEPT !.lock = t]
    /\ at' = [at EXCEPT ![t] = "unlock"]

\* pthread_mutex_unlock(&_lock), and Join returns
Unlock(t) ==
    /\ at[t] = "unlock"
    /\ bar' = [bar EXCEPT !.lock = NoThread]
    /\ at' = [at EXCEPT ![t] = "out"]

\* The steps inside Join that the scheduler owes to the thread; a spurious
\* wakeup is owed to nobody.
Inside(t) ==
    \/ Lock(t)
    \/ Count(t)
    \/ Broadcast(t)
    \/ Wait(t)
    \/ Relock(t)
=============================================================================
