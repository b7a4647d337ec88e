------------------------- MODULE BarrierRoundsProofs -------------------------
(***************************************************************************)
(* Proofs about nvsl::Barrier for every set of threads and every number of *)
(* rounds.  What the mutex alone guarantees holds with spurious wakeups    *)
(* too; what the condition variable adds is proved without them.           *)
(***************************************************************************)
EXTENDS BarrierRounds, FiniteSetTheorems, TLAPS

LEMMA NumThreadsType ==
    numThreads \in Nat /\ numThreads > 0
<1>1. numThreads \in Nat
  BY BarrierAssumption, FS_CardinalityType DEF numThreads
<1>2. numThreads # 0
  BY BarrierAssumption, FS_EmptySet DEF numThreads
<1> QED
  BY <1>1, <1>2

-----------------------------------------------------------------------------
(* What the mutex guarantees. *)

LEMMA LockInvInit == Init => LockInv
<1> SUFFICES ASSUME Init PROVE LockInv
  OBVIOUS
<1> USE DEF Init, New
<1>1. TypeOK
  BY NumThreadsType DEF TypeOK, Barriers, Places
<1>2. MutexHeld /\ WaitersAreWaiting
  BY BarrierAssumption DEF MutexHeld, WaitersAreWaiting
<1>3. LastIsThere
  BY NumThreadsType DEF LastIsThere
<1>4. DeparturesFollow /\ ArrivalsBounded
  BY RoundsAssumption DEF DeparturesFollow, ArrivalsBounded
<1> QED
  BY <1>1, <1>2, <1>3, <1>4 DEF LockInv

LEMMA LockInvStep == LockInv /\ [Next]_vars => LockInv'
<1> SUFFICES ASSUME LockInv, [Next]_vars PROVE LockInv'
  OBVIOUS
<1> USE NumThreadsType, BarrierAssumption
<1> USE DEF LockInv, TypeOK, Barriers, Places
<1>1. ASSUME NEW t \in Threads, CallJoin(t) PROVE LockInv'
  <2> USE <1>1 DEF CallJoin, Lock, history
  <2>1. TypeOK'
    BY DEF MutexHeld, LastIsThere
  <2>2. MutexHeld' /\ WaitersAreWaiting'
    BY DEF MutexHeld, WaitersAreWaiting
  <2>3. LastIsThere'
    BY DEF MutexHeld, WaitersAreWaiting, LastIsThere
  <2>4. DeparturesFollow' /\ ArrivalsBounded'
    BY RoundsAssumption
       DEF DeparturesFollow, ArrivalsBounded, WaitersAreWaiting
  <2> QED
    BY <2>1, <2>2, <2>3, <2>4
<1>2. ASSUME NEW t \in Threads, CountIn(t) PROVE LockInv'
  <2> USE <1>2 DEF CountIn, Count
  <2>1. TypeOK'
    BY DEF MutexHeld, LastIsThere
  <2>2. MutexHeld' /\ WaitersAreWaiting'
    BY DEF MutexHeld, WaitersAreWaiting
  <2>3. LastIsThere'
    BY DEF MutexHeld, WaitersAreWaiting, LastIsThere
  <2>4. DeparturesFollow' /\ ArrivalsBounded'
    BY RoundsAssumption
       DEF DeparturesFollow, ArrivalsBounded, WaitersAreWaiting
  <2> QED
    BY <2>1, <2>2, <2>3, <2>4
<1>3. ASSUME NEW t \in Threads, LastBroadcasts(t) PROVE LockInv'
  <2> DEFINE newAt == [u \in Threads |-> IF u = t THEN "unlock"
                                         ELSE IF u \in bar.cond THEN "relock"
                                         ELSE at[u]]
  <2>a. bar' = [joined |-> 0, lock |-> bar.lock, cond |-> {}]
    BY <1>3 DEF LastBroadcasts, Broadcast
  <2>b. at[t] = "test" /\ at' = newAt /\ UNCHANGED history
    BY <1>3 DEF LastBroadcasts, Broadcast
  <2>1. TypeOK'
    <3>1. bar' \in Barriers
      BY <2>a
    <3>2. newAt \in [Threads -> Places]
      OBVIOUS
    <3> QED
      BY <2>b, <3>1, <3>2 DEF history
  <2>2. MutexHeld' /\ WaitersAreWaiting'
    BY <2>a, <2>b DEF MutexHeld, WaitersAreWaiting
  <2>3. LastIsThere'
    BY <2>a DEF LastIsThere
  <2>4. DeparturesFollow' /\ ArrivalsBounded'
    BY <2>b, RoundsAssumption
       DEF DeparturesFollow, ArrivalsBounded, WaitersAreWaiting, history
  <2> QED
    BY <2>1, <2>2, <2>3, <2>4
<1>4. ASSUME NEW t \in Threads, OtherWaits(t) PROVE LockInv'
  <2> USE <1>4 DEF OtherWaits, Wait, history
  <2>1. TypeOK'
    BY DEF MutexHeld, LastIsThere
  <2>2. MutexHeld' /\ WaitersAreWaiting'
    BY DEF MutexHeld, WaitersAreWaiting
  <2>3. LastIsThere'
    BY DEF MutexHeld, WaitersAreWaiting, LastIsThere
  <2>4. DeparturesFollow' /\ ArrivalsBounded'
    BY RoundsAssumption
       DEF DeparturesFollow, ArrivalsBounded, WaitersAreWaiting
  <2> QED
    BY <2>1, <2>2, <2>3, <2>4
<1>5. ASSUME NEW t \in Threads, WokenRelocks(t) PROVE LockInv'
  <2> USE <1>5 DEF WokenRelocks, Relock, history
  <2>1. TypeOK'
    BY DEF MutexHeld, LastIsThere
  <2>2. MutexHeld' /\ WaitersAreWaiting'
    BY DEF MutexHeld, WaitersAreWaiting
  <2>3. LastIsThere'
    BY DEF MutexHeld, WaitersAreWaiting, LastIsThere
  <2>4. DeparturesFollow' /\ ArrivalsBounded'
    BY RoundsAssumption
       DEF DeparturesFollow, ArrivalsBounded, WaitersAreWaiting
  <2> QED
    BY <2>1, <2>2, <2>3, <2>4
<1>6. ASSUME NEW t \in Threads, ReturnFromJoin(t) PROVE LockInv'
  <2> USE <1>6 DEF ReturnFromJoin, Unlock
  <2>1. TypeOK'
    BY DEF MutexHeld, LastIsThere
  <2>2. MutexHeld' /\ WaitersAreWaiting'
    BY DEF MutexHeld, WaitersAreWaiting
  <2>3. LastIsThere'
    BY DEF MutexHeld, WaitersAreWaiting, LastIsThere
  <2>4. DeparturesFollow' /\ ArrivalsBounded'
    BY RoundsAssumption
       DEF DeparturesFollow, ArrivalsBounded, WaitersAreWaiting
  <2> QED
    BY <2>1, <2>2, <2>3, <2>4
<1>7. ASSUME NEW t \in Threads, WakesSpuriously(t) PROVE LockInv'
  <2> USE <1>7 DEF WakesSpuriously, SpuriousWake, history
  <2>1. TypeOK'
    BY DEF MutexHeld, LastIsThere
  <2>2. MutexHeld' /\ WaitersAreWaiting'
    BY DEF MutexHeld, WaitersAreWaiting
  <2>3. LastIsThere'
    BY DEF MutexHeld, WaitersAreWaiting, LastIsThere
  <2>4. DeparturesFollow' /\ ArrivalsBounded'
    BY RoundsAssumption
       DEF DeparturesFollow, ArrivalsBounded, WaitersAreWaiting
  <2> QED
    BY <2>1, <2>2, <2>3, <2>4
<1>8. CASE UNCHANGED vars
  BY <1>8 DEF vars, MutexHeld, WaitersAreWaiting, LastIsThere,
              DeparturesFollow, ArrivalsBounded
<1> QED
  BY <1>1, <1>2, <1>3, <1>4, <1>5, <1>6, <1>7, <1>8
     DEF Next, Step, AllRoundsOver

\* The mutex protects the barrier's fields, with or without spurious wakeups
\* (Join, HarnessBarrier.hpp:23).
THEOREM MutexProtects == Spec => []LockInv
<1>1. Init => LockInv
  BY LockInvInit
<1>2. LockInv /\ [Next]_vars => LockInv'
  BY LockInvStep
<1> QED
  BY <1>1, <1>2, PTL DEF Spec

\* Every field of the barrier keeps its type: _joined never leaves
\* 0 .. _numThreads (HarnessBarrier.hpp:25).
THEOREM TypeCorrect == Spec => []TypeOK
<1>1. LockInv => TypeOK
  BY DEF LockInv
<1> QED
  BY <1>1, MutexProtects, PTL
-----------------------------------------------------------------------------
(* The counter counts modulo the number of threads. *)

CountsModulo ==
    \E rounds \in Nat :
        Cardinality(CountedCalls) = rounds * numThreads + bar.joined

LEMMA CountedCallsFinite ==
    IsFiniteSet(CountedCalls) /\ Cardinality(CountedCalls) \in Nat
<1>1. IsFiniteSet(Threads \X (1 .. MaxRounds))
  <2>1. IsFiniteSet(1 .. MaxRounds)
    BY RoundsAssumption, FS_Interval
  <2> QED
    BY <2>1, BarrierAssumption, FS_Product, Zenon
<1>2. CountedCalls \in SUBSET (Threads \X (1 .. MaxRounds))
  BY DEF CountedCalls
<1> QED
  BY <1>1, <1>2, FS_Subset, FS_CardinalityType

LEMMA CountsModuloInit == Init => CountsModulo
<1> SUFFICES ASSUME Init PROVE CountsModulo
  OBVIOUS
<1>1. CountedCalls = {}
  BY DEF Init, CountedCalls
<1>2. Cardinality(CountedCalls) = 0 * numThreads + bar.joined
  BY <1>1, FS_EmptySet, NumThreadsType DEF Init, New
<1> QED
  BY <1>2 DEF CountsModulo

LEMMA CountsModuloStep ==
    LockInv /\ CountsModulo /\ [Next]_vars => CountsModulo'
<1> SUFFICES ASSUME LockInv, CountsModulo, [Next]_vars PROVE CountsModulo'
  OBVIOUS
<1> USE DEF LockInv, TypeOK, Barriers
<1>1. ASSUME UNCHANGED <<bar.joined, arrivals>> PROVE CountsModulo'
  BY <1>1 DEF CountsModulo, CountedCalls, numThreads
<1>2. PICK rounds \in Nat :
        Cardinality(CountedCalls) = rounds * numThreads + bar.joined
  BY DEF CountsModulo
<1>3. ASSUME NEW t \in Threads, CountIn(t) PROVE CountsModulo'
  <2> DEFINE call == <<t, arrivals[t] + 1>>
  <2>1. call \notin CountedCalls
    BY DEF CountedCalls
  <2>2. arrivals[t] + 1 \in 1 .. MaxRounds
    BY <1>3, RoundsAssumption DEF CountIn, Count, ArrivalsBounded
  <2>3. CountedCalls' = CountedCalls \cup {call}
    BY <1>3, <2>2, RoundsAssumption DEF CountIn, CountedCalls
  <2>4. Cardinality(CountedCalls)' = Cardinality(CountedCalls) + 1
    <3>1. Cardinality(CountedCalls \cup {call})
            = Cardinality(CountedCalls) + 1
      BY <2>1, CountedCallsFinite, FS_AddElement
    <3> QED
      BY <2>3, <3>1
  <2>5. bar.joined' = bar.joined + 1
    BY <1>3 DEF CountIn, Count
  <2>6. rounds * numThreads \in Nat
    BY NumThreadsType
  <2>7. Cardinality(CountedCalls)' = rounds * numThreads + bar.joined'
    BY <1>2, <2>4, <2>5, <2>6
  <2> QED
    BY <2>7 DEF CountsModulo, numThreads
<1>4. ASSUME NEW t \in Threads, LastBroadcasts(t) PROVE CountsModulo'
  <2>1. CountedCalls' = CountedCalls
    BY <1>4 DEF LastBroadcasts, history, CountedCalls
  <2>2. bar.joined = numThreads /\ bar.joined' = 0
    BY <1>4 DEF LastBroadcasts, Broadcast
  <2>3. Cardinality(CountedCalls)' = (rounds + 1) * numThreads + bar.joined'
    BY <1>2, <2>1, <2>2, NumThreadsType
  <2> QED
    BY <2>3 DEF CountsModulo, numThreads
<1>5. ASSUME NEW t \in Threads,
             \/ CallJoin(t) \/ OtherWaits(t) \/ WokenRelocks(t)
             \/ ReturnFromJoin(t) \/ WakesSpuriously(t)
      PROVE  CountsModulo'
  BY <1>1, <1>5
     DEF CallJoin, Lock, OtherWaits, Wait, WokenRelocks, Relock,
         ReturnFromJoin, Unlock, WakesSpuriously, SpuriousWake, history
<1>6. CASE UNCHANGED vars
  BY <1>1, <1>6 DEF vars
<1> QED
  BY <1>3, <1>4, <1>5, <1>6 DEF Next, Step, AllRoundsOver

LEMMA CounterCountsCallsHolds ==
    LockInv /\ CountsModulo => CounterCountsCalls
<1> SUFFICES ASSUME LockInv, CountsModulo, bar.lock = NoThread
             PROVE  bar.joined = Cardinality(CountedCalls) % numThreads
  BY DEF CounterCountsCalls
<1>1. bar.joined \in 0 .. numThreads - 1
  BY NumThreadsType, BarrierAssumption
     DEF LockInv, TypeOK, Barriers, MutexHeld, LastIsThere
<1>2. PICK rounds \in Nat :
        Cardinality(CountedCalls) = rounds * numThreads + bar.joined
  BY DEF CountsModulo
<1>3. ASSUME NEW n \in Nat \ {0}, NEW k \in Nat, NEW r \in 0 .. n - 1
      PROVE  (k * n + r) % n = r
  BY <1>3
<1> QED
  BY <1>1, <1>2, <1>3, NumThreadsType

\* Even with spurious wakeups, _joined is the number of calls counted since
\* the last complete round whenever the mutex is free: increments and resets
\* are never lost (HarnessBarrier.hpp:25).
THEOREM CounterIsRight == Spec => []CounterCountsCalls
<1>1. LockInv /\ LockInv' /\ CountsModulo /\ [Next]_vars => CountsModulo'
  BY CountsModuloStep
<1> QED
  BY <1>1, CountsModuloInit, CounterCountsCallsHolds, MutexProtects, PTL
     DEF Spec

-----------------------------------------------------------------------------
(* What the condition variable adds, when it wakes only on a broadcast. *)

LEMMA CountedFinite ==
    /\ IsFiniteSet(Counted)
    /\ Cardinality(Counted) \in Nat
    /\ Cardinality(Counted) = numThreads => Counted = Threads
<1> Counted \in SUBSET Threads
  BY DEF Counted
<1> QED
  BY BarrierAssumption, FS_Subset, FS_CardinalityType DEF numThreads

LEMMA IInvInit == Init => IInv
<1> SUFFICES ASSUME Init PROVE IInv
  OBVIOUS
<1>1. Counted = {}
  BY DEF Init, Counted
<1>2. JoinedCounts /\ CountedAreAhead
  BY <1>1, FS_EmptySet DEF Init, New, JoinedCounts, CountedAreAhead
<1> QED
  BY <1>2, LockInvInit DEF IInv

LEMMA IInvStep ==
    ASSUME SpuriousWakeups = FALSE, IInv, [Next]_vars
    PROVE  IInv'
<1>1. LockInv'
  BY LockInvStep DEF IInv
<1> USE DEF IInv, LockInv, TypeOK, Barriers
<1>2. ASSUME Counted' = Counted, UNCHANGED <<bar.joined, arrivals>>
      PROVE  JoinedCounts' /\ CountedAreAhead'
  BY <1>2 DEF JoinedCounts, CountedAreAhead
<1>3. ASSUME NEW t \in Threads, CallJoin(t) PROVE IInv'
  <2>1. Counted' = Counted
    BY <1>3 DEF CallJoin, Lock, Counted
  <2> QED
    BY <1>1, <1>2, <1>3, <2>1 DEF CallJoin, Lock, history
<1>4. ASSUME NEW t \in Threads, CountIn(t) PROVE IInv'
  <2> USE <1>4 DEF CountIn, Count
  <2>1. t \notin Counted /\ Counted' = Counted \cup {t}
    BY DEF Counted
  <2>2. JoinedCounts'
    <3>1. Cardinality(Counted \cup {t}) = Cardinality(Counted) + 1
      BY <2>1, CountedFinite, FS_AddElement
    <3> QED
      BY <2>1, <3>1 DEF JoinedCounts
  <2>3. CountedAreAhead'
    BY <2>1 DEF CountedAreAhead
  <2> QED
    BY <1>1, <2>2, <2>3
<1>5. ASSUME NEW t \in Threads, LastBroadcasts(t) PROVE IInv'
  <2> USE <1>5 DEF LastBroadcasts, Broadcast
  <2>1. Counted = Threads
    BY CountedFinite DEF JoinedCounts
  <2>2. Counted' = {}
    BY <2>1 DEF Counted, MutexHeld, WaitersAreWaiting
  <2>3. JoinedCounts'
    BY <2>2, FS_EmptySet DEF JoinedCounts
  <2>4. CountedAreAhead'
    BY <2>1, <2>2 DEF CountedAreAhead, history
  <2> QED
    BY <1>1, <2>3, <2>4
<1>6. ASSUME NEW t \in Threads, OtherWaits(t) PROVE IInv'
  <2>1. Counted' = Counted
    BY <1>6 DEF OtherWaits, Wait, Counted
  <2> QED
    BY <1>1, <1>2, <1>6, <2>1 DEF OtherWaits, Wait, history
<1>7. ASSUME NEW t \in Threads, WokenRelocks(t) PROVE IInv'
  <2>1. Counted' = Counted
    BY <1>7 DEF WokenRelocks, Relock, Counted
  <2> QED
    BY <1>1, <1>2, <1>7, <2>1 DEF WokenRelocks, Relock, history
<1>8. ASSUME NEW t \in Threads, ReturnFromJoin(t) PROVE IInv'
  <2>1. Counted' = Counted
    BY <1>8 DEF ReturnFromJoin, Unlock, Counted
  <2> QED
    BY <1>1, <1>2, <1>8, <2>1 DEF ReturnFromJoin, Unlock
<1>9. CASE UNCHANGED vars
  BY <1>1, <1>2, <1>9 DEF vars, Counted
<1>10. ASSUME NEW t \in Threads PROVE ~ WakesSpuriously(t)
  BY DEF WakesSpuriously, SpuriousWake
<1> QED
  BY <1>3, <1>4, <1>5, <1>6, <1>7, <1>8, <1>9, <1>10
     DEF Next, Step, AllRoundsOver

\* The inductive invariant of the barrier.
THEOREM RoundsInvariant ==
    ASSUME SpuriousWakeups = FALSE
    PROVE  Spec => []IInv
<1>1. IInv /\ [Next]_vars => IInv'
  BY IInvStep
<1> QED
  BY <1>1, IInvInit, PTL DEF Spec

-----------------------------------------------------------------------------
(* What the users of the barrier rely on. *)

LEMMA RoundSafetyHolds == IInv => RoundSafety
<1> SUFFICES ASSUME IInv, NEW t \in Threads, NEW u \in Threads
             PROVE  departures[t] <= arrivals[u]
  BY DEF RoundSafety
<1> QED
  BY DEF IInv, LockInv, TypeOK, CountedAreAhead, DeparturesFollow, Counted,
         Places

LEMMA NobodyStrandedHolds == IInv => NobodyStranded
<1> SUFFICES ASSUME IInv, NEW t \in bar.cond,
                    \A u \in Threads : at[u] # "test"
             PROVE  \E u \in Threads : arrivals[u] < arrivals[t]
  BY DEF NobodyStranded
<1> USE DEF IInv, LockInv, TypeOK, Barriers
<1>1. t \in Threads /\ t \in Counted
  BY DEF WaitersAreWaiting, Counted
<1>2. Counted # Threads
  BY NumThreadsType DEF LastIsThere, JoinedCounts, numThreads
<1>3. PICK u \in Threads : u \notin Counted
  BY <1>2 DEF Counted
<1>4. arrivals[t] = arrivals[u] + 1
  BY <1>1, <1>3 DEF CountedAreAhead
<1> QED
  BY <1>1, <1>3, <1>4

LEMMA NeverTwoAheadHolds == IInv => NeverTwoAhead
<1> SUFFICES ASSUME IInv, NEW t \in Threads, NEW u \in Threads
             PROVE  arrivals[t] <= departures[u] + 2
  BY DEF NeverTwoAhead
<1> QED
  BY DEF IInv, LockInv, TypeOK, CountedAreAhead, DeparturesFollow

\* No thread returns from a round of Join before every thread has arrived in
\* it (HarnessBarrier.hpp:23), as long as pthread_cond_wait returns only on a
\* broadcast.
THEOREM RoundsAreSafe ==
    ASSUME SpuriousWakeups = FALSE
    PROVE  Spec => []RoundSafety
BY RoundsInvariant, RoundSafetyHolds, PTL

\* No wakeup is lost: a waiter always has somebody to wait for
\* (HarnessBarrier.hpp:30).
THEOREM NoLostWakeup ==
    ASSUME SpuriousWakeups = FALSE
    PROVE  Spec => []NobodyStranded
BY RoundsInvariant, NobodyStrandedHolds, PTL

\* The counter is never shared by two rounds (HarnessBarrier.hpp:27).
THEOREM RoundsDoNotOverlap ==
    ASSUME SpuriousWakeups = FALSE
    PROVE  Spec => []NeverTwoAhead
BY RoundsInvariant, NeverTwoAheadHolds, PTL

-----------------------------------------------------------------------------
(* The barrier implements CyclicBarrier. *)

LEMMA InitRefines == Init => Abstract!Init
BY DEF Init, Abstract!Init

LEMMA StepRefines ==
    ASSUME SpuriousWakeups = FALSE, IInv, [Next]_vars
    PROVE  [Abstract!Next]_Abstract!abstractVars
<1> USE DEF IInv, LockInv, TypeOK
<1>1. ASSUME NEW t \in Threads, CountIn(t) PROVE Abstract!Arrive(t)
  <2>1. arrivals[t] = departures[t]
    BY <1>1 DEF CountIn, Count, DeparturesFollow
  <2>2. arrivals[t] < MaxRounds
    BY <1>1, RoundsAssumption DEF CountIn, Count, ArrivalsBounded
  <2> QED
    BY <1>1, <2>1, <2>2 DEF CountIn, Abstract!Arrive
<1>2. ASSUME NEW t \in Threads, ReturnFromJoin(t) PROVE Abstract!Depart(t)
  <2>1. at[t] = "unlock" /\ t \notin Counted
    BY <1>2 DEF ReturnFromJoin, Unlock, Counted
  <2>2. arrivals[t] = departures[t] + 1
    BY <2>1 DEF DeparturesFollow
  <2>3. \A u \in Threads : departures[t] < arrivals[u]
    BY <2>1, <2>2 DEF CountedAreAhead
  <2> QED
    BY <1>2, <2>2, <2>3 DEF ReturnFromJoin, Abstract!Depart
<1>3. ASSUME NEW t \in Threads,
             \/ CallJoin(t) \/ LastBroadcasts(t) \/ OtherWaits(t)
             \/ WokenRelocks(t) \/ WakesSpuriously(t)
      PROVE  UNCHANGED Abstract!abstractVars
  BY <1>3 DEF CallJoin, LastBroadcasts, OtherWaits, WokenRelocks,
              WakesSpuriously, history, Abstract!abstractVars
<1>4. CASE UNCHANGED vars
  BY <1>4 DEF vars, Abstract!abstractVars
<1> QED
  BY <1>1, <1>2, <1>3, <1>4 DEF Next, Step, AllRoundsOver, Abstract!Next

\* Join, built from a mutex and a condition variable, is a cyclic barrier: its
\* calls fall into rounds that nobody leaves before everybody has arrived
\* (HarnessBarrier.hpp:23).
THEOREM BarrierImplementsCyclicBarrier ==
    ASSUME SpuriousWakeups = FALSE
    PROVE  Spec => Refinement
<1>1. IInv /\ [Next]_vars => [Abstract!Next]_Abstract!abstractVars
  BY StepRefines
<1> QED
  BY <1>1, InitRefines, RoundsInvariant, PTL DEF Spec, Refinement, Abstract!Spec
=============================================================================
