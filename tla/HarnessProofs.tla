---------------------------- MODULE HarnessProofs ----------------------------
(***************************************************************************)
(* Proofs about a benchmark run, for any number of threads, every command  *)
(* line and all three kinds of client.                                     *)
(*                                                                         *)
(* First the run: who is where in the barriers, what main and the alarm    *)
(* do.  Then the counts: what the total tells isDone, how many calls are   *)
(* made too late or are missing, and what the measured time covers; except *)
(* for the first call, they hold whatever the waits in the barriers do.    *)
(***************************************************************************)
EXTENDS HarnessAudit, FiniteSetTheorems, TLAPS

\* Each instance of HarnessBarrier has definitions of its own.
LEMMA InstancesAgree ==
    /\ Start!numThreads = Cardinality(Threads)
    /\ Run!numThreads = Cardinality(Threads)
    /\ End!numThreads = Cardinality(Threads)
BY DEF Start!numThreads, Run!numThreads, End!numThreads,
       Start!Cardinality, Run!Cardinality, End!Cardinality, Cardinality

LEMMA ThreadsFinite ==
    /\ IsFiniteSet(Threads)
    /\ Run!numThreads \in Nat
    /\ 0 \in Threads
<1>1. IsFiniteSet(Threads)
  BY HarnessAssumption, FS_Interval DEF Threads
<1>2. Run!numThreads \in Nat
  BY <1>1, InstancesAgree, FS_CardinalityType
<1>3. 0 \in Threads
  BY HarnessAssumption DEF Threads
<1> QED
  BY <1>1, <1>2, <1>3

-----------------------------------------------------------------------------
(***************************************************************************)
(* One barrier, as a value b, and the threads that are between the call of *)
(* its Join and the return, its users, at the places a.  All barriers      *)
(* share the variable at, so that what is said of one of them has to be    *)
(* said of its users only.                                                 *)
(***************************************************************************)
CountedIn(users, a) == {t \in users : a[t] \in {"test", "wait"}}

\* The mutex excludes, the waiters are those on the condition, the counter
\* counts those between the increment and the broadcast, and a full one has
\* its last thread still before the broadcast.
BarrierOK(b, users, a) ==
    /\ b \in Run!Barriers
    /\ \A t \in Threads :
        /\ b.lock = t <=> t \in users /\ a[t] \in {"count", "test", "unlock"}
        /\ t \in b.cond <=> t \in users /\ a[t] = "wait"
    /\ b.joined = Cardinality(CountedIn(users, a))
    /\ b.joined = Run!numThreads => \E t \in users : a[t] = "test"

\* The places after the broadcast of a round.
After == {"relock", "unlock"}

\* A step inside Join, on values.
JoinStep(t, b, a, b2, a2) ==
    \/ /\ a[t] = "out" /\ b.lock = NoThread
       /\ b2 = [b EXCEPT !.lock = t]
       /\ a2 = [a EXCEPT ![t] = "count"]
    \/ /\ a[t] = "count"
       /\ b2 = [b EXCEPT !.joined = @ + 1]
       /\ a2 = [a EXCEPT ![t] = "test"]
    \/ /\ a[t] = "test" /\ b.joined = Run!numThreads
       /\ b2 = [b EXCEPT !.joined = 0, !.cond = {}]
       /\ a2 = [u \in Threads |-> IF u = t THEN "unlock"
                                  ELSE IF u \in b.cond THEN "relock"
                                  ELSE a[u]]
    \/ /\ a[t] = "test" /\ b.joined # Run!numThreads
       /\ b2 = [b EXCEPT !.lock = NoThread, !.cond = @ \cup {t}]
       /\ a2 = [a EXCEPT ![t] = "wait"]
    \/ /\ a[t] = "relock" /\ b.lock = NoThread
       /\ b2 = [b EXCEPT !.lock = t]
       /\ a2 = [a EXCEPT ![t] = "unlock"]

LEMMA InsideIsJoinStep ==
    ASSUME NEW t \in Threads
    PROVE  /\ Start!Inside(t) => JoinStep(t, startBarrier, at,
                                          startBarrier', at')
           /\ Run!Inside(t) => JoinStep(t, runBarrier, at, runBarrier', at')
           /\ End!Inside(t) => JoinStep(t, endBarrier, at, endBarrier', at')
<1>1. Start!Inside(t) => JoinStep(t, startBarrier, at, startBarrier', at')
  BY InstancesAgree
     DEF JoinStep, Start!Inside, Start!Lock, Start!Count, Start!Broadcast,
         Start!Wait, Start!Relock
<1>2. Run!Inside(t) => JoinStep(t, runBarrier, at, runBarrier', at')
  BY DEF JoinStep, Run!Inside, Run!Lock, Run!Count, Run!Broadcast,
         Run!Wait, Run!Relock
<1>3. End!Inside(t) => JoinStep(t, endBarrier, at, endBarrier', at')
  BY InstancesAgree
     DEF JoinStep, End!Inside, End!Lock, End!Count, End!Broadcast,
         End!Wait, End!Relock
<1> QED
  BY <1>1, <1>2, <1>3

LEMMA NoThreadNoRound == Run!numThreads # 0
BY ThreadsFinite, InstancesAgree, FS_EmptySet

LEMMA CountedFinite ==
    ASSUME NEW users \in SUBSET Threads, NEW a
    PROVE  /\ IsFiniteSet(CountedIn(users, a))
           /\ Cardinality(CountedIn(users, a)) \in 0 .. Run!numThreads
           /\ Cardinality(CountedIn(users, a)) = Run!numThreads =>
                CountedIn(users, a) = Threads
<1>1. CountedIn(users, a) \in SUBSET Threads
  BY DEF CountedIn
<1>2. /\ IsFiniteSet(CountedIn(users, a))
      /\ Cardinality(CountedIn(users, a)) <= Cardinality(Threads)
      /\ Cardinality(CountedIn(users, a)) = Cardinality(Threads) =>
           CountedIn(users, a) = Threads
  BY <1>1, ThreadsFinite, FS_Subset
<1>3. Cardinality(CountedIn(users, a)) \in Nat
  BY <1>2, FS_CardinalityType
<1> QED
  BY <1>2, <1>3, ThreadsFinite, InstancesAgree

\* What others do outside the barrier is nothing to it.
LEMMA SameUsers ==
    ASSUME NEW b, NEW a, NEW a2,
           NEW users \in SUBSET Threads, NEW users2 \in SUBSET Threads,
           BarrierOK(b, users, a),
           \A t \in Threads :
               (IF t \in users THEN a[t] ELSE "out")
                   = (IF t \in users2 THEN a2[t] ELSE "out")
    PROVE  BarrierOK(b, users2, a2)
<1>1. CountedIn(users, a) = CountedIn(users2, a2)
  <2>1. ASSUME NEW t \in Threads
        PROVE  t \in CountedIn(users, a) <=> t \in CountedIn(users2, a2)
    BY <2>1 DEF CountedIn
  <2> QED
    BY <2>1 DEF CountedIn
<1>2. ASSUME NEW t \in Threads
      PROVE  /\ b.lock = t <=>
                  t \in users2 /\ a2[t] \in {"count", "test", "unlock"}
             /\ t \in b.cond <=> t \in users2 /\ a2[t] = "wait"
  BY <1>2 DEF BarrierOK
<1>3. ASSUME b.joined = Run!numThreads
      PROVE  \E t \in users2 : a2[t] = "test"
  BY <1>3 DEF BarrierOK
<1> QED
  BY <1>1, <1>2, <1>3 DEF BarrierOK

\* The mutex and the condition are used as they should, and the broadcast
\* finds all the threads of the program counted in.
LEMMA JoinKeepsBarrier ==
    ASSUME NEW b, NEW b2, NEW a \in [Threads -> Run!Places], NEW a2,
           NEW users \in SUBSET Threads, NEW t \in users,
           BarrierOK(b, users, a), JoinStep(t, b, a, b2, a2)
    PROVE  /\ BarrierOK(b2, users, a2)
           /\ a2 \in [Threads -> Run!Places]
           /\ \A u \in Threads : u \notin users => a2[u] = a[u]
           /\ \/ \A u \in Threads : a2[u] \in After <=> a[u] \in After
              \/ /\ users = Threads
                 /\ \A u \in Threads : a[u] \notin After /\ a2[u] \in After
<1> USE DEF Run!Places, Run!Barriers
<1> USE ThreadsFinite, NoThreadNoRound, HarnessAssumption
<1> DEFINE counted == CountedIn(users, a)
<1>0. /\ t \in Threads
      /\ b.joined = Cardinality(counted)
      /\ IsFiniteSet(counted)
      /\ b \in Run!Barriers
  BY CountedFinite DEF BarrierOK
<1>1. CASE a[t] = "out" /\ b.lock = NoThread
           /\ b2 = [b EXCEPT !.lock = t] /\ a2 = [a EXCEPT ![t] = "count"]
  <2>1. CountedIn(users, a2) = counted
    BY <1>1 DEF CountedIn
  <2> QED
    BY <1>0, <1>1, <2>1 DEF BarrierOK, After
<1>2. CASE a[t] = "count"
           /\ b2 = [b EXCEPT !.joined = @ + 1] /\ a2 = [a EXCEPT ![t] = "test"]
  <2>1. CountedIn(users, a2) = counted \cup {t} /\ t \notin counted
    BY <1>2 DEF CountedIn
  <2>2. Cardinality(CountedIn(users, a2)) = Cardinality(counted) + 1
    BY <1>0, <2>1, FS_AddElement
  <2>3. Cardinality(CountedIn(users, a2)) \in 0 .. Run!numThreads
    BY CountedFinite
  <2> QED
    BY <1>0, <1>2, <2>2, <2>3 DEF BarrierOK, After
<1>3. CASE a[t] = "test" /\ b.joined = Run!numThreads
           /\ b2 = [b EXCEPT !.joined = 0, !.cond = {}]
           /\ a2 = [u \in Threads |-> IF u = t THEN "unlock"
                                      ELSE IF u \in b.cond THEN "relock"
                                      ELSE a[u]]
  <2>1. counted = Threads
    BY <1>0, <1>3, CountedFinite
  <2>2. users = Threads /\ \A u \in Threads : a[u] \in {"test", "wait"}
    BY <2>1 DEF CountedIn
  <2>3. \A u \in Threads : u # t => a[u] = "wait" /\ u \in b.cond
    BY <1>0, <1>3, <2>2 DEF BarrierOK
  <2>4. CountedIn(users, a2) = {}
    BY <1>3, <2>3, <2>2 DEF CountedIn
  <2>5. Cardinality(CountedIn(users, a2)) = 0
    BY <2>4, FS_EmptySet
  <2>a. b2 = [joined |-> 0, lock |-> b.lock, cond |-> {}]
    BY <1>0, <1>3
  <2>6. b2 \in Run!Barriers /\ a2 \in [Threads -> Run!Places]
    BY <1>0, <1>3, <2>a
  <2>7. ASSUME NEW u \in Threads
        PROVE  /\ b2.lock = u <=>
                    u \in users /\ a2[u] \in {"count", "test", "unlock"}
               /\ u \in b2.cond <=> u \in users /\ a2[u] = "wait"
    BY <1>0, <1>3, <2>2, <2>3, <2>7 DEF BarrierOK
  <2>8. BarrierOK(b2, users, a2)
    BY <1>3, <2>5, <2>6, <2>7 DEF BarrierOK
  <2> QED
    BY <1>3, <2>2, <2>3, <2>6, <2>8 DEF After
<1>4. CASE a[t] = "test" /\ b.joined # Run!numThreads
           /\ b2 = [b EXCEPT !.lock = NoThread, !.cond = @ \cup {t}]
           /\ a2 = [a EXCEPT ![t] = "wait"]
  <2>1. CountedIn(users, a2) = counted
    BY <1>4 DEF CountedIn
  <2>2. b2 \in Run!Barriers /\ a2 \in [Threads -> Run!Places]
    BY <1>0, <1>4
  <2>3. ASSUME NEW u \in Threads
        PROVE  /\ b2.lock = u <=>
                    u \in users /\ a2[u] \in {"count", "test", "unlock"}
               /\ u \in b2.cond <=> u \in users /\ a2[u] = "wait"
    BY <1>0, <1>4, <2>3 DEF BarrierOK
  <2> QED
    BY <1>0, <1>4, <2>1, <2>2, <2>3 DEF BarrierOK, After
<1>5. CASE a[t] = "relock" /\ b.lock = NoThread
           /\ b2 = [b EXCEPT !.lock = t] /\ a2 = [a EXCEPT ![t] = "unlock"]
  <2>1. CountedIn(users, a2) = counted
    BY <1>5 DEF CountedIn
  <2> QED
    BY <1>0, <1>5, <2>1 DEF BarrierOK, After
<1> QED
  BY <1>1, <1>2, <1>3, <1>4, <1>5 DEF JoinStep

\* Returning from Join: the thread is a user of the barrier no more.
LEMMA UnlockKeepsBarrier ==
    ASSUME NEW b, NEW a \in [Threads -> Run!Places],
           NEW users \in SUBSET Threads, NEW t \in users,
           BarrierOK(b, users, a), a[t] = "unlock"
    PROVE  BarrierOK([b EXCEPT !.lock = NoThread], users \ {t},
                     [a EXCEPT ![t] = "out"])
<1> DEFINE b2 == [b EXCEPT !.lock = NoThread]
           a2 == [a EXCEPT ![t] = "out"]
<1>1. CountedIn(users \ {t}, a2) = CountedIn(users, a)
  BY DEF CountedIn
<1>2. b2 \in Run!Barriers /\ b2.joined = b.joined
  BY DEF BarrierOK, Run!Barriers
<1>3. ASSUME NEW u \in Threads
      PROVE  /\ b2.lock = u <=> u \in users \ {t}
                                /\ a2[u] \in {"count", "test", "unlock"}
             /\ u \in b2.cond <=> u \in users \ {t} /\ a2[u] = "wait"
  BY <1>3, HarnessAssumption DEF BarrierOK, Run!Barriers
<1> QED
  BY <1>1, <1>2, <1>3 DEF BarrierOK

-----------------------------------------------------------------------------
(***************************************************************************)
(* The inductive invariant of the threads and the three barriers.          *)
(***************************************************************************)
StartUsers == {t \in Threads : pc[t] = "start"}
RunUsers == {t \in Threads : pc[t] = "run" \/ (pc[t] = "end" /\ ~ OwnThreads)}
EndUsers == {t \in Threads : pc[t] = "end" /\ OwnThreads}

ThreadTypes ==
    /\ pc \in [Threads -> ThreadPlaces]
    /\ at \in [Threads -> Run!Places]

Joining ==
    /\ BarrierOK(startBarrier, StartUsers, at)
    /\ BarrierOK(runBarrier, RunUsers, at)
    /\ BarrierOK(endBarrier, EndUsers, at)
    /\ \A t \in Threads : pc[t] \notin {"start", "run", "end"} => at[t] = "out"

\* The three rounds: one of the start barrier, one of the run barrier, and
\* a last one of either the run barrier or the end barrier.
PassedStart(t) == /\ pc[t] \notin {"none", "missing"}
                  /\ pc[t] = "start" => at[t] \in After
PassedRun(t) == \/ pc[t] \in {"loop", "op", "count", "end", "done"}
                \/ pc[t] = "run" /\ at[t] \in After
PassedEnd(t) == \/ pc[t] = "done"
                \/ pc[t] = "end" /\ at[t] \in After

\* All threads get through a round, or none.
Rounds ==
    \A t, u \in Threads :
        /\ PassedStart(t) => PassedStart(u)
        /\ PassedRun(t) => PassedRun(u)
        /\ PassedEnd(t) => PassedEnd(u)

ThreadInv == ThreadTypes /\ Joining /\ Rounds

LEMMA ThreadInvInit == Init => ThreadInv
<1> SUFFICES ASSUME Init PROVE ThreadInv
  OBVIOUS
<1> USE DEF Init, Start!New, Run!New, End!New
<1>1. ThreadTypes
  BY DEF ThreadTypes, ThreadPlaces, Run!Places
<1>2. /\ CountedIn(StartUsers, at) = {}
      /\ CountedIn(RunUsers, at) = {}
      /\ CountedIn(EndUsers, at) = {}
  BY DEF CountedIn, StartUsers, RunUsers, EndUsers
<1>3. Joining
  <2>1. Cardinality({}) = 0
    BY FS_EmptySet
  <2>2. [joined |-> 0, lock |-> NoThread, cond |-> {}] \in Run!Barriers
    BY ThreadsFinite DEF Run!Barriers
  <2>3. /\ BarrierOK(startBarrier, StartUsers, at)
        /\ BarrierOK(runBarrier, RunUsers, at)
        /\ BarrierOK(endBarrier, EndUsers, at)
    BY <1>2, <2>1, <2>2, NoThreadNoRound, HarnessAssumption
       DEF BarrierOK, StartUsers, RunUsers, EndUsers
  <2> QED
    BY <2>3 DEF Joining
<1>4. Rounds
  BY DEF Rounds, PassedStart, PassedRun, PassedEnd
<1> QED
  BY <1>1, <1>3, <1>4 DEF ThreadInv

\* A step of a thread that is in no barrier, or its creation.
Moves(t) ==
    /\ \/ pc[t] = "none" /\ \E place \in {"start", "missing"} : Goto(t, place)
       \/ pc[t] = "timing" /\ Goto(t, "run")
       \/ /\ pc[t] \in Measuring
          /\ \E place \in Measuring \cup {"end"} : Goto(t, place)
    /\ UNCHANGED barrierVars

LEMMA MovesKeep ==
    ASSUME ThreadInv, NEW t \in Threads, Moves(t), UNCHANGED client
    PROVE  ThreadInv'
<1> USE DEF ThreadInv, ThreadTypes, ThreadPlaces, Moves, Goto, Measuring,
            barrierVars
<1>1. ThreadTypes'
  OBVIOUS
<1>2. pc[t] \notin {"start", "run", "end"} /\ at[t] = "out"
  BY DEF Joining
<1>3. Joining'
  <2>1. BarrierOK(startBarrier, StartUsers', at)
    BY <1>2, SameUsers DEF Joining, StartUsers
  <2>2. BarrierOK(runBarrier, RunUsers', at)
    BY <1>2, SameUsers DEF Joining, RunUsers, OwnThreads
  <2>3. BarrierOK(endBarrier, EndUsers', at)
    BY <1>2, SameUsers DEF Joining, EndUsers, OwnThreads
  <2>4. \A u \in Threads : pc'[u] \notin {"start", "run", "end"} =>
                                at[u] = "out"
    BY <1>2 DEF Joining
  <2> QED
    BY <2>1, <2>2, <2>3, <2>4 DEF Joining
<1>4. Rounds'
  <2>1. ASSUME NEW u \in Threads
        PROVE  /\ PassedStart(u)' <=> PassedStart(u)
               /\ PassedRun(u)' <=> PassedRun(u)
               /\ PassedEnd(u)' <=> PassedEnd(u)
    BY <1>2, <2>1 DEF PassedStart, PassedRun, PassedEnd, After
  <2> QED
    BY <2>1 DEF Rounds
<1> QED
  BY <1>1, <1>3, <1>4

\* A step inside one of the three barriers.
JoinsStart(t) ==
    /\ pc[t] = "start" /\ JoinStep(t, startBarrier, at, startBarrier', at')
    /\ UNCHANGED <<pc, runBarrier, endBarrier>>
JoinsRun(t) ==
    /\ t \in RunUsers /\ JoinStep(t, runBarrier, at, runBarrier', at')
    /\ UNCHANGED <<pc, startBarrier, endBarrier>>
JoinsEnd(t) ==
    /\ t \in EndUsers /\ JoinStep(t, endBarrier, at, endBarrier', at')
    /\ UNCHANGED <<pc, startBarrier, runBarrier>>

LEMMA JoinsStartKeeps ==
    ASSUME ThreadInv, NEW t \in Threads, JoinsStart(t), UNCHANGED client
    PROVE  ThreadInv'
<1> USE DEF ThreadInv, ThreadTypes, JoinsStart
<1>1. /\ BarrierOK(startBarrier', StartUsers, at')
      /\ at' \in [Threads -> Run!Places]
      /\ \A u \in Threads : u \notin StartUsers => at'[u] = at[u]
      /\ \/ \A u \in Threads : at'[u] \in After <=> at[u] \in After
         \/ /\ StartUsers = Threads
            /\ \A u \in Threads : at[u] \notin After /\ at'[u] \in After
  <2>1. t \in StartUsers /\ StartUsers \in SUBSET Threads
    BY DEF StartUsers
  <2> QED
    BY <2>1, JoinKeepsBarrier DEF Joining
<1>2. Joining'
  <2>1. StartUsers' = StartUsers /\ RunUsers' = RunUsers /\ EndUsers' = EndUsers
    BY DEF StartUsers, RunUsers, EndUsers, OwnThreads
  <2>2. BarrierOK(runBarrier, RunUsers, at')
    BY <1>1, SameUsers DEF Joining, StartUsers, RunUsers
  <2>3. BarrierOK(endBarrier, EndUsers, at')
    BY <1>1, SameUsers DEF Joining, StartUsers, EndUsers
  <2> QED
    BY <1>1, <2>1, <2>2, <2>3 DEF Joining, StartUsers
<1>3. Rounds'
  <2>1. CASE \A u \in Threads : at'[u] \in After <=> at[u] \in After
    BY <2>1 DEF Rounds, PassedStart, PassedRun, PassedEnd
  <2>2. CASE /\ StartUsers = Threads
             /\ \A u \in Threads : at[u] \notin After /\ at'[u] \in After
    BY <2>2 DEF Rounds, PassedStart, PassedRun, PassedEnd, StartUsers
  <2> QED
    BY <1>1, <2>1, <2>2
<1> QED
  BY <1>1, <1>2, <1>3

LEMMA JoinsRunKeeps ==
    ASSUME ThreadInv, NEW t \in Threads, JoinsRun(t), UNCHANGED client
    PROVE  ThreadInv'
<1> USE DEF ThreadInv, ThreadTypes, JoinsRun
<1>1. /\ BarrierOK(runBarrier', RunUsers, at')
      /\ at' \in [Threads -> Run!Places]
      /\ \A u \in Threads : u \notin RunUsers => at'[u] = at[u]
      /\ \/ \A u \in Threads : at'[u] \in After <=> at[u] \in After
         \/ /\ RunUsers = Threads
            /\ \A u \in Threads : at[u] \notin After /\ at'[u] \in After
  <2>1. RunUsers \in SUBSET Threads
    BY DEF RunUsers
  <2> QED
    BY <2>1, JoinKeepsBarrier DEF Joining
<1>2. Joining'
  <2>1. StartUsers' = StartUsers /\ RunUsers' = RunUsers /\ EndUsers' = EndUsers
    BY DEF StartUsers, RunUsers, EndUsers, OwnThreads
  <2>2. BarrierOK(startBarrier, StartUsers, at')
    BY <1>1, SameUsers DEF Joining, StartUsers, RunUsers
  <2>3. BarrierOK(endBarrier, EndUsers, at')
    BY <1>1, SameUsers DEF Joining, RunUsers, EndUsers
  <2> QED
    BY <1>1, <2>1, <2>2, <2>3 DEF Joining, RunUsers
<1>3. Rounds'
  <2>1. CASE \A u \in Threads : at'[u] \in After <=> at[u] \in After
    BY <2>1 DEF Rounds, PassedStart, PassedRun, PassedEnd
  <2>2. CASE /\ RunUsers = Threads
             /\ \A u \in Threads : at[u] \notin After /\ at'[u] \in After
    \* The threads are all at their first use of the barrier, or all at
    \* their last.
    <3>1. \/ \A u \in Threads : pc[u] = "run"
          \/ \A u \in Threads : pc[u] = "end"
      BY <2>2 DEF Rounds, PassedRun, RunUsers
    <3> QED
      BY <2>2, <3>1 DEF Rounds, PassedStart, PassedRun, PassedEnd
  <2> QED
    BY <1>1, <2>1, <2>2
<1> QED
  BY <1>1, <1>2, <1>3

LEMMA JoinsEndKeeps ==
    ASSUME ThreadInv, NEW t \in Threads, JoinsEnd(t), UNCHANGED client
    PROVE  ThreadInv'
<1> USE DEF ThreadInv, ThreadTypes, JoinsEnd
<1>1. /\ BarrierOK(endBarrier', EndUsers, at')
      /\ at' \in [Threads -> Run!Places]
      /\ \A u \in Threads : u \notin EndUsers => at'[u] = at[u]
      /\ \/ \A u \in Threads : at'[u] \in After <=> at[u] \in After
         \/ /\ EndUsers = Threads
            /\ \A u \in Threads : at[u] \notin After /\ at'[u] \in After
  <2>1. EndUsers \in SUBSET Threads
    BY DEF EndUsers
  <2> QED
    BY <2>1, JoinKeepsBarrier, SMTT(30) DEF Joining
<1>2. Joining'
  <2>1. StartUsers' = StartUsers /\ RunUsers' = RunUsers /\ EndUsers' = EndUsers
    BY DEF StartUsers, RunUsers, EndUsers, OwnThreads
  <2>2. BarrierOK(startBarrier, StartUsers, at')
    BY <1>1, SameUsers DEF Joining, StartUsers, EndUsers
  <2>3. BarrierOK(runBarrier, RunUsers, at')
    BY <1>1, SameUsers DEF Joining, RunUsers, EndUsers
  <2> QED
    BY <1>1, <2>1, <2>2, <2>3 DEF Joining, EndUsers
<1>3. Rounds'
  <2>1. CASE \A u \in Threads : at'[u] \in After <=> at[u] \in After
    BY <2>1 DEF Rounds, PassedStart, PassedRun, PassedEnd
  <2>2. CASE /\ EndUsers = Threads
             /\ \A u \in Threads : at[u] \notin After /\ at'[u] \in After
    BY <2>2 DEF Rounds, PassedStart, PassedRun, PassedEnd, EndUsers
  <2> QED
    BY <1>1, <2>1, <2>2
<1> QED
  BY <1>1, <1>2, <1>3

\* The return from Join.
LeavesStart(t) ==
    /\ pc[t] = "start" /\ \E place \in {"timing", "run"} : Goto(t, place)
    /\ at[t] = "unlock" /\ at' = [at EXCEPT ![t] = "out"]
    /\ startBarrier' = [startBarrier EXCEPT !.lock = NoThread]
    /\ UNCHANGED <<runBarrier, endBarrier>>
LeavesRun(t) ==
    /\ t \in RunUsers
    /\ Goto(t, IF pc[t] = "run" THEN "loop" ELSE "done")
    /\ at[t] = "unlock" /\ at' = [at EXCEPT ![t] = "out"]
    /\ runBarrier' = [runBarrier EXCEPT !.lock = NoThread]
    /\ UNCHANGED <<startBarrier, endBarrier>>
LeavesEnd(t) ==
    /\ t \in EndUsers /\ Goto(t, "done")
    /\ at[t] = "unlock" /\ at' = [at EXCEPT ![t] = "out"]
    /\ endBarrier' = [endBarrier EXCEPT !.lock = NoThread]
    /\ UNCHANGED <<startBarrier, runBarrier>>

LEMMA LeavesStartKeeps ==
    ASSUME ThreadInv, NEW t \in Threads, LeavesStart(t), UNCHANGED client
    PROVE  ThreadInv'
<1> USE DEF ThreadInv, ThreadTypes, LeavesStart, Goto
<1>1. ThreadTypes'
  BY DEF ThreadPlaces, Run!Places
<1>2. Joining'
  <2>1. StartUsers' = StartUsers \ {t}
    BY DEF StartUsers
  <2>2. BarrierOK(startBarrier', StartUsers', at')
    <3>1. StartUsers \in SUBSET Threads /\ t \in StartUsers
      BY DEF StartUsers
    <3>2. BarrierOK(startBarrier, StartUsers, at)
      BY DEF Joining
    <3>3. BarrierOK([startBarrier EXCEPT !.lock = NoThread], StartUsers \ {t},
                    [at EXCEPT ![t] = "out"])
      BY <3>1, <3>2, UnlockKeepsBarrier
    <3> QED
      BY <2>1, <3>3
  <2>3. BarrierOK(runBarrier, RunUsers', at')
    <3>1. RunUsers \in SUBSET Threads /\ RunUsers' \in SUBSET Threads
      BY DEF RunUsers
    <3>2. \A u \in Threads : (IF u \in RunUsers THEN at[u] ELSE "out")
                              = (IF u \in RunUsers' THEN at'[u] ELSE "out")
      BY DEF RunUsers, OwnThreads
    <3>3. BarrierOK(runBarrier, RunUsers, at)
      BY DEF Joining
    <3> QED
      BY <3>1, <3>2, <3>3, SameUsers
  <2>4. BarrierOK(endBarrier, EndUsers', at')
    <3>1. EndUsers \in SUBSET Threads /\ EndUsers' \in SUBSET Threads
      BY DEF EndUsers
    <3>2. \A u \in Threads : (IF u \in EndUsers THEN at[u] ELSE "out")
                              = (IF u \in EndUsers' THEN at'[u] ELSE "out")
      BY DEF EndUsers, OwnThreads
    <3>3. BarrierOK(endBarrier, EndUsers, at)
      BY DEF Joining
    <3> QED
      BY <3>1, <3>2, <3>3, SameUsers
  <2> QED
    BY <2>2, <2>3, <2>4 DEF Joining
<1>3. Rounds'
  BY DEF Rounds, PassedStart, PassedRun, PassedEnd, After
<1> QED
  BY <1>1, <1>2, <1>3

LEMMA LeavesRunKeeps ==
    ASSUME ThreadInv, NEW t \in Threads, LeavesRun(t), UNCHANGED client
    PROVE  ThreadInv'
<1> USE DEF ThreadInv, ThreadTypes, LeavesRun, Goto
<1>1. ThreadTypes'
  BY DEF ThreadPlaces, Run!Places
<1>2. Joining'
  <2>1. RunUsers' = RunUsers \ {t}
    BY DEF RunUsers, OwnThreads
  <2>2. BarrierOK(runBarrier', RunUsers', at')
    <3>1. RunUsers \in SUBSET Threads /\ t \in RunUsers
      BY DEF RunUsers
    <3>2. BarrierOK(runBarrier, RunUsers, at)
      BY DEF Joining
    <3>3. BarrierOK([runBarrier EXCEPT !.lock = NoThread], RunUsers \ {t},
                    [at EXCEPT ![t] = "out"])
      BY <3>1, <3>2, UnlockKeepsBarrier
    <3> QED
      BY <2>1, <3>3
  <2>3. BarrierOK(startBarrier, StartUsers', at')
    <3>1. StartUsers \in SUBSET Threads /\ StartUsers' \in SUBSET Threads
      BY DEF StartUsers
    <3>2. \A u \in Threads : (IF u \in StartUsers THEN at[u] ELSE "out")
                              = (IF u \in StartUsers' THEN at'[u] ELSE "out")
      BY DEF StartUsers, RunUsers
    <3>3. BarrierOK(startBarrier, StartUsers, at)
      BY DEF Joining
    <3> QED
      BY <3>1, <3>2, <3>3, SameUsers
  <2>4. BarrierOK(endBarrier, EndUsers', at')
    <3>1. EndUsers \in SUBSET Threads /\ EndUsers' \in SUBSET Threads
      BY DEF EndUsers
    <3>2. \A u \in Threads : (IF u \in EndUsers THEN at[u] ELSE "out")
                              = (IF u \in EndUsers' THEN at'[u] ELSE "out")
      BY DEF EndUsers, OwnThreads, RunUsers
    <3>3. BarrierOK(endBarrier, EndUsers, at)
      BY DEF Joining
    <3> QED
      BY <3>1, <3>2, <3>3, SameUsers
  <2> QED
    BY <2>2, <2>3, <2>4 DEF Joining, RunUsers
<1>3. Rounds'
  BY DEF Rounds, PassedStart, PassedRun, PassedEnd, After, RunUsers
<1> QED
  BY <1>1, <1>2, <1>3

LEMMA LeavesEndKeeps ==
    ASSUME ThreadInv, NEW t \in Threads, LeavesEnd(t), UNCHANGED client
    PROVE  ThreadInv'
<1> USE DEF ThreadInv, ThreadTypes, LeavesEnd, Goto
<1>1. ThreadTypes'
  BY DEF ThreadPlaces, Run!Places
<1>2. Joining'
  <2>1. EndUsers' = EndUsers \ {t}
    BY DEF EndUsers, OwnThreads
  <2>2. BarrierOK(endBarrier', EndUsers', at')
    <3>1. EndUsers \in SUBSET Threads /\ t \in EndUsers
      BY DEF EndUsers
    <3>2. BarrierOK(endBarrier, EndUsers, at)
      BY DEF Joining
    <3>3. BarrierOK([endBarrier EXCEPT !.lock = NoThread], EndUsers \ {t},
                    [at EXCEPT ![t] = "out"])
      BY <3>1, <3>2, UnlockKeepsBarrier
    <3> QED
      BY <2>1, <3>3
  <2>3. BarrierOK(startBarrier, StartUsers', at')
    <3>1. StartUsers \in SUBSET Threads /\ StartUsers' \in SUBSET Threads
      BY DEF StartUsers
    <3>2. \A u \in Threads : (IF u \in StartUsers THEN at[u] ELSE "out")
                              = (IF u \in StartUsers' THEN at'[u] ELSE "out")
      BY DEF StartUsers, EndUsers
    <3>3. BarrierOK(startBarrier, StartUsers, at)
      BY DEF Joining
    <3> QED
      BY <3>1, <3>2, <3>3, SameUsers
  <2>4. BarrierOK(runBarrier, RunUsers', at')
    <3>1. RunUsers \in SUBSET Threads /\ RunUsers' \in SUBSET Threads
      BY DEF RunUsers
    <3>2. \A u \in Threads : (IF u \in RunUsers THEN at[u] ELSE "out")
                              = (IF u \in RunUsers' THEN at'[u] ELSE "out")
      BY DEF RunUsers, EndUsers, OwnThreads
    <3>3. BarrierOK(runBarrier, RunUsers, at)
      BY DEF Joining
    <3> QED
      BY <3>1, <3>2, <3>3, SameUsers
  <2> QED
    BY <2>2, <2>3, <2>4 DEF Joining, EndUsers
<1>3. Rounds'
  BY DEF Rounds, PassedStart, PassedRun, PassedEnd, After, EndUsers
<1> QED
  BY <1>1, <1>2, <1>3

\* What a step of thread t does to the threads and the barriers.
ThreadStepKind(t) ==
    \/ UNCHANGED <<pc, barrierVars>>
    \/ Moves(t)
    \/ JoinsStart(t) \/ JoinsRun(t) \/ JoinsEnd(t)
    \/ LeavesStart(t) \/ LeavesRun(t) \/ LeavesEnd(t)

LEMMA ThreadStepKinds ==
    ASSUME NEW t \in Threads, Thread(t)
    PROVE  ThreadStepKind(t)
<1>1. CASE InsideStartBarrier(t)
  BY <1>1, InsideIsJoinStep DEF InsideStartBarrier, ThreadStepKind, JoinsStart
<1>2. CASE LeaveStartBarrier(t)
  BY <1>2 DEF LeaveStartBarrier, Start!Unlock, ThreadStepKind, LeavesStart, Goto
<1>3. CASE FirstThreadStartsTiming(t)
  BY <1>3 DEF FirstThreadStartsTiming, ThreadStepKind
<1>4. CASE FirstThreadSetsAlarm(t)
  BY <1>4 DEF FirstThreadSetsAlarm, ThreadStepKind, Moves
<1>5. CASE InsideRunBarrier(t)
  BY <1>5, InsideIsJoinStep
     DEF InsideRunBarrier, ThreadStepKind, JoinsRun, RunUsers
<1>6. CASE LeaveRunBarrier(t)
  BY <1>6 DEF LeaveRunBarrier, Run!Unlock, ThreadStepKind, LeavesRun, RunUsers
<1>7. CASE EnterCall(t)
  BY <1>7 DEF EnterCall, ThreadStepKind, Moves, Measuring
<1>8. CASE ReturnFromCall(t)
  BY <1>8 DEF ReturnFromCall, ThreadStepKind, Moves, Measuring
<1>9. CASE LeaveLoop(t)
  BY <1>9 DEF LeaveLoop, ThreadStepKind, Moves, Measuring, Goto
<1>10. CASE CompletedOperations(t)
  BY <1>10 DEF CompletedOperations, ThreadStepKind, Moves, Measuring, Goto
<1>11. CASE InsideLastBarrier(t)
  BY <1>11, InsideIsJoinStep
     DEF InsideLastBarrier, ThreadStepKind, JoinsRun, JoinsEnd, RunUsers, EndUsers
<1>12. CASE ReturnFromThread(t)
  BY <1>12 DEF ReturnFromThread, Run!Unlock, End!Unlock, ThreadStepKind,
               LeavesRun, LeavesEnd, RunUsers, EndUsers, Goto
<1> QED
  BY <1>1, <1>2, <1>3, <1>4, <1>5, <1>6, <1>7, <1>8, <1>9, <1>10, <1>11, <1>12
     DEF Thread

PcTypes == pc \in [Threads -> ThreadPlaces]

LEMMA OnlyItselfMoves ==
    ASSUME PcTypes, NEW t \in Threads, Thread(t)
    PROVE  \A u \in Threads : u # t => pc'[u] = pc[u]
<1>1. UNCHANGED pc \/ \E to : pc' = [pc EXCEPT ![t] = to]
  BY ThreadStepKinds
     DEF ThreadStepKind, Moves, JoinsStart, JoinsRun, JoinsEnd, LeavesStart,
         LeavesRun, LeavesEnd, Goto
<1> QED
  BY <1>1 DEF PcTypes

LEMMA ThreadStepKindKeeps ==
    ASSUME ThreadInv, NEW t \in Threads, ThreadStepKind(t), UNCHANGED client
    PROVE  ThreadInv'
<1>1. CASE UNCHANGED <<pc, barrierVars>>
  BY <1>1 DEF barrierVars, ThreadInv, ThreadTypes, Joining, BarrierOK, Rounds,
              StartUsers, RunUsers, EndUsers, OwnThreads, CountedIn,
              PassedStart, PassedRun, PassedEnd
<1> QED
  BY <1>1, MovesKeep, JoinsStartKeeps, JoinsRunKeeps, JoinsEndKeeps,
     LeavesStartKeeps, LeavesRunKeeps, LeavesEndKeeps DEF ThreadStepKind

LEMMA MainStepKinds ==
    ASSUME Main
    PROVE  \E t \in Threads : ThreadStepKind(t)
<1>1. CASE \E t \in Threads : StartThread(t)
  BY <1>1 DEF StartThread, ThreadStepKind, Moves
<1>2. CASE \/ MainStartsTiming \/ InitReturns \/ SuspendTiming
           \/ WaitForThreads \/ JoinMissingThread \/ StopTiming
           \/ PrintResults \/ ReturnFromMain
  BY <1>2, ThreadsFinite
     DEF MainStartsTiming, InitReturns, SuspendTiming, WaitForThreads,
         JoinMissingThread, StopTiming, PrintResults, ReturnFromMain,
         ThreadStepKind
<1> QED
  BY <1>1, <1>2 DEF Main

LEMMA ThreadInvStep == ThreadInv /\ [Next]_vars => ThreadInv'
<1> SUFFICES ASSUME ThreadInv, [Next]_vars PROVE ThreadInv'
  OBVIOUS
<1>1. UNCHANGED client /\ \E t \in Threads : ThreadStepKind(t)
  <2>1. CASE MainStep
    BY <2>1, MainStepKinds DEF MainStep, Live
  <2>2. CASE \E t \in Threads : ThreadStep(t)
    BY <2>2, ThreadStepKinds DEF ThreadStep, Live
  <2>3. CASE AlarmStep \/ (Live /\ GracefulExit) \/ Tick \/ UNCHANGED vars
    BY <2>3, ThreadsFinite
       DEF AlarmStep, AlarmExpires, StopSignal, KilledByAlarm, GracefulExit,
           Tick, Live, vars, ThreadStepKind
  <2> QED
    BY <2>1, <2>2, <2>3 DEF Next, ProcessOver
<1> QED
  BY <1>1, ThreadStepKindKeeps

\* All threads get through each of the three barriers, or none does: no
\* thread can pass one before all have been counted in it (GenericThread,
\* MicroBenchmarkHarness.hpp:281, 287 and 300).
THEOREM ThreadsMeetInBarriers == Spec => []ThreadInv
<1>1. Init => ThreadInv
  BY ThreadInvInit
<1>2. ThreadInv /\ [Next]_vars => ThreadInv'
  BY ThreadInvStep
<1> QED
  BY <1>1, <1>2, PTL DEF Spec

-----------------------------------------------------------------------------
(***************************************************************************)
(* Types.  The fields of the barriers, and the places of the threads, have *)
(* theirs from ThreadInv: the counter of a barrier stays in its range only *)
(* because the last thread of a round resets it.                           *)
(***************************************************************************)
OptionTypes == client \in Clients /\ opts \in CommandLines

ClockTypes ==
    /\ now \in 1 .. 1 + MaxSetup + MaxRun
    /\ startTime \in 1 .. now /\ stopTime \in 0 .. now
    /\ alarm \in 0 .. now + MaxRun

FlagTypes ==
    /\ finished \in BOOLEAN /\ timingIsSuspended \in BOOLEAN
    /\ handler \in {"default", "StopSignal"} /\ pending \in BOOLEAN
    /\ timing \in {"clock", "handler", "resume", "alarm"}
    /\ mainPc \in MainPlaces
    /\ outcome \in {"running", "exited", "killed", "interrupted", "crashed"}

CountTypes ==
    /\ threadOps \in [Threads -> 0 .. CounterModulus - 1]
    /\ operationsCompleted \in 0 .. TotalModulus - 1
    /\ report \in [printed : BOOLEAN, elapsed : Int, ops : Nat]

DataTypes == OptionTypes /\ ClockTypes /\ FlagTypes /\ CountTypes

LEMMA TypesTogether == DataTypes /\ ThreadInv => TypeOK
<1> SUFFICES ASSUME DataTypes, ThreadInv PROVE TypeOK
  OBVIOUS
<1>1. {startBarrier, runBarrier, endBarrier} \subseteq Run!Barriers
  BY DEF ThreadInv, Joining, BarrierOK
<1> QED
  BY <1>1 DEF DataTypes, OptionTypes, ClockTypes, FlagTypes, CountTypes,
              ThreadInv, ThreadTypes, TypeOK

LEMMA DataTypesInit == Init => DataTypes
<1> SUFFICES ASSUME Init PROVE DataTypes
  OBVIOUS
<1> USE HarnessAssumption DEF Init
<1>1. OptionTypes
  BY DEF OptionTypes
<1>2. ClockTypes
  BY DEF ClockTypes
<1>3. FlagTypes
  BY DEF FlagTypes, MainPlaces
<1>4. CountTypes
  BY DEF CountTypes, NothingPrinted
<1> QED
  BY <1>1, <1>2, <1>3, <1>4 DEF DataTypes

\* What the assumptions say of a command line.
LEMMA OptionFacts ==
    ASSUME OptionTypes
    PROVE  /\ opts.rt \in Int /\ opts.max \in Nat /\ opts.maxSet \in BOOLEAN
           /\ opts.rt <= MaxRun
           /\ opts.rt <= 0 \/ opts.max = 0
           /\ opts.max > 0 => opts.maxSet
           /\ ThreadCount \in Nat \ {0}
           /\ CounterModulus \in Nat \ {0, 1}
           /\ CastModulus \in Nat \ {0, 1}
           /\ TotalModulus \in Nat \ {0, 1}
           /\ MaxSetup \in Nat /\ MaxRun \in Nat
BY HarnessAssumption DEF OptionTypes, Accepted

LEMMA StartTimingTypes ==
    ASSUME DataTypes, BeforeTheAlarm \/ SetAlarm, UNCHANGED now
    PROVE  /\ ClockTypes'
           /\ (finished \in BOOLEAN /\ timingIsSuspended \in BOOLEAN)'
           /\ (handler \in {"default", "StopSignal"} /\ pending \in BOOLEAN)'
           /\ (timing \in {"clock", "handler", "resume", "alarm"})'
<1> USE OptionFacts DEF DataTypes, ClockTypes, FlagTypes, clockVars, signalVars
<1>1. CASE TakeStartTime
  BY <1>1 DEF TakeStartTime
<1>2. CASE InstallHandler
  BY <1>2 DEF InstallHandler
<1>3. CASE ResumeTiming
  BY <1>3 DEF ResumeTiming
<1>4. CASE SetAlarm
  BY <1>4 DEF SetAlarm
<1> QED
  BY <1>1, <1>2, <1>3, <1>4 DEF BeforeTheAlarm

LEMMA MainTypes == DataTypes /\ Live /\ Main => DataTypes'
<1> SUFFICES ASSUME DataTypes, Live, Main PROVE DataTypes'
  OBVIOUS
<1> USE DEF DataTypes, Live, clockVars, signalVars, timingVars, countVars
<1>0. OptionTypes'
  BY DEF OptionTypes
<1>1. CASE MainStartsTiming
  BY <1>0, <1>1, StartTimingTypes
     DEF MainStartsTiming, FlagTypes, CountTypes
<1>2. CASE InitReturns
  BY <1>0, <1>2, StartTimingTypes
     DEF InitReturns, FlagTypes, CountTypes, MainPlaces
<1>3. CASE SuspendTiming
  BY <1>0, <1>3
     DEF SuspendTiming, ClockTypes, FlagTypes, CountTypes, MainPlaces
<1>4. CASE \E t \in Threads : StartThread(t)
  BY <1>0, <1>4 DEF StartThread, ClockTypes, FlagTypes, CountTypes, MainPlaces
<1>5. CASE WaitForThreads
  BY <1>0, <1>5
     DEF WaitForThreads, ClockTypes, FlagTypes, CountTypes, MainPlaces
<1>6. CASE JoinMissingThread
  BY <1>0, <1>6 DEF JoinMissingThread, ClockTypes, FlagTypes, CountTypes
<1>7. CASE StopTiming
  BY <1>0, <1>7, OptionFacts
     DEF StopTiming, ClockTypes, FlagTypes, CountTypes, MainPlaces
<1>8. CASE PrintResults
  <2>1. ClockTypes'
    BY <1>8, OptionFacts DEF PrintResults, ClockTypes
  <2>2. FlagTypes'
    BY <1>8 DEF PrintResults, FlagTypes, MainPlaces
  <2>3. stopTime' - startTime \in Int /\ operationsCompleted \in Nat
    BY <1>8, <2>1, OptionFacts DEF PrintResults, ClockTypes, CountTypes
  <2>4. CountTypes'
    BY <1>8, <2>3 DEF PrintResults, CountTypes
  <2> QED
    BY <1>0, <2>1, <2>2, <2>4
<1>9. CASE ReturnFromMain
  BY <1>0, <1>9 DEF ReturnFromMain, ClockTypes, FlagTypes, CountTypes
<1> QED
  BY <1>1, <1>2, <1>3, <1>4, <1>5, <1>6, <1>7, <1>8, <1>9 DEF Main

LEMMA ThreadDataTypes ==
    ASSUME DataTypes, Live, NEW t \in Threads, Thread(t)
    PROVE  DataTypes'
<1> USE DEF DataTypes, Live, clockVars, signalVars, timingVars, countVars,
            mainVars
<1>0. OptionTypes'
  BY DEF OptionTypes
<1>1. CASE UNCHANGED <<mainVars, countVars>>
  BY <1>0, <1>1 DEF ClockTypes, FlagTypes, CountTypes
<1>2. CASE FirstThreadStartsTiming(t)
  BY <1>0, <1>2, StartTimingTypes
     DEF FirstThreadStartsTiming, FlagTypes, CountTypes
<1>3. CASE FirstThreadSetsAlarm(t)
  BY <1>0, <1>3, StartTimingTypes
     DEF FirstThreadSetsAlarm, FlagTypes, CountTypes
<1>4. CASE ReturnFromCall(t)
  <2>1. (threadOps[t] + 1) % CounterModulus \in 0 .. CounterModulus - 1
    BY OptionFacts DEF CountTypes
  <2>2. CountTypes'
    BY <1>4, <2>1 DEF ReturnFromCall, CountTypes
  <2> QED
    BY <1>0, <1>4, <2>2 DEF ReturnFromCall, ClockTypes, FlagTypes
<1>5. CASE CompletedOperations(t)
  <2> DEFINE dv == IF CountsEachCall THEN 1 ELSE threadOps[t]
  <2>1. operationsCompleted' = (operationsCompleted + dv) % TotalModulus
    BY <1>5 DEF CompletedOperations, atomic_exchange_and_add
  <2>2. operationsCompleted' \in 0 .. TotalModulus - 1
    <3>1. dv \in Nat
      BY OptionFacts DEF CountTypes
    <3> HIDE DEF dv
    <3> QED
      BY <2>1, <3>1, OptionFacts DEF CountTypes
  <2> QED
    BY <1>0, <1>5, <2>2
       DEF CompletedOperations, ClockTypes, FlagTypes, CountTypes
<1> QED
  BY <1>1, <1>2, <1>3, <1>4, <1>5
     DEF Thread, InsideStartBarrier, LeaveStartBarrier, InsideRunBarrier,
         LeaveRunBarrier, EnterCall, LeaveLoop, InsideLastBarrier,
         ReturnFromThread

LEMMA DataTypesStep == DataTypes /\ [LeakyNext]_vars => DataTypes'
<1> SUFFICES ASSUME DataTypes, [LeakyNext]_vars PROVE DataTypes'
  OBVIOUS
<1> USE DEF DataTypes, OptionTypes, clockVars, signalVars, timingVars, countVars
<1>1. CASE MainStep
  BY <1>1, MainTypes DEF MainStep
<1>2. CASE \E t \in Threads : ThreadStep(t)
  BY <1>2, ThreadDataTypes DEF ThreadStep
<1>3. CASE Live /\ AlarmExpires
  BY <1>3, OptionFacts DEF Live, AlarmExpires, ClockTypes, FlagTypes, CountTypes
<1>4. CASE Live /\ StopSignal
  <2>1. finished' \in BOOLEAN
    BY <1>4, Zenon DEF StopSignal, FlagTypes
  <2>2. ClockTypes'
    BY <1>4, OptionFacts DEF Live, StopSignal, ClockTypes
  <2>3. FlagTypes' /\ CountTypes'
    BY <1>4, <2>1 DEF Live, StopSignal, FlagTypes, CountTypes
  <2> QED
    BY <1>4, <2>2, <2>3 DEF Live
<1>5. CASE Live /\ (KilledByAlarm \/ GracefulExit)
  BY <1>5 DEF Live, KilledByAlarm, GracefulExit, ClockTypes, FlagTypes,
              CountTypes
<1>6. CASE Tick
  BY <1>6, OptionFacts
     DEF Tick, Horizon, mainVars, ClockTypes, FlagTypes, CountTypes
<1>7. CASE UNCHANGED vars
  BY <1>7 DEF vars, ClockTypes, FlagTypes, CountTypes
<1>8. CASE \E t \in Threads : Live /\ SpuriousWake(t)
  BY <1>8 DEF Live, SpuriousWake, mainVars, ClockTypes, FlagTypes, CountTypes
<1> QED
  BY <1>1, <1>2, <1>3, <1>4, <1>5, <1>6, <1>7, <1>8
     DEF LeakyNext, Next, AlarmStep, ProcessOver

LEMMA DataTypesHold == Spec => []DataTypes
<1>1. DataTypes /\ [Next]_vars => DataTypes'
  BY DataTypesStep DEF LeakyNext
<1> QED
  BY <1>1, DataTypesInit, PTL DEF Spec

\* Every variable of a run keeps its type, the counters of the three barriers
\* included (Join, HarnessBarrier.hpp:25).
THEOREM RunTypeCorrect == Spec => []TypeOK
BY DataTypesHold, ThreadsMeetInBarriers, TypesTogether, PTL

-----------------------------------------------------------------------------
(***************************************************************************)
(* What main and the first thread do at the right moment: only thread 0    *)
(* starts the timing, and main goes on when no thread is left.             *)
(***************************************************************************)
MainInv ==
    /\ \A t \in Threads : pc[t] = "timing" => t = 0
    /\ mainPc \in {"init", "suspend"} => \A t \in Threads : pc[t] = "none"
    /\ mainPc \in {"stop", "print", "exit"} =>
           \A t \in Threads : pc[t] \in {"done", "missing"}
    /\ report.printed => mainPc = "exit"

RunInv == ThreadInv /\ DataTypes /\ MainInv

LEMMA MainInvStep == PcTypes /\ MainInv /\ [LeakyNext]_vars => MainInv'
<1> SUFFICES ASSUME PcTypes, MainInv, [LeakyNext]_vars PROVE MainInv'
  OBVIOUS
<1> USE DEF PcTypes, MainInv
<1>1. CASE MainStep
  <2>1. CASE MainStartsTiming \/ InitReturns \/ SuspendTiming \/ WaitForThreads
             \/ JoinMissingThread \/ StopTiming \/ PrintResults
             \/ ReturnFromMain
    BY <2>1 DEF MainStartsTiming, InitReturns, SuspendTiming, WaitForThreads,
                JoinMissingThread, StopTiming, PrintResults, ReturnFromMain
  <2>2. CASE \E t \in Threads : StartThread(t)
    BY <2>2 DEF StartThread, Goto
  <2> QED
    BY <1>1, <2>1, <2>2 DEF MainStep, Main
<1>2. ASSUME NEW t \in Threads, ThreadStep(t) PROVE MainInv'
  <2>1. pc[t] \notin {"none", "done", "missing"} /\ UNCHANGED <<mainPc, report>>
    BY <1>2
       DEF ThreadStep, Thread, InsideStartBarrier, LeaveStartBarrier,
           FirstThreadStartsTiming, FirstThreadSetsAlarm, InsideRunBarrier,
           LeaveRunBarrier, EnterCall, ReturnFromCall, LeaveLoop,
           CompletedOperations, InsideLastBarrier, ReturnFromThread, mainVars
  <2>2. \A u \in Threads : pc'[u] = "timing" => u = 0
    <3>1. CASE LeaveStartBarrier(t)
      BY <3>1 DEF LeaveStartBarrier, Goto
    <3>2. CASE ~ LeaveStartBarrier(t)
      BY <1>2, <3>2
         DEF ThreadStep, Thread, InsideStartBarrier, FirstThreadStartsTiming,
             FirstThreadSetsAlarm, InsideRunBarrier, LeaveRunBarrier,
             EnterCall, ReturnFromCall, LeaveLoop, CompletedOperations,
             InsideLastBarrier, ReturnFromThread, Goto
    <3> QED
      BY <3>1, <3>2
  <2> QED
    BY <2>1, <2>2
<1>3. CASE AlarmStep \/ (Live /\ GracefulExit) \/ Tick \/ UNCHANGED vars
  BY <1>3 DEF AlarmStep, AlarmExpires, StopSignal, KilledByAlarm, GracefulExit,
              Tick, vars, mainVars
<1>4. CASE \E t \in Threads : SpuriousWake(t)
  BY <1>4 DEF SpuriousWake, mainVars
<1> QED
  BY <1>1, <1>2, <1>3, <1>4 DEF LeakyNext, Next, ProcessOver

\* The inductive invariant behind the theorems that follow: the barriers
\* (Join, HarnessBarrier.hpp:23), the types, and WaitForThreads
\* (MicroBenchmarkHarness.hpp:250).
THEOREM RunInvariant == Spec => []RunInv
<1>1. Init => RunInv
  BY ThreadInvInit, DataTypesInit DEF Init, RunInv, MainInv, NothingPrinted
<1>2. RunInv /\ [Next]_vars => RunInv'
  BY ThreadInvStep, DataTypesStep, MainInvStep
     DEF RunInv, LeakyNext, PcTypes, ThreadInv, ThreadTypes
<1> QED
  BY <1>1, <1>2, PTL DEF Spec

LEMMA NobodyRunsEarlyHolds == RunInv => NobodyRunsEarly
<1> SUFFICES ASSUME RunInv, NEW t \in Threads, pc[t] \in Measuring,
                    NEW u \in Threads
             PROVE  pc[u] \notin NotYet
  BY DEF NobodyRunsEarly
<1>1. PassedRun(t)
  BY DEF PassedRun, Measuring
<1>2. PassedRun(u)
  BY <1>1 DEF RunInv, ThreadInv, Rounds
<1> QED
  BY <1>2 DEF PassedRun, NotYet

LEMMA NobodyLeavesEarlyHolds == RunInv => NobodyLeavesEarly
<1> SUFFICES ASSUME RunInv,
                    \/ \E t \in Threads : pc[t] = "done"
                    \/ mainPc \in {"stop", "print", "exit"}
             PROVE  NobodyIsThere \/ \A u \in Threads : pc[u] \in {"end", "done"}
  BY DEF NobodyLeavesEarly
<1>1. CASE \E t \in Threads : pc[t] = "done"
  <2>1. \A u \in Threads : PassedEnd(u)
    BY <1>1 DEF RunInv, ThreadInv, Rounds, PassedEnd
  <2> QED
    BY <2>1 DEF PassedEnd
<1>2. CASE ~ \E t \in Threads : pc[t] = "done"
  BY <1>2 DEF RunInv, MainInv, NobodyIsThere
<1> QED
  BY <1>1, <1>2

\* No thread calls the FUT before all threads are there and thread 0 has
\* started the timing (MicroBenchmarkHarness.hpp:283), for any number of
\* threads, as long as a wait ends only with a broadcast.
THEOREM NoEarlyStart == Spec => []NobodyRunsEarly
BY RunInvariant, NobodyRunsEarlyHolds, PTL

\* No thread goes home, and main goes on to nothing, before all threads have
\* reported (MicroBenchmarkHarness.hpp:300).
THEOREM NoEarlyEnd == Spec => []NobodyLeavesEarly
BY RunInvariant, NobodyLeavesEarlyHolds, PTL

-----------------------------------------------------------------------------
(***************************************************************************)
(* No deadlock among the threads.                                          *)
(***************************************************************************)
\* In a Join that uses barrier b: not on the condition, nor in need of a
\* mutex that another thread has.
MovesInJoin(t, b) ==
    \/ at[t] \in {"count", "test", "unlock"}
    \/ at[t] \in {"out", "relock"} /\ b.lock = NoThread

\* Thread t has a step to take, whatever the others do.
CanGoOn(t) ==
    \/ pc[t] = "timing" \/ pc[t] \in Measuring
    \/ t \in StartUsers /\ MovesInJoin(t, startBarrier)
    \/ t \in RunUsers /\ MovesInJoin(t, runBarrier)
    \/ t \in EndUsers /\ MovesInJoin(t, endBarrier)

\* If all threads could be created, some thread has a step to take, until
\* all are done: the barriers, one after another and on one mutex each,
\* never leave everyone waiting for everyone.
ThreadsGoOn ==
    NobodyIsMissing =>
        \/ \E t \in Threads : pc[t] = "none" \/ CanGoOn(t)
        \/ \A t \in Threads : pc[t] = "done"

\* Where nobody moves everybody waits, and for somebody who is not there.
LEMMA AllWait ==
    ASSUME ThreadTypes, NEW b, NEW users \in SUBSET Threads,
           BarrierOK(b, users, at), \A t \in users : ~ MovesInJoin(t, b)
    PROVE  /\ \A t \in users : at[t] = "wait"
           /\ users # Threads
<1> USE DEF ThreadTypes, Run!Places, MovesInJoin
<1>1. b.lock = NoThread
  BY DEF BarrierOK, Run!Barriers
<1>2. \A t \in users : at[t] = "wait"
  BY <1>1
<1>3. ASSUME users = Threads PROVE FALSE
  <2>1. CountedIn(users, at) = Threads
    BY <1>2, <1>3 DEF CountedIn
  <2>2. b.joined = Run!numThreads
    BY <2>1, InstancesAgree DEF BarrierOK
  <2> QED
    BY <1>2, <2>2 DEF BarrierOK
<1> QED
  BY <1>2, <1>3

LEMMA ThreadsGoOnHolds == ThreadInv => ThreadsGoOn
<1> SUFFICES ASSUME ThreadInv, NobodyIsMissing,
                    \A t \in Threads : pc[t] # "none" /\ ~ CanGoOn(t)
             PROVE  \A t \in Threads : pc[t] = "done"
  BY DEF ThreadsGoOn
<1>1. \A t \in Threads : pc[t] \in {"start", "run", "end", "done"}
  BY DEF ThreadInv, ThreadTypes, ThreadPlaces, NobodyIsMissing, CanGoOn,
         Measuring
<1>2. /\ \A t \in StartUsers : at[t] = "wait"
      /\ StartUsers # Threads
  BY AllWait DEF ThreadInv, Joining, StartUsers, CanGoOn
<1>3. /\ \A t \in RunUsers : at[t] = "wait"
      /\ RunUsers # Threads
  BY AllWait DEF ThreadInv, Joining, RunUsers, CanGoOn
<1>4. /\ \A t \in EndUsers : at[t] = "wait"
      /\ EndUsers # Threads
  BY AllWait DEF ThreadInv, Joining, EndUsers, CanGoOn
<1>5. ASSUME NEW t \in StartUsers PROVE FALSE
  <2>1. PICK u \in Threads : pc[u] # "start"
    BY <1>2 DEF StartUsers
  <2>2. PassedStart(u) /\ ~ PassedStart(t)
    BY <1>1, <1>2, <2>1 DEF PassedStart, StartUsers, After
  <2> QED
    BY <2>2 DEF ThreadInv, Rounds, StartUsers
<1>6. ASSUME NEW t \in RunUsers PROVE FALSE
  <2>1. PICK u \in Threads : u \notin RunUsers
    BY <1>3 DEF RunUsers
  <2>2. (pc[u] = "end" /\ OwnThreads) \/ pc[u] = "done"
    BY <1>1, <1>5, <2>1 DEF RunUsers, StartUsers
  <2>3. CASE pc[t] = "run"
    <3>1. PassedRun(u) /\ ~ PassedRun(t)
      BY <1>3, <2>2, <2>3 DEF PassedRun, After
    <3> QED
      BY <3>1 DEF ThreadInv, Rounds, RunUsers
  <2>4. CASE pc[t] = "end" /\ ~ OwnThreads
    <3>1. PassedEnd(u) /\ ~ PassedEnd(t)
      BY <1>3, <2>2, <2>4 DEF PassedEnd, After
    <3> QED
      BY <3>1 DEF ThreadInv, Rounds, RunUsers
  <2> QED
    BY <2>3, <2>4 DEF RunUsers
<1>7. ASSUME NEW t \in EndUsers PROVE FALSE
  <2>1. PICK u \in Threads : u \notin EndUsers
    BY <1>4 DEF EndUsers
  <2>2. pc[u] = "done"
    BY <1>1, <1>5, <1>6, <2>1 DEF EndUsers, RunUsers, StartUsers
  <2>3. PassedEnd(u) /\ ~ PassedEnd(t)
    BY <1>4, <2>2 DEF PassedEnd, EndUsers, After
  <2> QED
    BY <2>3 DEF ThreadInv, Rounds, EndUsers
<1> QED
  BY <1>1, <1>5, <1>6, <1>7 DEF StartUsers, RunUsers, EndUsers

\* While threads are under way and none is missing, one of them can go on:
\* in no interleaving do the barriers leave the threads waiting for each
\* other (Join, HarnessBarrier.hpp:23, as GenericThread and go call it).
THEOREM NoDeadlock == Spec => []ThreadsGoOn
BY ThreadsMeetInBarriers, ThreadsGoOnHolds, PTL

\* One thread that could not be created keeps all others in the start
\* barrier: they never call the FUT (StartThread does not look at the result
\* of pthread_create, MicroBenchmarkHarness.hpp:246).
OneMissingStopsAll ==
    (\E t \in Threads : pc[t] = "missing") =>
        \A u \in Threads : pc[u] \in {"none", "missing", "start"}

\* A consequence of Rounds, for any number of threads and of failures: a
\* thread that is missing is never counted in (MicroBenchmarkHarness.hpp:246).
THEOREM MissingThreadStopsAll == Spec => []OneMissingStopsAll
<1>1. ThreadInv => OneMissingStopsAll
  <2> SUFFICES ASSUME ThreadInv, NEW t \in Threads, pc[t] = "missing",
                      NEW u \in Threads
               PROVE  pc[u] \in {"none", "missing", "start"}
    BY DEF OneMissingStopsAll
  <2>1. ~ PassedStart(u)
    BY DEF ThreadInv, Rounds, PassedStart
  <2> QED
    BY <2>1 DEF PassedStart
<1> QED
  BY <1>1, ThreadsMeetInBarriers, PTL

-----------------------------------------------------------------------------
(***************************************************************************)
(* The run implements BenchmarkRun, step by step.                          *)
(***************************************************************************)
LEMMA PlaceCases ==
    ASSUME NEW t, pc[t] \in ThreadPlaces
    PROVE  /\ pc[t] \in {"none", "missing"} <=> PlaceOf(t) = "coming"
           /\ pc[t] \in {"start", "timing", "run"} <=> PlaceOf(t) = "there"
           /\ pc[t] \in Measuring <=> PlaceOf(t) = "measured"
           /\ pc[t] = "end" <=> PlaceOf(t) = "reported"
           /\ pc[t] = "done" <=> PlaceOf(t) = "home"
BY DEF PlaceOf, ThreadPlaces, Measuring

LEMMA PlaceCasesNext ==
    ASSUME NEW t, pc'[t] \in ThreadPlaces
    PROVE  /\ pc'[t] \in {"none", "missing"} <=> PlaceOf(t)' = "coming"
           /\ pc'[t] \in {"start", "timing", "run"} <=> PlaceOf(t)' = "there"
           /\ pc'[t] \in Measuring <=> PlaceOf(t)' = "measured"
           /\ pc'[t] = "end" <=> PlaceOf(t)' = "reported"
           /\ pc'[t] = "done" <=> PlaceOf(t)' = "home"
BY DEF PlaceOf, ThreadPlaces, Measuring

place == [t \in Threads |-> PlaceOf(t)]
unreported == [t \in Threads |-> NotReported(t)]

\* A step that moves one thread moves at most its place.
LEMMA PlaceMoves ==
    ASSUME NEW t \in Threads, \A u \in Threads : u # t => pc'[u] = pc[u]
    PROVE  place' = [place EXCEPT ![t] = PlaceOf(t)']
<1>1. ASSUME NEW u \in Threads, u # t PROVE PlaceOf(u)' = PlaceOf(u)
  BY <1>1 DEF PlaceOf
<1>2. place' = [u \in Threads |-> PlaceOf(u)']
  BY DEF place
<1> QED
  BY <1>1, <1>2 DEF place

LEMMA PlaceStays ==
    UNCHANGED <<pc, client, threadOps>> =>
        UNCHANGED <<place, TimingStarted, unreported>>
BY DEF place, PlaceOf, TimingStarted, unreported, NotReported, CountsEachCall

\* The other threads' reports are not touched by a step of one thread.
LEMMA UnreportedMoves ==
    ASSUME UNCHANGED client, threadOps \in [Threads -> Nat],
           NEW t \in Threads,
           \A u \in Threads : u # t => pc'[u] = pc[u]
                                      /\ threadOps'[u] = threadOps[u]
    PROVE  unreported' = [unreported EXCEPT ![t] = NotReported(t)']
<1>1. ASSUME NEW u \in Threads, u # t PROVE NotReported(u)' = NotReported(u)
  BY <1>1 DEF NotReported, CountsEachCall
<1>2. unreported' = [u \in Threads |-> NotReported(u)']
  BY DEF unreported
<1> QED
  BY <1>1, <1>2 DEF unreported

\* A step that neither counts nor reports.
LEMMA UnreportedStays ==
    ASSUME UNCHANGED <<client, threadOps>>,
           \A t \in Threads :
               /\ pc'[t] = "count" <=> pc[t] = "count"
               /\ pc'[t] \in {"end", "done"} <=> pc[t] \in {"end", "done"}
    PROVE  UNCHANGED unreported
<1>1. ASSUME NEW t \in Threads PROVE NotReported(t)' = NotReported(t)
  BY DEF NotReported, CountsEachCall
<1> QED
  BY <1>1 DEF unreported

LEMMA RunInitRefines == Init => Promise!Init
<1> SUFFICES ASSUME Init PROVE Promise!Init
  OBVIOUS
<1>1. \A t \in Threads : PlaceOf(t) = "coming"
  BY PlaceCases DEF Init, ThreadPlaces
<1>2. ~ TimingStarted
  BY ThreadsFinite DEF Init, TimingStarted, NotYet
<1>3. \A t \in Threads : NotReported(t) = 0
  BY DEF Init, NotReported
<1> QED
  BY <1>1, <1>2, <1>3 DEF Init, Promise!Init, NothingPrinted

\* The steps of main.
LEMMA MainRefines ==
    ASSUME RunInv, RunInv', Live, Main
    PROVE  [Promise!Next]_Promise!vars
<1> USE DEF RunInv
<1>0. ~ (outcome # "running")
  BY DEF Live
<1>1. CASE \/ MainStartsTiming \/ InitReturns \/ SuspendTiming
           \/ WaitForThreads \/ StopTiming
  <2>1. UNCHANGED <<pc, client, threadOps, operationsCompleted, report, outcome>>
    BY <1>1 DEF MainStartsTiming, InitReturns, SuspendTiming, WaitForThreads,
                StopTiming, countVars, Live
  <2> QED
    BY <2>1, PlaceStays
       DEF Promise!vars, Promise!counts, place, unreported
<1>2. ASSUME NEW t \in Threads, StartThread(t)
      PROVE  [Promise!Next]_Promise!vars
  <2>1. /\ pc[t] = "none" /\ pc'[t] \in {"start", "missing"}
        /\ place' = [place EXCEPT ![t] = PlaceOf(t)']
    BY <1>2, PlaceMoves DEF StartThread, Goto, ThreadInv, ThreadTypes
  <2>2. PlaceOf(t) = "coming" /\ PlaceOf(t)' \in {"coming", "there"}
    BY <2>1, PlaceCases, PlaceCasesNext DEF ThreadInv, ThreadTypes
  <2>3. UNCHANGED <<client, threadOps, operationsCompleted, report, outcome>>
    BY <1>2 DEF StartThread, countVars, Live
  <2>a. UNCHANGED unreported
    BY <1>2, <2>1, <2>3, UnreportedStays
       DEF StartThread, Goto, ThreadInv, ThreadTypes
  <2>4. UNCHANGED TimingStarted
    BY <1>2, ThreadsFinite
       DEF StartThread, Goto, TimingStarted, NotYet, ThreadInv, ThreadTypes
  <2>5. CASE PlaceOf(t)' = "coming"
    <3>1. place' = place
      BY <2>1, <2>2, <2>5 DEF place
    <3> QED
      BY <2>3, <2>4, <2>a, <3>1
         DEF Promise!vars, Promise!counts, place, unreported
  <2>6. CASE PlaceOf(t)' = "there"
    <3>1. Promise!Come(t)
      BY <2>1, <2>2, <2>3, <2>4, <2>6, <2>a
         DEF Promise!Come, Promise!Move, Promise!counts, place, unreported
    <3> QED
      BY <1>0, <3>1 DEF Promise!Next
  <2> QED
    BY <2>2, <2>5, <2>6
<1>3. CASE PrintResults
  <2>1. UNCHANGED <<pc, client, threadOps, operationsCompleted, outcome>>
    BY <1>3 DEF PrintResults, countVars, Live
  <2>2. /\ mainPc = "print" /\ ~ report.printed /\ report'.printed
        /\ report'.ops = operationsCompleted
    BY <1>3 DEF PrintResults, MainInv
  <2>3. NobodyIsThere \/ \A t \in Threads : pc[t] = "done"
    BY <2>2, NobodyLeavesEarlyHolds DEF NobodyLeavesEarly, MainInv
  <2>4. \/ \A t \in Threads : PlaceOf(t) = "home"
        \/ \A t \in Threads : PlaceOf(t) = "coming"
    BY <2>3, PlaceCases DEF NobodyIsThere, ThreadInv, ThreadTypes
  <2>5. Promise!PrintTotal
    BY <2>1, <2>2, <2>4, PlaceStays
       DEF Promise!PrintTotal, Promise!All, Promise!counts, place, unreported
  <2> QED
    BY <1>0, <2>5 DEF Promise!Next
<1>4. CASE JoinMissingThread \/ ReturnFromMain
  <2>1. /\ UNCHANGED <<pc, client, threadOps, operationsCompleted, report>>
        /\ outcome' # "running"
    BY <1>4 DEF JoinMissingThread, ReturnFromMain, countVars, Live
  <2>2. Promise!End
    BY <2>1, PlaceStays DEF Promise!End, Promise!counts, place, unreported
  <2> QED
    BY <1>0, <2>2 DEF Promise!Next
<1> QED
  BY <1>1, <1>2, <1>3, <1>4 DEF Main

\* The steps of a thread.  A thread leaves the run barrier when the timing
\* has been started, and goes home when all have reported, because of Rounds.
LEMMA ThreadRefines ==
    ASSUME RunInv, RunInv', Live, NEW t \in Threads, Thread(t)
    PROVE  [Promise!Next]_Promise!vars
<1> USE DEF RunInv
<1>0. /\ ~ (outcome # "running")
      /\ UNCHANGED <<report, outcome>>
  BY DEF Live, Thread, InsideStartBarrier, LeaveStartBarrier,
         FirstThreadStartsTiming, FirstThreadSetsAlarm, InsideRunBarrier,
         LeaveRunBarrier, EnterCall, ReturnFromCall, LeaveLoop,
         CompletedOperations, InsideLastBarrier, ReturnFromThread, mainVars
<1>a. /\ pc \in [Threads -> ThreadPlaces]
      /\ pc' \in [Threads -> ThreadPlaces]
  BY DEF ThreadInv, ThreadTypes
<1>b. \A u \in Threads :
          /\ PassedStart(t) => PassedStart(u)
          /\ PassedRun(t) => PassedRun(u)
          /\ PassedRun(u) => PassedRun(t)
          /\ PassedEnd(t) => PassedEnd(u)
  BY DEF ThreadInv, Rounds
\* A step between two places before the calls, or after the report.
<1>c. ASSUME UNCHANGED <<client, threadOps>>,
             /\ pc[t] # "count" /\ pc'[t] # "count"
             /\ pc'[t] \in {"end", "done"} <=> pc[t] \in {"end", "done"}
      PROVE  UNCHANGED unreported
  <2>1. \A u \in Threads : u # t => pc'[u] = pc[u]
    BY <1>a, OnlyItselfMoves DEF PcTypes
  <2> QED
    BY <1>c, <2>1, UnreportedStays
<1>1. CASE InsideStartBarrier(t) \/ FirstThreadStartsTiming(t)
           \/ InsideRunBarrier(t) \/ InsideLastBarrier(t)
  <2>1. UNCHANGED <<pc, client, threadOps, operationsCompleted>>
    BY <1>1 DEF InsideStartBarrier, FirstThreadStartsTiming, InsideRunBarrier,
                InsideLastBarrier, countVars, Live
  <2> QED
    BY <1>0, <2>1, PlaceStays
       DEF Promise!vars, Promise!counts, place, unreported
<1>2. CASE LeaveStartBarrier(t)
  <2>1. /\ place' = [place EXCEPT ![t] = PlaceOf(t)']
        /\ pc[t] = "start" /\ pc'[t] = IF t = 0 THEN "timing" ELSE "run"
        /\ UNCHANGED <<client, threadOps, operationsCompleted, TimingStarted>>
    BY <1>a, <1>2, PlaceMoves
       DEF LeaveStartBarrier, Goto, countVars, TimingStarted, NotYet,
           ThreadInv, ThreadTypes, Live
  <2>2. PlaceOf(t) = "there" /\ PlaceOf(t)' = "there"
    BY <1>a, <2>1, PlaceCases, PlaceCasesNext
  <2>3. place' = place
    BY <2>1, <2>2 DEF place
  <2> QED
    BY <1>0, <1>c, <2>1, <2>3
       DEF Promise!vars, Promise!counts, place, unreported
<1>3. CASE FirstThreadSetsAlarm(t)
  <2>1. /\ place' = [place EXCEPT ![t] = PlaceOf(t)']
        /\ pc[t] = "timing" /\ pc'[t] = "run" /\ t = 0
        /\ UNCHANGED <<client, threadOps, operationsCompleted>>
    BY <1>a, <1>3, PlaceMoves
       DEF FirstThreadSetsAlarm, Goto, countVars, ThreadInv, ThreadTypes,
           MainInv, Live
  <2>2. PlaceOf(t) = "there" /\ PlaceOf(t)' = "there"
    BY <1>a, <2>1, PlaceCases, PlaceCasesNext
  <2>3. place' = place
    BY <2>1, <2>2 DEF place
  <2>4. ~ TimingStarted /\ TimingStarted'
    BY <2>1 DEF TimingStarted, NotYet
  <2>5. \A u \in Threads : pc[u] \in {"start", "timing", "run"}
    <3>1. PassedStart(t) /\ ~ PassedRun(t)
      BY <2>1 DEF PassedStart, PassedRun
    <3>2. \A u \in Threads : PassedStart(u) /\ ~ PassedRun(u)
      BY <1>b, <3>1
    <3> QED
      BY <1>a, <3>2 DEF PassedStart, PassedRun, ThreadPlaces
  <2>6. \A u \in Threads : PlaceOf(u) = "there"
    BY <1>a, <2>5, PlaceCases
  <2>7. Promise!StartTiming
    BY <1>0, <1>c, <2>1, <2>3, <2>4, <2>6
       DEF Promise!StartTiming, Promise!All, Promise!counts, place, unreported
  <2> QED
    BY <1>0, <2>7 DEF Promise!Next
<1>4. CASE LeaveRunBarrier(t)
  <2>1. /\ place' = [place EXCEPT ![t] = PlaceOf(t)']
        /\ pc[t] = "run" /\ pc'[t] = "loop" /\ at[t] = "unlock"
        /\ pc' = [pc EXCEPT ![t] = "loop"]
        /\ UNCHANGED <<client, threadOps, operationsCompleted>>
    BY <1>a, <1>4, PlaceMoves
       DEF LeaveRunBarrier, Run!Unlock, Goto, countVars, ThreadInv, ThreadTypes,
           Live
  <2>2. PlaceOf(t) = "there" /\ PlaceOf(t)' = "measured"
    BY <1>a, <2>1, PlaceCases, PlaceCasesNext DEF Measuring
  <2>3. PassedRun(0)
    BY <1>b, <2>1, ThreadsFinite DEF PassedRun, After
  <2>4. TimingStarted /\ TimingStarted'
    BY <1>a, <2>1, <2>3, ThreadsFinite DEF PassedRun, TimingStarted, NotYet
  <2>5. Promise!Begin(t)
    BY <1>0, <1>c, <2>1, <2>2, <2>4
       DEF Promise!Begin, Promise!Move, Promise!counts, place, unreported
  <2> QED
    BY <1>0, <2>5 DEF Promise!Next
<1>5. CASE EnterCall(t) \/ ReturnFromCall(t) \/ LeaveLoop(t)
           \/ CompletedOperations(t)
  <2>0. PICK to \in Measuring \cup {"end"} :
            pc[t] \in Measuring /\ pc' = [pc EXCEPT ![t] = to]
    BY <1>5 DEF EnterCall, ReturnFromCall, LeaveLoop, CompletedOperations,
                Goto, Measuring
  <2>1. /\ place' = [place EXCEPT ![t] = PlaceOf(t)']
        /\ pc[t] \in Measuring /\ pc'[t] \in Measuring \cup {"end"}
        /\ UNCHANGED TimingStarted
    BY <1>a, <2>0, PlaceMoves DEF Measuring, TimingStarted, NotYet
  <2>2. PlaceOf(t) = "measured" /\ PlaceOf(t)' \in {"measured", "reported"}
    BY <1>a, <2>1, PlaceCases, PlaceCasesNext
  <2>3. /\ unreported' = [unreported EXCEPT ![t] = NotReported(t)']
        /\ UNCHANGED client
        /\ operationsCompleted \in 0 .. TotalModulus - 1
        /\ (operationsCompleted + 0) % TotalModulus = operationsCompleted
    <3>1. /\ \A u \in Threads : u # t => /\ pc'[u] = pc[u]
                                         /\ threadOps'[u] = threadOps[u]
          /\ threadOps \in [Threads -> Nat]
          /\ UNCHANGED client
      BY <1>5, <2>0, OptionFacts
         DEF EnterCall, ReturnFromCall, LeaveLoop, CompletedOperations, Live,
             countVars, DataTypes, CountTypes, ThreadInv, ThreadTypes
    <3> QED
      BY <3>1, UnreportedMoves, OptionFacts DEF DataTypes, CountTypes
  <2>4. CASE EnterCall(t) \/ (LeaveLoop(t) /\ ~ CountsEachCall)
    <3>1. /\ pc[t] = "loop" /\ pc'[t] \in {"op", "count"}
          /\ pc'[t] = "count" => ~ CountsEachCall
          /\ UNCHANGED <<threadOps, operationsCompleted>>
      BY <1>a, <2>4 DEF EnterCall, LeaveLoop, Goto, countVars
    <3>2. NotReported(t)' = NotReported(t)
      BY <2>3, <3>1 DEF NotReported, CountsEachCall
    <3>3. UNCHANGED <<place, unreported>>
      <4>1. PlaceOf(t)' = PlaceOf(t)
        BY <3>1 DEF PlaceOf, Measuring
      <4> QED
        BY <2>1, <2>3, <3>2, <4>1 DEF place, unreported
    <3> QED
      BY <1>0, <2>1, <3>1, <3>3
         DEF Promise!vars, Promise!counts, place, unreported
  <2>5. CASE ReturnFromCall(t)
    <3>1. /\ pc[t] = "op"
          /\ pc'[t] = IF CountsEachCall THEN "count" ELSE "loop"
          /\ IF CountsEachCall THEN UNCHANGED threadOps
             ELSE threadOps'[t] = (threadOps[t] + 1) % CounterModulus
          /\ UNCHANGED operationsCompleted
      BY <1>a, <2>5 DEF ReturnFromCall, Goto, DataTypes, CountTypes
    <3>2. (0 + 1) % CounterModulus = 1
      BY OptionFacts DEF DataTypes
    <3>3. NotReported(t)' = (NotReported(t) + 1) % CounterModulus
      BY <2>3, <3>1, <3>2 DEF NotReported, CountsEachCall
    <3>4. UNCHANGED place
      <4>1. PlaceOf(t)' = PlaceOf(t)
        BY <3>1 DEF PlaceOf, Measuring
      <4> QED
        BY <2>1, <4>1 DEF place
    <3>5. unreported' = [unreported EXCEPT ![t] = (@ + 1) % CounterModulus]
      BY <2>3, <3>3 DEF unreported
    <3>6. Promise!Call(t)
      BY <1>0, <2>1, <2>2, <3>1, <3>4, <3>5
         DEF Promise!Call, place, unreported
    <3> QED
      BY <1>0, <3>6 DEF Promise!Next
  <2>6. CASE CompletedOperations(t) \/ (LeaveLoop(t) /\ CountsEachCall)
    <3>1. /\ operationsCompleted'
                 = (operationsCompleted + NotReported(t)) % TotalModulus
          /\ NotReported(t)' = 0
      <4>1. CASE CompletedOperations(t)
        <5>1. /\ pc[t] = "count"
              /\ pc'[t] = IF CountsEachCall THEN "loop" ELSE "end"
              /\ operationsCompleted' =
                     (operationsCompleted
                      + IF CountsEachCall THEN 1 ELSE threadOps[t])
                     % TotalModulus
          BY <1>a, <4>1
             DEF CompletedOperations, Goto, atomic_exchange_and_add
        <5> QED
          BY <2>3, <5>1 DEF NotReported, CountsEachCall
      <4>2. CASE LeaveLoop(t) /\ CountsEachCall
        <5>1. /\ pc[t] = "loop" /\ pc'[t] = "end"
              /\ UNCHANGED operationsCompleted
          BY <1>a, <4>2 DEF LeaveLoop, Goto, countVars
        <5> QED
          BY <2>3, <4>2, <5>1 DEF NotReported, CountsEachCall
      <4> QED
        BY <2>6, <4>1, <4>2
    <3>2. unreported' = [unreported EXCEPT ![t] = 0]
      BY <2>3, <3>1 DEF unreported
    <3>3. Promise!Report(t)
      BY <1>0, <2>1, <2>2, <3>1, <3>2
         DEF Promise!Report, Promise!Move, place, unreported
    <3> QED
      BY <1>0, <3>3 DEF Promise!Next
  <2> QED
    BY <1>5, <2>4, <2>5, <2>6
<1>6. CASE ReturnFromThread(t)
  <2>1. /\ place' = [place EXCEPT ![t] = PlaceOf(t)']
        /\ pc[t] = "end" /\ pc'[t] = "done" /\ at[t] = "unlock"
        /\ UNCHANGED <<client, threadOps, operationsCompleted, TimingStarted>>
    BY <1>a, <1>6, PlaceMoves
       DEF ReturnFromThread, Run!Unlock, End!Unlock, Goto, countVars,
           TimingStarted, NotYet, ThreadInv, ThreadTypes, Live
  <2>2. PlaceOf(t) = "reported" /\ PlaceOf(t)' = "home"
    BY <1>a, <2>1, PlaceCases, PlaceCasesNext
  <2>3. \A u \in Threads : PassedEnd(u)
    BY <1>b, <2>1 DEF PassedEnd, After
  <2>4. \A u \in Threads : PlaceOf(u) \in {"reported", "home"}
    BY <1>a, <2>3, PlaceCases DEF PassedEnd
  <2>5. Promise!GoHome(t)
    BY <1>0, <1>c, <2>1, <2>2, <2>4
       DEF Promise!GoHome, Promise!Move, Promise!All, Promise!counts, place,
           unreported
  <2> QED
    BY <1>0, <2>5 DEF Promise!Next
<1> QED
  BY <1>1, <1>2, <1>3, <1>4, <1>5, <1>6 DEF Thread

LEMMA RunStepRefines ==
    RunInv /\ RunInv' /\ [Next]_vars => [Promise!Next]_Promise!vars
<1> SUFFICES ASSUME RunInv, RunInv', [Next]_vars
             PROVE  [Promise!Next]_Promise!vars
  OBVIOUS
<1>1. CASE MainStep
  BY <1>1, MainRefines DEF MainStep
<1>2. CASE \E t \in Threads : ThreadStep(t)
  BY <1>2, ThreadRefines DEF ThreadStep
<1>3. CASE Live /\ (KilledByAlarm \/ GracefulExit)
  <2>1. /\ UNCHANGED <<pc, client, threadOps, operationsCompleted, report>>
        /\ outcome = "running" /\ outcome' # "running"
    BY <1>3 DEF Live, KilledByAlarm, GracefulExit, countVars
  <2>2. Promise!End
    BY <2>1, PlaceStays DEF Promise!End, Promise!counts, place, unreported
  <2> QED
    BY <2>1, <2>2 DEF Promise!Next
<1>4. CASE (Live /\ (AlarmExpires \/ StopSignal)) \/ Tick \/ UNCHANGED vars
  <2>1. UNCHANGED <<pc, client, threadOps, operationsCompleted, report, outcome>>
    BY <1>4 DEF AlarmExpires, StopSignal, Tick, vars, mainVars, countVars, Live
  <2> QED
    BY <2>1, PlaceStays
       DEF Promise!vars, Promise!counts, place, unreported
<1> QED
  BY <1>1, <1>2, <1>3, <1>4 DEF Next, AlarmStep, ProcessOver

\* Main, the threads, the barriers, the alarm and its handler do together what
\* BenchmarkRun says: start the timing when all threads are there, measure
\* them after that only, let them go home when all have reported, and print
\* their total (GenericThread, MicroBenchmarkHarness.hpp:278).
THEOREM RunImplementsBenchmarkRun == Spec => KeepsItsPromise
<1>1. RunInv /\ RunInv' /\ [Next]_vars => [Promise!Next]_Promise!vars
  BY RunStepRefines
<1> QED
  BY <1>1, RunInitRefines, RunInvariant, PTL
     DEF Spec, KeepsItsPromise, Promise!Spec

-----------------------------------------------------------------------------
(***************************************************************************)
(* What holds with spurious wakeups, too.                                  *)
(***************************************************************************)
\* Nothing resets _finished.
LEMMA FinishedStays ==
    ASSUME [LeakyNext]_vars
    PROVE  UNCHANGED <<client, opts>> /\ (finished => finished')
<1>1. CASE MainStep
  BY <1>1
     DEF MainStep, Live, Main, MainStartsTiming, BeforeTheAlarm,
         TakeStartTime, InstallHandler, ResumeTiming, InitReturns, SetAlarm,
         SuspendTiming, StartThread, WaitForThreads, JoinMissingThread,
         StopTiming, PrintResults, ReturnFromMain, timingVars
<1>2. ASSUME NEW t \in Threads, ThreadStep(t)
      PROVE  UNCHANGED <<client, opts, finished>>
  BY <1>2
     DEF ThreadStep, Live, Thread, InsideStartBarrier, LeaveStartBarrier,
         FirstThreadStartsTiming, BeforeTheAlarm, TakeStartTime,
         InstallHandler, ResumeTiming, FirstThreadSetsAlarm, SetAlarm,
         InsideRunBarrier, LeaveRunBarrier, EnterCall, ReturnFromCall,
         LeaveLoop, CompletedOperations, InsideLastBarrier,
         ReturnFromThread, mainVars, timingVars
<1>3. CASE Live /\ StopSignal
  <2>1. UNCHANGED <<client, opts>>
    BY <1>3 DEF Live
  <2>2. finished => finished'
    BY <1>3, Zenon DEF StopSignal
  <2> QED
    BY <2>1, <2>2
<1>4. CASE \/ Live /\ (AlarmExpires \/ KilledByAlarm \/ GracefulExit)
           \/ Tick \/ UNCHANGED vars
  BY <1>4 DEF AlarmExpires, KilledByAlarm, GracefulExit, Live, Tick,
              mainVars, timingVars, vars
<1>5. CASE \E t \in Threads : Live /\ SpuriousWake(t)
  BY <1>5 DEF Live, SpuriousWake, mainVars, timingVars
<1> QED
  BY <1>1, <1>2, <1>3, <1>4, <1>5 DEF LeakyNext, Next, AlarmStep, ProcessOver

LeakyInv == PcTypes /\ DataTypes /\ MainInv

LEMMA LeakyInvInit == Init => LeakyInv
BY ThreadInvInit, DataTypesInit
   DEF Init, LeakyInv, MainInv, NothingPrinted, PcTypes, ThreadInv, ThreadTypes

\* Every step but that of a wait that returns by itself is one of Next.
LEMMA LeakyStepKinds ==
    ASSUME [LeakyNext]_vars
    PROVE  \/ \E t \in Threads : Live /\ Thread(t)
           \/ \E t \in Threads : Live /\ StartThread(t)
           \/ UNCHANGED <<opts, client, pc, threadOps, operationsCompleted>>
<1>1. CASE MainStep
  BY <1>1 DEF MainStep, Live, Main, MainStartsTiming, InitReturns,
              SuspendTiming, WaitForThreads, JoinMissingThread, StopTiming,
              PrintResults, ReturnFromMain, countVars
<1>2. CASE \E t \in Threads : ThreadStep(t)
  BY <1>2 DEF ThreadStep
<1>3. CASE \/ AlarmStep \/ (Live /\ GracefulExit) \/ Tick
           \/ UNCHANGED vars \/ \E t \in Threads : Live /\ SpuriousWake(t)
  BY <1>3 DEF AlarmStep, AlarmExpires, StopSignal, KilledByAlarm,
              GracefulExit, Live, Tick, SpuriousWake, countVars, vars
<1> QED
  BY <1>1, <1>2, <1>3 DEF LeakyNext, Next, ProcessOver

LEMMA LeakyInvStep == LeakyInv /\ [LeakyNext]_vars => LeakyInv'
<1> SUFFICES ASSUME LeakyInv, [LeakyNext]_vars PROVE LeakyInv'
  OBVIOUS
<1>1. PcTypes'
  <2>1. ASSUME NEW t \in Threads, Thread(t) PROVE PcTypes'
    <3>1. UNCHANGED pc \/ \E to \in ThreadPlaces : pc' = [pc EXCEPT ![t] = to]
      BY <2>1, ThreadStepKinds
         DEF ThreadStepKind, Moves, JoinsStart, JoinsRun, JoinsEnd,
             LeavesStart, LeavesRun, LeavesEnd, Goto, Measuring, ThreadPlaces
    <3> QED
      BY <3>1 DEF LeakyInv, PcTypes
  <2>2. ASSUME NEW t \in Threads, StartThread(t) PROVE PcTypes'
    BY <2>2 DEF StartThread, Goto, LeakyInv, PcTypes, ThreadPlaces
  <2> QED
    BY <2>1, <2>2, LeakyStepKinds DEF LeakyInv, PcTypes
<1> QED
  BY <1>1, DataTypesStep, MainInvStep DEF LeakyInv

-----------------------------------------------------------------------------
(***************************************************************************)
(* The total of a run by count.  The counters are wide enough: in the code *)
(* a positive -max is an int, and the cast of isDone has 32 bits.          *)
(***************************************************************************)
WideCounters ==
    /\ \A o \in CommandLines : o.max + ThreadCount <= CastModulus
    /\ CastModulus <= TotalModulus

Reported == {t \in Threads : pc[t] \in {"end", "done"}}
InCall == {t \in Threads : pc[t] \in {"op", "count"}}

\* Each thread makes and reports its share.
Shares ==
    opts.max > 0 /\ ~ CountsEachCall =>
        /\ operationsCompleted = Cardinality(Reported) * operationsPerThread
        /\ operationsPerThread > 0 =>
               \A t \in Threads :
                   /\ threadOps[t] <= operationsPerThread
                   /\ pc[t] = "op" => threadOps[t] < operationsPerThread
        /\ \A t \in Threads : pc[t] = "count" =>
               operationsPerThread > 0 /\ threadOps[t] = operationsPerThread

\* Each thread counts every call, and begins one while some are missing.
CallsUnderWay ==
    opts.max > 0 /\ CountsEachCall =>
        /\ operationsCompleted + Cardinality(InCall)
               <= opts.max - 1 + ThreadCount
        /\ \A t \in Reported : operationsCompleted >= opts.max

CountInv == Shares /\ CallsUnderWay

LEMMA ThreadSets ==
    ASSUME NEW S \in SUBSET Threads
    PROVE  /\ IsFiniteSet(S)
           /\ Cardinality(S) \in Nat /\ Cardinality(S) <= ThreadCount
           /\ \A t \in Threads \ S :
                  /\ Cardinality(S \cup {t}) = Cardinality(S) + 1
                  /\ Cardinality(S) < ThreadCount
           /\ \A t \in S : Cardinality(S \ {t}) = Cardinality(S) - 1
<1>1. IsFiniteSet(Threads) /\ Cardinality(Threads) = ThreadCount
  <2>1. Cardinality(0 .. ThreadCount - 1) = ThreadCount
    BY HarnessAssumption, FS_Interval
  <2> QED
    BY <2>1, ThreadsFinite DEF Threads
<1>2. IsFiniteSet(S) /\ Cardinality(S) <= ThreadCount
  BY <1>1, FS_Subset
<1>3. Cardinality(S) \in Nat
  BY <1>2, FS_CardinalityType
<1>4. ASSUME NEW t \in Threads \ S
      PROVE  /\ Cardinality(S \cup {t}) = Cardinality(S) + 1
             /\ Cardinality(S) < ThreadCount
  <2>1. Cardinality(S \cup {t}) = Cardinality(S) + 1
    BY <1>2, FS_AddElement
  <2>2. Cardinality(S \cup {t}) <= ThreadCount
    BY <1>1, FS_Subset
  <2> QED
    BY <1>3, <2>1, <2>2, HarnessAssumption
<1>5. ASSUME NEW t \in S PROVE Cardinality(S \ {t}) = Cardinality(S) - 1
  BY <1>2, FS_RemoveElement
<1> QED
  BY <1>2, <1>3, <1>4, <1>5

\* The share is rounded down, and not truncated.
LEMMA ShareFacts ==
    ASSUME OptionTypes, WideCounters
    PROVE  /\ operationsPerThread \in Nat
           /\ operationsPerThread < CounterModulus
           /\ ThreadCount * operationsPerThread \in
                  opts.max - ThreadCount + 1 .. opts.max
           /\ \A n \in 0 .. ThreadCount :
                  n * operationsPerThread \in 0 .. opts.max
<1>0. operationsPerThread = opts.max \div ThreadCount
  <2>1. /\ opts.max \div ThreadCount \in Nat
        /\ opts.max \div ThreadCount <= opts.max
    BY OptionFacts
  <2>2. opts.max < CastModulus
    BY OptionFacts DEF WideCounters, OptionTypes
  <2> QED
    BY <2>1, <2>2, OptionFacts DEF operationsPerThread
<1>1. operationsPerThread \in Nat
  BY <1>0, OptionFacts
<1>2. operationsPerThread < CounterModulus
  BY HarnessAssumption DEF operationsPerThread, OptionTypes
<1>3. ThreadCount * operationsPerThread \in
          opts.max - ThreadCount + 1 .. opts.max
  BY <1>0, OptionFacts
<1>4. ASSUME NEW n \in 0 .. ThreadCount
      PROVE  n * operationsPerThread \in 0 .. opts.max
  <2> DEFINE k == operationsPerThread
  <2> HIDE DEF k
  <2>1. k \in Nat /\ ThreadCount * k <= opts.max
    BY <1>1, <1>3, OptionFacts DEF k
  <2>2. n * k \in Nat /\ n * k <= ThreadCount * k
    BY <2>1, OptionFacts
  <2>3. n * k <= opts.max
    BY <2>1, <2>2, OptionFacts
  <2> QED
    BY <2>2, <2>3, OptionFacts DEF k
<1> QED
  BY <1>1, <1>2, <1>3, <1>4

LEMMA CountInvInit ==
    ASSUME WideCounters
    PROVE  Init => CountInv
<1> SUFFICES ASSUME Init PROVE CountInv
  OBVIOUS
<1>1. OptionTypes
  BY DataTypesInit DEF DataTypes
<1>2. Reported = {} /\ InCall = {}
  BY DEF Init, Reported, InCall
<1>3. Shares
  BY <1>1, <1>2, ShareFacts, FS_EmptySet DEF Init, Shares
<1>4. CallsUnderWay
  BY <1>1, <1>2, OptionFacts, FS_EmptySet DEF Init, CallsUnderWay
<1> QED
  BY <1>3, <1>4 DEF CountInv

\* A thread that reports adds to the total, which does not wrap.
LEMMA ReportKeepsCount ==
    ASSUME WideCounters, LeakyInv, CountInv, opts.max > 0, Live,
           NEW t \in Threads, CompletedOperations(t)
    PROVE  CountInv' /\ operationsCompleted' >= operationsCompleted
<1> USE OptionFacts
    DEF LeakyInv, PcTypes, DataTypes, CountTypes, Live
<1> DEFINE k == operationsPerThread
           total == operationsCompleted
<1>1. opts.max + ThreadCount <= TotalModulus
  BY DEF WideCounters, OptionTypes
<1>2. pc[t] = "count" /\ UNCHANGED <<client, opts, threadOps, k>>
  BY DEF CompletedOperations, operationsPerThread
<1>3. CASE ~ CountsEachCall
  <2>1. /\ total' = (total + threadOps[t]) % TotalModulus
        /\ pc' = [pc EXCEPT ![t] = "end"]
    BY <1>3 DEF CompletedOperations, atomic_exchange_and_add, Goto
  <2>2. /\ total = Cardinality(Reported) * k
        /\ k > 0 /\ threadOps[t] = k
    BY <1>2, <1>3 DEF CountInv, Shares
  <2>3. t \notin Reported /\ Reported' = Reported \cup {t}
    BY <1>2, <2>1 DEF Reported
  <2> DEFINE n == Cardinality(Reported)
  <2>4. n \in Nat /\ n < ThreadCount /\ Cardinality(Reported)' = n + 1
    BY <2>3, ThreadSets, SMTT(30) DEF Reported
  <2>5. (n + 1) * k = n * k + k
    <3>1. n \in Nat /\ k \in Nat
      BY <2>4, ShareFacts
    <3> HIDE DEF n, k
    <3> QED
      BY <3>1
  <2>6. (n + 1) * k \in 0 .. opts.max
    BY <2>4, ShareFacts
  <2>7. total' = (n + 1) * k
    <3>1. total + threadOps[t] = (n + 1) * k
      BY <2>2, <2>5
    <3>2. (n + 1) * k < TotalModulus
      BY <1>1, <2>6
    <3> HIDE DEF n, k
    <3> QED
      BY <2>1, <2>6, <3>1, <3>2
  <2>8. Shares'
    BY <1>2, <2>1, <2>4, <2>7 DEF CountInv, Shares, CountsEachCall
  <2>9. CallsUnderWay'
    BY <1>2, <1>3 DEF CallsUnderWay, CountsEachCall
  <2>10. total' >= total
    BY <2>2, <2>5, <2>7, ShareFacts
  <2> QED
    BY <2>8, <2>9, <2>10 DEF CountInv
<1>4. CASE CountsEachCall
  <2>1. /\ total' = (total + 1) % TotalModulus
        /\ pc' = [pc EXCEPT ![t] = "loop"]
    BY <1>4 DEF CompletedOperations, atomic_exchange_and_add, Goto
  <2>2. total + Cardinality(InCall) <= opts.max - 1 + ThreadCount
    BY <1>4 DEF CountInv, CallsUnderWay
  <2>3. t \in InCall /\ InCall' = InCall \ {t} /\ Reported' = Reported
    BY <1>2, <2>1 DEF InCall, Reported
  <2>4. /\ Cardinality(InCall) \in Nat /\ Cardinality(InCall)' \in Nat
        /\ Cardinality(InCall)' = Cardinality(InCall) - 1
    BY <2>3, ThreadSets DEF InCall
  <2>5. total' = total + 1
    <3>1. total \in Nat /\ total + 1 < TotalModulus
      BY <1>1, <2>2, <2>4
    <3> HIDE DEF total
    <3> QED
      BY <2>1, <3>1
  <2>6. CallsUnderWay'
    BY <1>2, <1>4, <2>2, <2>3, <2>4, <2>5
       DEF CountInv, CallsUnderWay, CountsEachCall
  <2>7. Shares'
    BY <1>2, <1>4 DEF Shares, CountsEachCall
  <2> QED
    BY <2>5, <2>6, <2>7 DEF CountInv
<1> QED
  BY <1>3, <1>4

\* A thread begins a call when some are missing.
LEMMA EnterKeepsCount ==
    ASSUME WideCounters, LeakyInv, CountInv, opts.max > 0, Live,
           NEW t \in Threads, EnterCall(t)
    PROVE  CountInv'
<1> USE OptionFacts
    DEF LeakyInv, PcTypes, DataTypes, CountTypes, Live
<1>1. /\ pc[t] = "loop" /\ pc' = [pc EXCEPT ![t] = "op"] /\ MoreCalls(t)
      /\ UNCHANGED <<client, opts, threadOps, operationsCompleted>>
      /\ UNCHANGED operationsPerThread
  BY DEF EnterCall, Goto, countVars, operationsPerThread
<1>2. Reported' = Reported
  BY <1>1 DEF Reported
<1>3. Shares'
  <2>1. ~ CountsEachCall /\ operationsPerThread > 0 =>
            threadOps[t] < operationsPerThread
    BY <1>1, ShareFacts DEF MoreCalls, PollsIsDone
  <2> QED
    BY <1>1, <1>2, <2>1 DEF CountInv, Shares, CountsEachCall
<1>4. CallsUnderWay'
  <2> SUFFICES ASSUME CountsEachCall PROVE CallsUnderWay'
    BY <1>1 DEF CallsUnderWay, CountsEachCall
  <2>1. operationsCompleted % CastModulus < opts.max
    BY <1>1 DEF MoreCalls, PollsIsDone, isDone
  <2>2. /\ InCall' = InCall \cup {t} /\ t \notin InCall
        /\ Cardinality(InCall) \in Nat
        /\ Cardinality(InCall)' = Cardinality(InCall) + 1
        /\ Cardinality(InCall)' <= ThreadCount
    <3>1. InCall' = InCall \cup {t} /\ t \notin InCall
      BY <1>1 DEF InCall
    <3> QED
      BY <3>1, ThreadSets DEF InCall
  <2>3. operationsCompleted < CastModulus
    BY <2>2 DEF CountInv, CallsUnderWay, WideCounters, OptionTypes
  <2>4. operationsCompleted < opts.max
    BY <2>1, <2>3
  <2> QED
    BY <1>1, <1>2, <2>2, <2>4 DEF CountInv, CallsUnderWay, CountsEachCall
<1> QED
  BY <1>3, <1>4 DEF CountInv

\* A thread leaves its loop when its share is done, or none is missing.
LEMMA LeaveKeepsCount ==
    ASSUME WideCounters, LeakyInv, CountInv, opts.max > 0, Live,
           NEW t \in Threads, LeaveLoop(t)
    PROVE  CountInv'
<1> USE OptionFacts
    DEF LeakyInv, PcTypes, DataTypes, CountTypes, Live
<1>1. /\ pc[t] = "loop" /\ ~ MoreCalls(t)
      /\ pc' = [pc EXCEPT ![t] = IF CountsEachCall THEN "end" ELSE "count"]
      /\ UNCHANGED <<client, opts, threadOps, operationsCompleted>>
      /\ UNCHANGED operationsPerThread
  BY DEF LeaveLoop, Goto, countVars, operationsPerThread
<1>2. CASE ~ CountsEachCall
  <2>1. Reported' = Reported
    BY <1>1, <1>2 DEF Reported
  <2>2. operationsPerThread > 0 /\ threadOps[t] = operationsPerThread
    <3>1. CASE operationsPerThread = 0
      <4>1. operationsCompleted = 0
        BY <1>2, <3>1, ThreadSets DEF CountInv, Shares, Reported
      <4>2. ~ isDone
        BY <4>1 DEF isDone
      <4> QED
        BY <1>1, <3>1, <4>2 DEF MoreCalls, PollsIsDone
    <3>2. CASE operationsPerThread # 0
      BY <1>1, <1>2, <3>2, ShareFacts
         DEF MoreCalls, PollsIsDone, CountInv, Shares
    <3> QED
      BY <3>1, <3>2
  <2>3. Shares'
    BY <1>1, <1>2, <2>1, <2>2 DEF CountInv, Shares, CountsEachCall
  <2>4. CallsUnderWay'
    BY <1>1, <1>2 DEF CallsUnderWay, CountsEachCall
  <2> QED
    BY <2>3, <2>4 DEF CountInv
<1>3. CASE CountsEachCall
  <2>1. InCall' = InCall /\ Reported' = Reported \cup {t}
    BY <1>1, <1>3 DEF InCall, Reported
  <2>2. operationsCompleted % CastModulus >= opts.max
    BY <1>1, <1>3 DEF MoreCalls, PollsIsDone, isDone
  <2>3. operationsCompleted % CastModulus <= operationsCompleted
    OBVIOUS
  <2>4. CallsUnderWay'
    BY <1>1, <1>3, <2>1, <2>2, <2>3
       DEF CountInv, CallsUnderWay, CountsEachCall
  <2>5. Shares'
    BY <1>1, <1>3 DEF Shares, CountsEachCall
  <2> QED
    BY <2>4, <2>5 DEF CountInv
<1> QED
  BY <1>2, <1>3

LEMMA ReturnKeepsCount ==
    ASSUME WideCounters, LeakyInv, CountInv, opts.max > 0, Live,
           NEW t \in Threads, ReturnFromCall(t)
    PROVE  CountInv'
<1> USE OptionFacts
    DEF LeakyInv, PcTypes, DataTypes, CountTypes, Live
<1>1. /\ pc[t] = "op"
      /\ pc' = [pc EXCEPT ![t] = IF CountsEachCall THEN "count" ELSE "loop"]
      /\ UNCHANGED <<client, opts, operationsCompleted, operationsPerThread>>
  BY DEF ReturnFromCall, Goto, operationsPerThread
<1>2. Reported' = Reported
  BY <1>1 DEF Reported
<1>3. CASE ~ CountsEachCall
  <2>1. threadOps' = [threadOps EXCEPT ![t] = (@ + 1) % CounterModulus]
    BY <1>3 DEF ReturnFromCall
  <2>2. ASSUME operationsPerThread > 0
        PROVE  threadOps'[t] <= operationsPerThread
    <3>1. threadOps[t] + 1 <= operationsPerThread
      BY <1>1, <1>3, <2>2, ShareFacts DEF CountInv, Shares
    <3>2. threadOps[t] \in Nat /\ threadOps[t] + 1 < CounterModulus
      BY <3>1, ShareFacts
    <3>3. (threadOps[t] + 1) % CounterModulus = threadOps[t] + 1
      <4> DEFINE n == threadOps[t] + 1
      <4> HIDE DEF n
      <4>1. n \in Nat /\ n < CounterModulus
        BY <3>2 DEF n
      <4>2. n % CounterModulus = n
        BY <4>1
      <4> QED
        BY <4>2 DEF n
    <3> QED
      BY <2>1, <3>1, <3>3
  <2>3. Shares'
    BY <1>1, <1>2, <1>3, <2>1, <2>2 DEF CountInv, Shares, CountsEachCall
  <2>4. CallsUnderWay'
    BY <1>1, <1>3 DEF CallsUnderWay, CountsEachCall
  <2> QED
    BY <2>3, <2>4 DEF CountInv
<1>4. CASE CountsEachCall
  <2>1. InCall' = InCall
    BY <1>1, <1>4 DEF InCall
  <2>2. CallsUnderWay'
    BY <1>1, <1>2, <2>1 DEF CountInv, CallsUnderWay, CountsEachCall
  <2>3. Shares'
    BY <1>1, <1>4 DEF Shares, CountsEachCall
  <2> QED
    BY <2>2, <2>3 DEF CountInv
<1> QED
  BY <1>3, <1>4

\* The other steps neither count nor call.
LEMMA OthersKeepCount ==
    ASSUME CountInv,
           UNCHANGED <<client, opts, threadOps, operationsCompleted>>,
           \A t \in Threads :
               /\ pc'[t] = "op" <=> pc[t] = "op"
               /\ pc'[t] = "count" <=> pc[t] = "count"
               /\ pc'[t] \in {"end", "done"} <=> pc[t] \in {"end", "done"}
    PROVE  CountInv'
<1>1. UNCHANGED <<operationsPerThread, CountsEachCall, InCall, Reported>>
  BY DEF operationsPerThread, CountsEachCall, InCall, Reported
<1> QED
  BY <1>1 DEF CountInv, Shares, CallsUnderWay

LEMMA CountInvStep ==
    ASSUME WideCounters, LeakyInv, CountInv, [LeakyNext]_vars
    PROVE  /\ CountInv'
           /\ opts.max > 0 => operationsCompleted' >= operationsCompleted
<1>0. UNCHANGED <<client, opts>> /\ opts.max \in Nat
      /\ operationsCompleted \in Nat
  BY FinishedStays, OptionFacts DEF LeakyInv, DataTypes, CountTypes
<1>1. CASE opts.max = 0
  BY <1>0, <1>1 DEF CountInv, Shares, CallsUnderWay
<1>2. ASSUME opts.max > 0, NEW t \in Threads, Live, Thread(t)
      PROVE  CountInv' /\ operationsCompleted' >= operationsCompleted
  <2>1. CASE CompletedOperations(t)
    BY <1>2, <2>1, ReportKeepsCount
  <2>2. CASE EnterCall(t) \/ LeaveLoop(t) \/ ReturnFromCall(t)
    BY <1>0, <1>2, <2>2, EnterKeepsCount, LeaveKeepsCount, ReturnKeepsCount
       DEF EnterCall, LeaveLoop, ReturnFromCall, countVars
  <2>3. CASE \/ InsideStartBarrier(t) \/ LeaveStartBarrier(t)
             \/ FirstThreadStartsTiming(t) \/ FirstThreadSetsAlarm(t)
             \/ InsideRunBarrier(t) \/ LeaveRunBarrier(t)
             \/ InsideLastBarrier(t) \/ ReturnFromThread(t)
    <3>1. UNCHANGED <<threadOps, operationsCompleted>>
      BY <2>3 DEF InsideStartBarrier, LeaveStartBarrier,
                  FirstThreadStartsTiming, FirstThreadSetsAlarm,
                  InsideRunBarrier, LeaveRunBarrier, InsideLastBarrier,
                  ReturnFromThread, countVars
    <3>2. /\ pc[t] \notin {"op", "count"} /\ pc'[t] \notin {"op", "count"}
          /\ pc'[t] \in {"end", "done"} <=> pc[t] \in {"end", "done"}
      BY <2>3 DEF InsideStartBarrier, LeaveStartBarrier,
                  FirstThreadStartsTiming, FirstThreadSetsAlarm,
                  InsideRunBarrier, LeaveRunBarrier, InsideLastBarrier,
                  ReturnFromThread, Goto, LeakyInv, PcTypes
    <3>3. \A u \in Threads : u # t => pc'[u] = pc[u]
      BY <1>2, OnlyItselfMoves DEF LeakyInv
    <3> QED
      BY <1>0, <3>1, <3>2, <3>3, OthersKeepCount
  <2> QED
    BY <1>2, <2>1, <2>2, <2>3 DEF Thread
<1>3. ASSUME NEW t \in Threads, StartThread(t)
      PROVE  CountInv' /\ operationsCompleted' >= operationsCompleted
  <2>1. /\ UNCHANGED <<threadOps, operationsCompleted>>
        /\ pc[t] = "none" /\ pc'[t] \in {"start", "missing"}
        /\ \A u \in Threads : u # t => pc'[u] = pc[u]
    BY <1>3 DEF StartThread, Goto, countVars, LeakyInv, PcTypes
  <2> QED
    BY <1>0, <2>1, OthersKeepCount
<1>4. CASE UNCHANGED <<opts, client, pc, threadOps, operationsCompleted>>
  BY <1>0, <1>4, OthersKeepCount
<1> QED
  BY <1>0, <1>1, <1>2, <1>3, <1>4, LeakyStepKinds

\* Once isDone is true it stays true.
LEMMA DoneStays ==
    ASSUME WideCounters, LeakyInv, CountInv, [LeakyNext]_vars, isDone
    PROVE  isDone'
<1>1. UNCHANGED <<client, opts>> /\ (finished => finished')
  BY FinishedStays
<1>2. CASE opts.max = 0
  BY <1>1, <1>2 DEF isDone
<1>3. CASE opts.max # 0
  <2>1. LeakyInv' /\ CountInv' /\ opts.max > 0
        /\ operationsCompleted' >= operationsCompleted
    BY <1>3, LeakyInvStep, CountInvStep, OptionFacts DEF LeakyInv, DataTypes
  <2>2. operationsCompleted' < CastModulus
    <3> USE OptionFacts DEF LeakyInv, DataTypes, CountTypes
    <3>1. opts.max + ThreadCount <= CastModulus
      BY DEF WideCounters, OptionTypes
    <3>2. CASE CountsEachCall
      <4>1. /\ operationsCompleted' + Cardinality(InCall)'
                  <= opts.max - 1 + ThreadCount
        BY <1>1, <2>1, <3>2 DEF CountInv, CallsUnderWay, CountsEachCall
      <4>2. Cardinality(InCall') \in Nat
        BY ThreadSets DEF InCall
      <4> QED
        BY <2>1, <3>1, <4>1, <4>2
    <3>3. CASE ~ CountsEachCall
      <4> DEFINE n == Cardinality(Reported')
      <4>1. operationsCompleted' = n * operationsPerThread
        BY <1>1, <2>1, <3>3
           DEF CountInv, Shares, CountsEachCall, operationsPerThread
      <4>2. n \in 0 .. ThreadCount
        BY ThreadSets DEF Reported
      <4>3. n * operationsPerThread \in 0 .. opts.max
        BY <4>2, ShareFacts
      <4> HIDE DEF n
      <4> QED
        BY <3>1, <4>1, <4>3
    <3> QED
      BY <3>2, <3>3
  <2> USE OptionFacts DEF LeakyInv, DataTypes, CountTypes
  <2>3. operationsCompleted % CastModulus <= operationsCompleted
    OBVIOUS
  <2>4. operationsCompleted' % CastModulus = operationsCompleted'
    BY <2>1, <2>2
  <2>5. opts.max <= operationsCompleted % CastModulus
    BY <1>3 DEF isDone
  <2>6. opts.max <= operationsCompleted' % CastModulus
    BY <2>1, <2>3, <2>4, <2>5
  <2> QED
    BY <1>1, <1>3, <2>6 DEF isDone
<1> QED
  BY <1>2, <1>3

\* Once one thread has been told to stop, so are all that ask later (isDone,
\* MicroBenchmarkHarness.hpp:235), if the counters are wide enough.
THEOREM DoneStaysDone ==
    ASSUME WideCounters
    PROVE  Spec => DoneIsForever
<1>1. [Next]_vars => [LeakyNext]_vars
  BY DEF LeakyNext
<1>2. Init => LeakyInv /\ CountInv
  BY LeakyInvInit, CountInvInit
<1>3. LeakyInv /\ CountInv /\ [LeakyNext]_vars =>
          /\ (LeakyInv /\ CountInv)'
          /\ isDone => isDone'
  BY LeakyInvStep, CountInvStep, DoneStays
<1> QED
  BY <1>1, <1>2, <1>3, PTL DEF Spec, DoneIsForever

-----------------------------------------------------------------------------
(***************************************************************************)
(* The audit.                                                              *)
(***************************************************************************)
LEMMA AuditStepIsLeakyStep ==
    ASSUME [AuditNext]_auditVars
    PROVE  [LeakyNext]_vars /\ (Audit \/ UNCHANGED audit)
BY DEF AuditNext, auditVars

LEMMA LeakyInvAudited == AuditSpec => []LeakyInv
<1>1. AuditInit => LeakyInv
  BY LeakyInvInit DEF AuditInit
<1>2. LeakyInv /\ [AuditNext]_auditVars => LeakyInv'
  BY LeakyInvStep, AuditStepIsLeakyStep
<1> QED
  BY <1>1, <1>2, PTL DEF AuditSpec

-----------------------------------------------------------------------------
(***************************************************************************)
(* The alarm.  Two are set, by main in Init and by thread 0.  As long as   *)
(* the set-up has not taken the run time, the first has not expired; it is *)
(* then replaced by the second, so that only one signal is ever on its     *)
(* way, and it finds the handler that thread 0 has installed.              *)
(***************************************************************************)
StartingTiming == timing # "clock" => mainPc = "init" \/ pc[0] = "timing"

NoAlarmForNothing == opts.rt <= 0 => alarm = 0 /\ ~ pending /\ ~ finished

\* During the set-up, setup measures how long the alarm of Init has been on.
SetupCounted ==
    /\ setup \in Nat
    /\ mainPc = "init" => setup = 0 /\ alarm = 0
    /\ ~ TimingStarted /\ alarm # 0 => alarm = now - setup + opts.rt

DuringSetup ==
    ~ TimingStarted =>
        /\ ~ pending /\ ~ finished
        /\ \/ handler = "StopSignal"
           \/ mainPc = "init" /\ timing \in {"clock", "handler"}

DuringTheRun ==
    TimingStarted =>
        /\ alarm # 0 => /\ alarm >= startTime + opts.rt
                        /\ handler = "StopSignal" /\ ~ pending
        /\ pending => /\ now >= startTime + opts.rt
                      /\ handler = "StopSignal"

AlarmInv ==
    /\ StartingTiming
    /\ NoAlarmForNothing
    /\ SetupCounted
    /\ ~ LongSetup => DuringSetup /\ DuringTheRun
    /\ KilledOnlyAfterLongSetup

\* Only thread 0, when it has set the alarm, makes the timing started.
LEMMA TimingStartedStays ==
    ASSUME PcTypes, NEW t \in Threads, Thread(t), ~ FirstThreadSetsAlarm(t)
    PROVE  UNCHANGED TimingStarted
<1>1. pc \in [Threads -> ThreadPlaces] /\ t \in Threads /\ 0 \in Threads
  BY ThreadsFinite DEF PcTypes
<1>2. CASE UNCHANGED pc
  BY <1>2 DEF TimingStarted
<1>3. CASE LeaveStartBarrier(t)
  BY <1>1, <1>3 DEF LeaveStartBarrier, Goto, TimingStarted, NotYet
<1>4. CASE LeaveRunBarrier(t) \/ ReturnFromThread(t)
  <2>1. /\ pc[t] \in {"run", "end"}
        /\ pc' = [pc EXCEPT ![t] = "loop"] \/ pc' = [pc EXCEPT ![t] = "done"]
    BY <1>4 DEF LeaveRunBarrier, ReturnFromThread, Goto
  <2> QED
    BY <1>1, <2>1 DEF TimingStarted, NotYet
<1>5. CASE EnterCall(t) \/ ReturnFromCall(t) \/ LeaveLoop(t)
           \/ CompletedOperations(t)
  <2>1. PICK to \in Measuring \cup {"end"} :
            pc[t] \in Measuring /\ pc' = [pc EXCEPT ![t] = to]
    BY <1>5 DEF EnterCall, ReturnFromCall, LeaveLoop, CompletedOperations,
                Goto, Measuring
  <2> QED
    BY <1>1, <2>1 DEF TimingStarted, NotYet, Measuring
<1> QED
  BY <1>2, <1>3, <1>4, <1>5
     DEF Thread, InsideStartBarrier, FirstThreadStartsTiming, InsideRunBarrier,
         InsideLastBarrier

\* Without a run time no alarm is ever on.
LEMMA NoAlarmStep == NoAlarmForNothing /\ [LeakyNext]_vars => NoAlarmForNothing'
<1> SUFFICES ASSUME NoAlarmForNothing, [LeakyNext]_vars
             PROVE  NoAlarmForNothing'
  OBVIOUS
<1>0. UNCHANGED opts
  BY FinishedStays
<1>1. CASE UNCHANGED <<alarm, pending, finished>>
  BY <1>0, <1>1 DEF NoAlarmForNothing
<1>2. CASE SetAlarm
  BY <1>0, <1>2 DEF NoAlarmForNothing, SetAlarm, clockVars
<1>3. CASE AlarmExpires \/ StopSignal
  BY <1>0, <1>3 DEF NoAlarmForNothing, AlarmExpires, StopSignal
<1>4. CASE MainStep
  BY <1>1, <1>2, <1>4
     DEF MainStep, Main, MainStartsTiming, BeforeTheAlarm, TakeStartTime,
         InstallHandler, ResumeTiming, InitReturns, SuspendTiming,
         StartThread, WaitForThreads, JoinMissingThread, StopTiming,
         PrintResults, ReturnFromMain, signalVars, timingVars
<1>5. ASSUME NEW t \in Threads, ThreadStep(t) PROVE NoAlarmForNothing'
  BY <1>1, <1>2, <1>5
     DEF ThreadStep, Thread, InsideStartBarrier, LeaveStartBarrier,
         FirstThreadStartsTiming, BeforeTheAlarm, TakeStartTime,
         InstallHandler, ResumeTiming, FirstThreadSetsAlarm,
         InsideRunBarrier, LeaveRunBarrier, EnterCall, ReturnFromCall,
         LeaveLoop, CompletedOperations, InsideLastBarrier,
         ReturnFromThread, mainVars, signalVars, timingVars
<1>6. CASE \/ Live /\ (KilledByAlarm \/ GracefulExit)
           \/ Tick \/ UNCHANGED vars \/ \E t \in Threads : SpuriousWake(t)
  BY <1>1, <1>6 DEF KilledByAlarm, GracefulExit, Tick, SpuriousWake,
                    mainVars, signalVars, timingVars, vars
<1> QED
  BY <1>3, <1>4, <1>5, <1>6 DEF LeakyNext, Next, AlarmStep, ProcessOver

LEMMA AlarmInvInit == AuditInit => AlarmInv
<1> SUFFICES ASSUME AuditInit PROVE AlarmInv
  OBVIOUS
<1>1. ~ TimingStarted
  BY ThreadsFinite DEF AuditInit, Init, TimingStarted, NotYet
<1> QED
  BY <1>1
     DEF AuditInit, Init, AlarmInv, StartingTiming, SetupCounted, DuringSetup,
         DuringTheRun, NoAlarmForNothing, KilledOnlyAfterLongSetup

\* A step that leaves the signals alone, and where the threads are.
LEMMA AlarmInvKept ==
    ASSUME AlarmInv,
           UNCHANGED <<opts, now, setup, startTime, alarm, pending, finished,
                       handler, timing, TimingStarted>>,
           mainPc' = "init" => mainPc = "init",
           mainPc = "init" => mainPc' = "init" \/ timing \notin {"clock", "handler"},
           StartingTiming', outcome' = "killed" => outcome = "killed"
    PROVE  AlarmInv'
<1>1. SetupCounted' /\ NoAlarmForNothing'
  BY DEF AlarmInv, SetupCounted, NoAlarmForNothing
<1>2. ~ LongSetup' => DuringSetup' /\ DuringTheRun'
  BY DEF AlarmInv, LongSetup, DuringSetup, DuringTheRun
<1>3. KilledOnlyAfterLongSetup'
  BY DEF AlarmInv, KilledOnlyAfterLongSetup, LongSetup
<1> QED
  BY <1>1, <1>2, <1>3 DEF AlarmInv

LEMMA AlarmInvMain ==
    ASSUME LeakyInv, AlarmInv, Live, Main, UNCHANGED setup, NoAlarmForNothing'
    PROVE  AlarmInv'
<1> USE OptionFacts DEF LeakyInv, DataTypes, ClockTypes, Live, MainInv
<1>0. ASSUME mainPc \in {"init", "suspend"} PROVE ~ TimingStarted
  BY <1>0, ThreadsFinite DEF TimingStarted, NotYet
<1>a. outcome # "killed" /\ UNCHANGED <<opts, now>>
  OBVIOUS
<1>1. CASE MainStartsTiming
  <2>1. mainPc = "init" /\ UNCHANGED <<mainPc, pc, outcome, TimingStarted>>
    BY <1>1 DEF MainStartsTiming, TimingStarted
  <2>2. UNCHANGED <<alarm, pending, finished>>
    BY <1>1 DEF MainStartsTiming, BeforeTheAlarm, TakeStartTime,
                InstallHandler, ResumeTiming, signalVars
  <2>3. ASSUME ~ LongSetup PROVE DuringSetup' /\ DuringTheRun'
    <3>1. DuringSetup
      BY <2>3 DEF AlarmInv
    <3>2. \/ handler' = "StopSignal"
          \/ mainPc' = "init" /\ timing' \in {"clock", "handler"}
      BY <1>0, <1>1, <2>1, <3>1
         DEF MainStartsTiming, BeforeTheAlarm, TakeStartTime, InstallHandler,
             ResumeTiming, signalVars, DuringSetup
    <3> QED
      BY <1>0, <2>1, <2>2, <3>1, <3>2 DEF DuringSetup, DuringTheRun
  <2>4. StartingTiming' /\ SetupCounted' /\ UNCHANGED LongSetup
    BY <2>1, <2>2 DEF AlarmInv, StartingTiming, SetupCounted, LongSetup
  <2> QED
    BY <1>a, <2>1, <2>3, <2>4 DEF AlarmInv, KilledOnlyAfterLongSetup
<1>2. CASE InitReturns
  <2>1. /\ mainPc = "init" /\ mainPc' \in {"suspend", "create"}
        /\ timing = "alarm" /\ timing' = "clock"
        /\ alarm' = IF opts.rt <= 0 THEN 0 ELSE now + opts.rt
        /\ UNCHANGED <<pc, outcome, TimingStarted, handler, pending, finished>>
    BY <1>2 DEF InitReturns, SetAlarm, TimingStarted
  <2>2. setup = 0 /\ SetupCounted'
    BY <1>a, <2>1 DEF AlarmInv, SetupCounted
  <2>3. ~ LongSetup => DuringSetup' /\ DuringTheRun'
    BY <1>0, <2>1 DEF AlarmInv, DuringSetup, DuringTheRun
  <2>4. StartingTiming' /\ UNCHANGED LongSetup
    BY <2>1 DEF StartingTiming, LongSetup
  <2> QED
    BY <1>a, <2>1, <2>2, <2>3, <2>4 DEF AlarmInv, KilledOnlyAfterLongSetup
<1>3. CASE SuspendTiming \/ WaitForThreads \/ StopTiming \/ PrintResults
           \/ JoinMissingThread \/ ReturnFromMain
  <2>1. /\ UNCHANGED <<pc, startTime, alarm, pending, finished, handler, timing,
                       TimingStarted>>
        /\ mainPc # "init" /\ mainPc' # "init"
        /\ outcome' # "killed"
    BY <1>3 DEF SuspendTiming, WaitForThreads, StopTiming, PrintResults,
                JoinMissingThread, ReturnFromMain, clockVars, signalVars,
                timingVars, TimingStarted
  <2>2. StartingTiming'
    BY <2>1 DEF AlarmInv, StartingTiming
  <2> QED
    BY <1>a, <2>1, <2>2, AlarmInvKept
<1>4. ASSUME NEW t \in Threads, StartThread(t) PROVE AlarmInv'
  <2>1. /\ UNCHANGED <<startTime, alarm, pending, finished, handler, timing,
                       outcome>>
        /\ mainPc = "create" /\ mainPc' \in {"create", "join"}
        /\ pc[t] = "none" /\ pc'[t] \in {"start", "missing"}
        /\ \A u \in Threads : u # t => pc'[u] = pc[u]
    BY <1>4 DEF StartThread, Goto, clockVars, signalVars, timingVars, PcTypes
  <2>2. UNCHANGED TimingStarted
    BY <2>1, ThreadsFinite DEF TimingStarted, NotYet
  <2>3. StartingTiming'
    BY <2>1, ThreadsFinite DEF AlarmInv, StartingTiming
  <2> QED
    BY <1>a, <2>1, <2>2, <2>3, AlarmInvKept
<1> QED
  BY <1>1, <1>2, <1>3, <1>4 DEF Main

LEMMA AlarmInvThread ==
    ASSUME LeakyInv, AlarmInv, Live, UNCHANGED setup, NoAlarmForNothing',
           NEW t \in Threads, Thread(t)
    PROVE  AlarmInv'
<1> USE OptionFacts DEF LeakyInv, DataTypes, ClockTypes, Live, MainInv
<1>0. /\ mainPc \notin {"init", "suspend"} /\ UNCHANGED <<mainPc, outcome>>
      /\ outcome # "killed" /\ UNCHANGED <<opts, now>>
  BY DEF Thread, InsideStartBarrier, LeaveStartBarrier,
         FirstThreadStartsTiming, FirstThreadSetsAlarm, InsideRunBarrier,
         LeaveRunBarrier, EnterCall, ReturnFromCall, LeaveLoop,
         CompletedOperations, InsideLastBarrier, ReturnFromThread, mainVars
<1>a. UNCHANGED LongSetup
  BY <1>0 DEF LongSetup
<1>1. CASE FirstThreadStartsTiming(t)
  <2>1. t = 0 /\ pc[0] = "timing" /\ UNCHANGED <<pc, TimingStarted>>
    BY <1>1 DEF FirstThreadStartsTiming, TimingStarted
  <2>2. ~ TimingStarted
    BY <2>1 DEF TimingStarted, NotYet
  <2>3. UNCHANGED <<alarm, pending, finished>>
    BY <1>1 DEF FirstThreadStartsTiming, BeforeTheAlarm, TakeStartTime,
                InstallHandler, ResumeTiming, signalVars
  <2>4. ASSUME ~ LongSetup PROVE DuringSetup' /\ DuringTheRun'
    <3>1. handler' = "StopSignal"
      BY <1>0, <1>1, <2>2, <2>4
         DEF FirstThreadStartsTiming, BeforeTheAlarm, TakeStartTime,
             InstallHandler, ResumeTiming, signalVars, AlarmInv, DuringSetup
    <3> QED
      BY <2>1, <2>2, <2>3, <2>4, <3>1 DEF AlarmInv, DuringSetup, DuringTheRun
  <2>5. StartingTiming' /\ SetupCounted'
    BY <1>0, <2>1, <2>3 DEF AlarmInv, StartingTiming, SetupCounted
  <2> QED
    BY <1>0, <1>a, <2>4, <2>5 DEF AlarmInv, KilledOnlyAfterLongSetup
<1>2. CASE FirstThreadSetsAlarm(t)
  <2>1. /\ t = 0 /\ pc[0] = "timing" /\ pc' = [pc EXCEPT ![0] = "run"]
        /\ timing' = "clock"
        /\ alarm' = IF opts.rt <= 0 THEN 0 ELSE now + opts.rt
        /\ UNCHANGED <<startTime, handler, pending, finished>>
    BY <1>2 DEF FirstThreadSetsAlarm, SetAlarm, Goto, clockVars
  <2>2. ~ TimingStarted /\ TimingStarted'
    BY <2>1, ThreadsFinite DEF TimingStarted, NotYet, PcTypes
  <2>3. ASSUME ~ LongSetup PROVE DuringSetup' /\ DuringTheRun'
    <3>1. handler = "StopSignal" /\ ~ pending /\ ~ finished
      BY <1>0, <2>2, <2>3 DEF AlarmInv, DuringSetup
    <3>2. alarm' # 0 => alarm' >= startTime + opts.rt
      BY <2>1
    <3> QED
      BY <1>0, <2>1, <2>2, <3>1, <3>2 DEF DuringSetup, DuringTheRun
  <2>4. StartingTiming' /\ SetupCounted'
    BY <1>0, <2>1, <2>2 DEF AlarmInv, StartingTiming, SetupCounted
  <2> QED
    BY <1>0, <1>a, <2>3, <2>4 DEF AlarmInv, KilledOnlyAfterLongSetup
<1>3. CASE ~ FirstThreadStartsTiming(t) /\ ~ FirstThreadSetsAlarm(t)
  <2>1. UNCHANGED mainVars /\ UNCHANGED TimingStarted /\ pc[t] # "timing"
    BY <1>3, TimingStartedStays
       DEF Thread, InsideStartBarrier, LeaveStartBarrier, InsideRunBarrier,
           LeaveRunBarrier, EnterCall, ReturnFromCall, LeaveLoop,
           CompletedOperations, InsideLastBarrier, ReturnFromThread, Measuring
  <2>2. StartingTiming'
    <3>1. ASSUME timing # "clock" PROVE pc'[0] = "timing"
      <4>1. pc[0] = "timing" /\ t # 0
        BY <1>0, <2>1, <3>1 DEF AlarmInv, StartingTiming
      <4>2. pc'[0] = pc[0]
        BY <4>1, OnlyItselfMoves, ThreadsFinite
      <4> QED
        BY <4>1, <4>2
    <3> QED
      BY <2>1, <3>1 DEF StartingTiming, mainVars, timingVars
  <2> QED
    BY <1>0, <2>1, <2>2, AlarmInvKept
       DEF mainVars, clockVars, signalVars, timingVars
<1> QED
  BY <1>1, <1>2, <1>3

\* The set-up is counted by the clock alone.
LEMMA SetupStep ==
    ASSUME SetupCounted, [AuditNext]_auditVars, UNCHANGED now
    PROVE  UNCHANGED setup
BY DEF SetupCounted, AuditNext, Audit, auditVars, audit

LEMMA TicksOnly ==
    ASSUME [LeakyNext]_vars
    PROVE  Tick \/ UNCHANGED now
BY DEF LeakyNext, Next, MainStep, ThreadStep, AlarmStep, Live, ProcessOver, vars

LEMMA AlarmInvStep ==
    LeakyInv /\ AlarmInv /\ [AuditNext]_auditVars => AlarmInv'
<1> SUFFICES ASSUME LeakyInv, AlarmInv, [AuditNext]_auditVars PROVE AlarmInv'
  OBVIOUS
<1>0. [LeakyNext]_vars /\ NoAlarmForNothing'
  BY AuditStepIsLeakyStep, NoAlarmStep DEF AlarmInv
<1>a. UNCHANGED now => UNCHANGED setup
  BY SetupStep DEF AlarmInv
<1> USE OptionFacts DEF LeakyInv, DataTypes, ClockTypes
<1>1. CASE MainStep
  BY <1>0, <1>1, <1>a, AlarmInvMain DEF MainStep, Live
<1>2. CASE \E t \in Threads : ThreadStep(t)
  BY <1>0, <1>2, <1>a, AlarmInvThread DEF ThreadStep, Live
<1>3. CASE Live /\ AlarmExpires
  <2>1. /\ UNCHANGED <<opts, now, setup, mainPc, pc, timing, outcome, startTime,
                       handler, finished, TimingStarted, LongSetup>>
        /\ outcome = "running"
        /\ alarm # 0 /\ alarm <= now /\ alarm' = 0 /\ pending'
    BY <1>3, <1>a DEF Live, AlarmExpires, clockVars, timingVars, TimingStarted,
                      LongSetup
  <2>2. ASSUME ~ LongSetup PROVE DuringSetup' /\ DuringTheRun'
    <3>1. opts.rt > 0
      BY <2>1 DEF AlarmInv, NoAlarmForNothing
    <3>2. TimingStarted
      BY <2>1, <2>2, <3>1 DEF AlarmInv, SetupCounted, LongSetup
    <3> QED
      BY <2>1, <2>2, <3>2 DEF AlarmInv, DuringSetup, DuringTheRun
  <2>3. StartingTiming' /\ SetupCounted'
    BY <2>1 DEF AlarmInv, StartingTiming, SetupCounted
  <2> QED
    BY <1>0, <2>1, <2>2, <2>3 DEF AlarmInv, KilledOnlyAfterLongSetup
<1>4. CASE Live /\ StopSignal
  <2>1. /\ UNCHANGED <<opts, now, setup, mainPc, pc, timing, outcome, startTime,
                       alarm, TimingStarted, LongSetup>>
        /\ outcome = "running"
        /\ pending /\ ~ pending'
    BY <1>4, <1>a DEF Live, StopSignal, TimingStarted, LongSetup
  <2>2. ASSUME ~ LongSetup PROVE DuringSetup' /\ DuringTheRun'
    <3>1. TimingStarted /\ alarm = 0
      BY <2>1, <2>2 DEF AlarmInv, DuringSetup, DuringTheRun
    <3> QED
      BY <2>1, <3>1 DEF DuringSetup, DuringTheRun
  <2>3. StartingTiming' /\ SetupCounted'
    BY <2>1 DEF AlarmInv, StartingTiming, SetupCounted
  <2> QED
    BY <1>0, <2>1, <2>2, <2>3 DEF AlarmInv, KilledOnlyAfterLongSetup
<1>5. CASE Live /\ KilledByAlarm
  <2>1. /\ UNCHANGED <<opts, now, setup, mainPc, pc, timing, startTime, alarm,
                       pending, finished, handler, TimingStarted, LongSetup>>
        /\ pending /\ handler = "default"
    BY <1>5, <1>a DEF Live, KilledByAlarm, clockVars, signalVars, timingVars,
                      TimingStarted, LongSetup
  <2>2. LongSetup
    BY <2>1 DEF AlarmInv, DuringSetup, DuringTheRun
  <2>3. StartingTiming' /\ SetupCounted'
    BY <2>1 DEF AlarmInv, StartingTiming, SetupCounted
  <2> QED
    BY <1>0, <2>1, <2>2, <2>3 DEF AlarmInv, KilledOnlyAfterLongSetup
<1>6. CASE \/ Live /\ GracefulExit
           \/ \E t \in Threads : Live /\ SpuriousWake(t)
           \/ UNCHANGED vars
  <2>1. /\ UNCHANGED <<opts, now, setup, startTime, alarm, pending, finished,
                       handler, timing, mainPc, pc, TimingStarted>>
        /\ outcome' = "killed" => outcome = "killed"
    BY <1>6, <1>a DEF Live, GracefulExit, SpuriousWake, mainVars, clockVars,
                      signalVars, timingVars, TimingStarted, vars
  <2>2. StartingTiming'
    BY <2>1 DEF AlarmInv, StartingTiming
  <2> QED
    BY <2>1, <2>2, AlarmInvKept
<1>7. CASE Tick
  <2>1. /\ UNCHANGED <<opts, startTime, alarm, pending, finished, handler,
                       timing, mainPc, pc, outcome, TimingStarted>>
        /\ now' = now + 1 /\ outcome = "running"
    BY <1>7 DEF Tick, mainVars, clockVars, signalVars, timingVars, TimingStarted
  <2>2. setup' = setup + IF SettingUp THEN 1 ELSE 0
    <3>1. now' # now
      BY <2>1
    <3> QED
      BY <3>1 DEF AuditNext, Audit, auditVars, vars
  <2>3. SetupCounted'
    BY <2>1, <2>2 DEF AlarmInv, SetupCounted, SettingUp
  <2>4. ~ LongSetup' => ~ LongSetup
    BY <2>1, <2>2 DEF LongSetup, AlarmInv, SetupCounted
  <2>5. ~ LongSetup' => DuringSetup' /\ DuringTheRun'
    BY <2>1, <2>4 DEF AlarmInv, DuringSetup, DuringTheRun
  <2>6. StartingTiming'
    BY <2>1 DEF AlarmInv, StartingTiming
  <2> QED
    BY <1>0, <2>1, <2>3, <2>5, <2>6 DEF AlarmInv, KilledOnlyAfterLongSetup
<1> QED
  BY <1>0, <1>1, <1>2, <1>3, <1>4, <1>5, <1>6, <1>7
     DEF LeakyNext, Next, AlarmStep, ProcessOver

LEMMA AlarmInvariant == AuditSpec => []AlarmInv
BY AlarmInvInit, AlarmInvStep, LeakyInvAudited, PTL DEF AuditSpec

\* SIGALRM kills the process only if the set-up has lasted as long as -rt
\* (SA_RESETHAND, MicroBenchmarkHarness.hpp:199), whatever the time it takes
\* to be delivered and whatever the waits in the barriers do.
THEOREM AlarmFindsHandler == AuditSpec => []KilledOnlyAfterLongSetup
<1>1. AlarmInv => KilledOnlyAfterLongSetup
  BY DEF AlarmInv
<1> QED
  BY <1>1, AlarmInvariant, PTL

Stopped ==
    ~ LongSetup =>
        /\ finished => stopTime >= startTime + opts.rt
        /\ stopTime # 0 => /\ finished \/ mainPc \in {"print", "exit"}
                           /\ stopTime >= startTime

\* A thread of a run without -max leaves its loop when it is told to.
ToldToStop ==
    \A t \in Threads :
        pc[t] \in {"end", "done"} \/ (pc[t] = "count" /\ ~ CountsEachCall) =>
            opts.maxSet \/ finished

LimitInv == Stopped /\ ToldToStop /\ RunLastsUntilItsLimit

LEMMA LimitInvInit == AuditInit => LimitInv
BY DEF AuditInit, Init, LimitInv, Stopped, ToldToStop, RunLastsUntilItsLimit,
       NothingPrinted

\* What a step does to a thread that has not been told to stop.
LEMMA ToldToStopStep ==
    ASSUME LeakyInv, ToldToStop, [LeakyNext]_vars
    PROVE  ToldToStop'
<1> USE OptionFacts DEF LeakyInv, DataTypes
<1>0. UNCHANGED <<client, opts>> /\ (finished => finished')
  BY FinishedStays
<1>1. ASSUME UNCHANGED pc PROVE ToldToStop'
  BY <1>0, <1>1 DEF ToldToStop, CountsEachCall
<1>2. ASSUME NEW t \in Threads, StartThread(t) PROVE ToldToStop'
  BY <1>0, <1>2
     DEF ToldToStop, StartThread, Goto, CountsEachCall, PcTypes
<1>3. ASSUME NEW t \in Threads, Thread(t) PROVE ToldToStop'
  <2>1. \A u \in Threads : u # t => pc'[u] = pc[u]
    BY <1>3, OnlyItselfMoves DEF PcTypes, PcTypes
  <2>2. pc'[t] \in {"end", "done"} \/ (pc'[t] = "count" /\ ~ CountsEachCall)
            => opts.maxSet \/ finished
    <3>1. CASE LeaveLoop(t)
      <4>1. ~ MoreCalls(t)
        BY <3>1 DEF LeaveLoop
      <4>2. CASE opts.maxSet
        BY <4>2
      <4>3. CASE ~ opts.maxSet
        <5>1. opts.max = 0
          BY <4>3
        <5>2. operationsPerThread = 0
          BY <5>1 DEF operationsPerThread
        <5>3. isDone
          BY <4>1, <5>2 DEF MoreCalls, PollsIsDone
        <5> QED
          BY <5>1, <5>3 DEF isDone
      <4> QED
        BY <4>2, <4>3
    <3>2. CASE CompletedOperations(t)
      BY <3>2 DEF CompletedOperations, Goto, ToldToStop, PcTypes
    <3>3. CASE ReturnFromCall(t)
      BY <3>3 DEF ReturnFromCall, Goto, PcTypes
    <3>4. CASE InsideLastBarrier(t) \/ ReturnFromThread(t)
      BY <3>4 DEF InsideLastBarrier, ReturnFromThread, ToldToStop
    <3>5. CASE \/ InsideStartBarrier(t) \/ LeaveStartBarrier(t)
               \/ FirstThreadStartsTiming(t) \/ FirstThreadSetsAlarm(t)
               \/ InsideRunBarrier(t) \/ LeaveRunBarrier(t) \/ EnterCall(t)
      <4>1. pc'[t] \notin {"end", "done", "count"}
        BY <3>5 DEF InsideStartBarrier, LeaveStartBarrier,
                    FirstThreadStartsTiming, FirstThreadSetsAlarm,
                    InsideRunBarrier, LeaveRunBarrier, EnterCall, Goto,
                    PcTypes
      <4> QED
        BY <4>1
    <3> QED
      BY <1>3, <3>1, <3>2, <3>3, <3>4, <3>5 DEF Thread
  <2> QED
    BY <1>0, <2>1, <2>2 DEF ToldToStop, CountsEachCall
<1>4. CASE MainStep
  <2>1. UNCHANGED pc \/ \E t \in Threads : StartThread(t)
    BY <1>4
       DEF MainStep, Main, MainStartsTiming, InitReturns, SuspendTiming,
           WaitForThreads, JoinMissingThread, StopTiming, PrintResults,
           ReturnFromMain
  <2> QED
    BY <1>1, <1>2, <2>1
<1>5. CASE \/ AlarmStep \/ (Live /\ GracefulExit) \/ Tick \/ UNCHANGED vars
           \/ \E t \in Threads : SpuriousWake(t)
  BY <1>1, <1>5 DEF AlarmStep, AlarmExpires, StopSignal, KilledByAlarm,
                    GracefulExit, Tick, SpuriousWake, vars
<1> QED
  BY <1>3, <1>4, <1>5 DEF LeakyNext, Next, ThreadStep, ProcessOver

\* Until the timing has been started, nothing has stopped it; when main stops
\* it or prints, every thread has been told to stop.
LEMMA LimitInvStep ==
    LeakyInv /\ AlarmInv /\ LimitInv /\ [AuditNext]_auditVars => LimitInv'
<1> SUFFICES ASSUME LeakyInv, AlarmInv, LimitInv, [AuditNext]_auditVars
             PROVE  LimitInv'
  OBVIOUS
<1>0. [LeakyNext]_vars /\ ToldToStop' /\ UNCHANGED opts
  BY AuditStepIsLeakyStep, ToldToStopStep, FinishedStays DEF LimitInv
<1>a. ~ LongSetup' => ~ LongSetup
  <2>1. setup' >= setup /\ setup \in Nat
    BY DEF AlarmInv, SetupCounted, AuditNext, Audit, auditVars, audit
  <2> QED
    BY <1>0, <2>1, OptionFacts DEF LongSetup, LeakyInv, DataTypes,
                                   AlarmInv, SetupCounted, AuditNext, Audit,
                                   auditVars, audit
<1> USE OptionFacts DEF LeakyInv, DataTypes, ClockTypes, LimitInv
<1>1. ASSUME UNCHANGED <<startTime, stopTime, finished>>,
             mainPc \in {"print", "exit"} => mainPc' \in {"print", "exit"}
      PROVE  Stopped'
  BY <1>0, <1>1, <1>a DEF Stopped
\* Once the results are printed, the threads stay where they are and the
\* set-up has been measured.
<1>2. ASSUME UNCHANGED report, report.printed => UNCHANGED pc
      PROVE  RunLastsUntilItsLimit'
  BY <1>0, <1>2, <1>a
     DEF RunLastsUntilItsLimit, Limited, NobodyIsThere, IsTimed
<1>4. CASE MainStep
  <2> USE <1>4 DEF MainStep, Live
  <2>1. CASE MainStartsTiming
    <3>1. mainPc = "init" /\ UNCHANGED <<mainPc, pc, report, stopTime, finished>>
      BY <2>1 DEF MainStartsTiming, BeforeTheAlarm, TakeStartTime,
                  InstallHandler, ResumeTiming, clockVars
    <3>2. ~ LongSetup => ~ finished /\ stopTime = 0
      BY <3>1, ThreadsFinite DEF AlarmInv, MainInv, DuringSetup, Stopped,
                                 TimingStarted, NotYet
    <3>3. Stopped'
      BY <1>a, <3>1, <3>2 DEF Stopped
    <3> QED
      BY <1>0, <1>2, <3>1, <3>3
  <2>2. CASE \/ InitReturns \/ SuspendTiming \/ WaitForThreads
             \/ JoinMissingThread \/ ReturnFromMain
    <3>1. /\ UNCHANGED <<pc, report, startTime, stopTime, finished>>
          /\ mainPc \in {"print", "exit"} => mainPc' \in {"print", "exit"}
      BY <2>2 DEF InitReturns, SetAlarm, SuspendTiming, WaitForThreads,
                  JoinMissingThread, ReturnFromMain, clockVars, timingVars
    <3> QED
      BY <1>0, <1>1, <1>2, <3>1
  <2>3. ASSUME NEW t \in Threads, StartThread(t) PROVE LimitInv'
    <3>1. /\ UNCHANGED <<report, startTime, stopTime, finished>>
          /\ mainPc = "create" /\ ~ report.printed
      BY <2>3 DEF StartThread, clockVars, timingVars, MainInv
    <3> QED
      BY <1>0, <1>1, <1>2, <3>1
  <2>4. CASE StopTiming
    <3>1. /\ UNCHANGED <<pc, report, startTime, finished>>
          /\ stopTime' = now /\ mainPc' = "print" /\ mainPc = "stop"
      BY <2>4 DEF StopTiming, timingVars
    <3>2. Stopped'
      <4>1. ASSUME ~ LongSetup, finished PROVE now >= startTime + opts.rt
        BY <4>1 DEF Stopped
      <4> QED
        BY <1>0, <1>a, <3>1, <4>1 DEF Stopped
    <3> QED
      BY <1>0, <1>2, <3>1, <3>2
  <2>5. CASE PrintResults
    <3>1. /\ UNCHANGED <<pc, startTime, finished>>
          /\ mainPc = "print" /\ mainPc' = "exit"
          /\ stopTime' = IF stopTime = 0 THEN now ELSE stopTime
          /\ report'.elapsed = stopTime' - startTime
      BY <2>5 DEF PrintResults, timingVars
    <3>2. Stopped'
      BY <1>0, <1>a, <3>1 DEF Stopped
    <3>3. ASSUME ~ NobodyIsThere
          PROVE  /\ Limited
                 /\ LongSetup' \/ stopTime' - startTime >=
                                      IF IsTimed THEN opts.rt ELSE 0
      <4>1. PICK t \in Threads : pc[t] = "done"
        BY <3>1, <3>3 DEF MainInv, NobodyIsThere
      <4>2. opts.maxSet \/ finished
        BY <4>1 DEF ToldToStop
      <4>3. Limited
        BY <4>2 DEF Limited, AlarmInv, NoAlarmForNothing
      <4>4. ASSUME ~ LongSetup', IsTimed PROVE stopTime' - startTime >= opts.rt
        BY <1>0, <3>1, <3>2, <4>2, <4>4 DEF Stopped, IsTimed
      <4>5. ASSUME ~ LongSetup' PROVE stopTime' - startTime >= 0
        <5>1. stopTime' # 0
          BY <3>1
        <5>2. stopTime' >= startTime
          BY <3>1, <3>2, <4>5, <5>1 DEF Stopped
        <5> QED
          BY <3>1, <5>2
      <4> QED
        BY <4>3, <4>4, <4>5
    <3>4. RunLastsUntilItsLimit'
      BY <1>0, <3>1, <3>3
         DEF RunLastsUntilItsLimit, Limited, NobodyIsThere, IsTimed
    <3> QED
      BY <1>0, <3>2, <3>4
  <2> QED
    BY <2>1, <2>2, <2>3, <2>4, <2>5 DEF Main
<1>5. ASSUME NEW t \in Threads, ThreadStep(t) PROVE LimitInv'
  <2> USE <1>5 DEF ThreadStep, Live
  <2>1. UNCHANGED <<mainPc, report, stopTime, finished>>
    BY DEF Thread, InsideStartBarrier, LeaveStartBarrier,
           FirstThreadStartsTiming, BeforeTheAlarm, TakeStartTime,
           InstallHandler, ResumeTiming, FirstThreadSetsAlarm, SetAlarm,
           InsideRunBarrier, LeaveRunBarrier, EnterCall, ReturnFromCall,
           LeaveLoop, CompletedOperations, InsideLastBarrier,
           ReturnFromThread, mainVars, timingVars, clockVars
  <2>2. pc[t] \notin {"done", "missing"}
    BY DEF Thread, InsideStartBarrier, LeaveStartBarrier,
           FirstThreadStartsTiming, FirstThreadSetsAlarm, InsideRunBarrier,
           LeaveRunBarrier, EnterCall, ReturnFromCall, LeaveLoop,
           CompletedOperations, InsideLastBarrier, ReturnFromThread
  <2>3. mainPc \notin {"print", "exit"} /\ ~ report.printed
    BY <2>2 DEF MainInv
  <2>4. CASE FirstThreadStartsTiming(t) \/ FirstThreadSetsAlarm(t)
    <3>1. ~ TimingStarted
      BY <2>4 DEF FirstThreadStartsTiming, FirstThreadSetsAlarm, MainInv,
                  TimingStarted, NotYet
    <3>2. ~ LongSetup => ~ finished /\ stopTime = 0
      BY <2>3, <3>1 DEF AlarmInv, DuringSetup, Stopped
    <3>3. Stopped'
      BY <1>a, <2>1, <3>2 DEF Stopped
    <3> QED
      BY <1>0, <1>2, <2>1, <2>3, <3>3
  <2>5. CASE ~ FirstThreadStartsTiming(t) /\ ~ FirstThreadSetsAlarm(t)
    <3>1. UNCHANGED startTime
      BY <2>5
         DEF Thread, InsideStartBarrier, LeaveStartBarrier,
             InsideRunBarrier, LeaveRunBarrier, EnterCall, ReturnFromCall,
             LeaveLoop, CompletedOperations, InsideLastBarrier,
             ReturnFromThread, mainVars, clockVars
    <3> QED
      BY <1>0, <1>1, <1>2, <2>1, <2>3, <3>1
  <2> QED
    BY <2>4, <2>5
<1>6. CASE Live /\ StopSignal
  <2>1. UNCHANGED <<pc, report, startTime, mainPc, now>>
    BY <1>6 DEF Live, StopSignal
  <2>2. ~ LongSetup => now >= startTime + opts.rt
    BY <1>6 DEF StopSignal, AlarmInv, DuringSetup, DuringTheRun
  <2>3. Stopped'
    <3>1. CASE timingIsSuspended
      BY <1>0, <1>6, <1>a, <2>1, <3>1 DEF StopSignal, Stopped
    <3>2. CASE ~ timingIsSuspended
      <4>1. stopTime' = now /\ finished'
        BY <1>6, <3>2 DEF StopSignal
      <4> QED
        BY <1>0, <1>a, <2>1, <2>2, <4>1 DEF Stopped
    <3> QED
      BY <3>1, <3>2
  <2> QED
    BY <1>0, <1>2, <2>1, <2>3
<1>7. CASE \/ Live /\ (AlarmExpires \/ KilledByAlarm \/ GracefulExit)
           \/ Tick \/ UNCHANGED vars
           \/ \E t \in Threads : Live /\ SpuriousWake(t)
  <2>1. UNCHANGED <<pc, report, startTime, stopTime, finished, mainPc>>
    BY <1>7 DEF Live, AlarmExpires, KilledByAlarm, GracefulExit, Tick, vars,
                SpuriousWake, mainVars, clockVars, timingVars
  <2> QED
    BY <1>0, <1>1, <1>2, <2>1
<1> QED
  BY <1>0, <1>4, <1>5, <1>6, <1>7 DEF LeakyNext, Next, AlarmStep, ProcessOver

\* A timed run is measured for no less than its time, and a run without a
\* limit prints nothing (StopSignal, MicroBenchmarkHarness.hpp:179), unless
\* the set-up lasts as long as -rt, for every command line that Init accepts
\* and whatever the waits in the barriers do.
THEOREM RunLasts == AuditSpec => []RunLastsUntilItsLimit
<1>1. LimitInv => RunLastsUntilItsLimit
  BY DEF LimitInv
<1> QED
  BY <1>1, LimitInvInit, LimitInvStep, LeakyInvAudited, AlarmInvariant, PTL
     DEF AuditSpec

-----------------------------------------------------------------------------
(***************************************************************************)
(* The counts of a run, and its calls.                                     *)
(***************************************************************************)
\* When main prints, the last report has been made.
ReportIsTotal == report.printed => report.ops = operationsCompleted

LEMMA ReportIsTotalStep ==
    ASSUME LeakyInv, ReportIsTotal, [LeakyNext]_vars
    PROVE  ReportIsTotal'
<1> USE DEF LeakyInv, MainInv
<1>1. CASE Live /\ PrintResults
  <2>1. report'.ops = operationsCompleted /\ UNCHANGED operationsCompleted
    BY <1>1 DEF PrintResults, countVars
  <2> QED
    BY <2>1 DEF ReportIsTotal
<1>2. ASSUME NEW t \in Threads, Thread(t) PROVE ReportIsTotal'
  <2>1. pc[t] \notin {"done", "missing"} /\ UNCHANGED report
    BY <1>2
       DEF Thread, InsideStartBarrier, LeaveStartBarrier,
           FirstThreadStartsTiming, FirstThreadSetsAlarm, InsideRunBarrier,
           LeaveRunBarrier, EnterCall, ReturnFromCall, LeaveLoop,
           CompletedOperations, InsideLastBarrier, ReturnFromThread, mainVars
  <2>2. ~ report.printed
    BY <2>1
  <2> QED
    BY <2>1, <2>2 DEF ReportIsTotal
<1>3. CASE UNCHANGED <<report, operationsCompleted>>
  BY <1>3 DEF ReportIsTotal
<1>4. CASE MainStep
  BY <1>1, <1>3, <1>4
     DEF MainStep, Main, MainStartsTiming, InitReturns, SuspendTiming,
         StartThread, WaitForThreads, JoinMissingThread, StopTiming,
         ReturnFromMain, countVars
<1>5. CASE \/ AlarmStep \/ (Live /\ GracefulExit) \/ Tick \/ UNCHANGED vars
           \/ \E t \in Threads : Live /\ SpuriousWake(t)
  BY <1>3, <1>5
     DEF AlarmStep, AlarmExpires, StopSignal, KilledByAlarm, GracefulExit,
         Tick, SpuriousWake, mainVars, countVars, vars
<1> QED
  BY <1>2, <1>4, <1>5 DEF LeakyNext, Next, ThreadStep, ProcessOver

LEMMA NearlyExact ==
    ASSUME WideCounters, LeakyInv, CountInv, ReportIsTotal
    PROVE  CountedRunIsNearlyExact
<1> SUFFICES ASSUME report.printed, opts.max > 0, NobodyIsMissing
             PROVE  IF CountsEachCall
                    THEN report.ops \in opts.max .. opts.max + ThreadCount - 1
                    ELSE report.ops \in opts.max - ThreadCount + 1 .. opts.max
  <2>1. opts.max \in PositiveCounts => opts.max > 0
    BY OptionFacts
       DEF PositiveCounts, LeakyInv, DataTypes, CountTypes, OptionTypes
  <2> QED
    BY <2>1 DEF CountedRunIsNearlyExact
<1> USE OptionFacts DEF LeakyInv, DataTypes, CountTypes
<1>1. report.ops = operationsCompleted
  BY DEF ReportIsTotal
<1>2. \A t \in Threads : pc[t] = "done"
  BY DEF MainInv, NobodyIsMissing
<1>3. Reported = Threads
  BY <1>2 DEF Reported
<1>4. CASE CountsEachCall
  <2>1. operationsCompleted >= opts.max
    BY <1>3, <1>4, ThreadsFinite DEF CountInv, CallsUnderWay
  <2>2. Cardinality(InCall) \in Nat
    BY ThreadSets DEF InCall
  <2>3. operationsCompleted + Cardinality(InCall) <= opts.max - 1 + ThreadCount
    BY <1>4 DEF CountInv, CallsUnderWay
  <2> QED
    BY <1>1, <1>4, <2>1, <2>2, <2>3
<1>5. CASE ~ CountsEachCall
  <2>1. Cardinality(Threads) = ThreadCount
    BY HarnessAssumption, FS_Interval, ThreadsFinite DEF Threads
  <2>2. operationsCompleted = ThreadCount * operationsPerThread
    BY <1>3, <1>5, <2>1 DEF CountInv, Shares
  <2> QED
    BY <1>1, <1>5, <2>2, ShareFacts
<1> QED
  BY <1>4, <1>5

\* A run by count falls short of -max by less than one call per thread, or,
\* when each call is counted by itself, overruns it by less than one call per
\* thread (GetOperationCountPerThread, MicroBenchmarkHarness.hpp:120), if the
\* counters are wide enough.
THEOREM CountedRunNearlyExact ==
    ASSUME WideCounters
    PROVE  AuditSpec => []CountedRunIsNearlyExact
<1>1. AuditInit => CountInv /\ ReportIsTotal
  <2>1. Init => CountInv
    BY CountInvInit
  <2>2. Init => ReportIsTotal
    BY DEF Init, ReportIsTotal, NothingPrinted
  <2> QED
    BY <2>1, <2>2 DEF AuditInit
<1>2. LeakyInv /\ CountInv /\ ReportIsTotal /\ [AuditNext]_auditVars =>
          (CountInv /\ ReportIsTotal)'
  BY CountInvStep, ReportIsTotalStep, AuditStepIsLeakyStep
<1>3. LeakyInv /\ CountInv /\ ReportIsTotal => CountedRunIsNearlyExact
  BY NearlyExact
<1> QED
  BY <1>1, <1>2, <1>3, LeakyInvAudited, PTL DEF AuditSpec

-----------------------------------------------------------------------------
(* Calls that begin and end. *)

LEMMA CallsAreEntered ==
    ASSUME LeakyInv, [LeakyNext]_vars, NEW t \in Threads
    PROVE  /\ Calls(t) => EnterCall(t)
           /\ Returns(t) => ReturnFromCall(t)
<1> SUFFICES ASSUME Calls(t) \/ Returns(t)
             PROVE  /\ pc[t] = "loop" => EnterCall(t)
                    /\ pc[t] = "op" => ReturnFromCall(t)
  BY DEF Calls, Returns
<1> USE DEF Calls, Returns
<1>1. Thread(t)
  <2>1. ASSUME NEW u \in Threads, Thread(u) PROVE Thread(t)
    BY <2>1, OnlyItselfMoves DEF LeakyInv
  <2>2. ASSUME NEW u \in Threads, StartThread(u) PROVE FALSE
    BY <2>2 DEF StartThread, Goto, LeakyInv, PcTypes
  <2> QED
    BY <2>1, <2>2, LeakyStepKinds
<1>2. CASE pc[t] = "loop"
  <2>1. EnterCall(t) \/ LeaveLoop(t)
    BY <1>1, <1>2
       DEF Thread, InsideStartBarrier, LeaveStartBarrier,
           FirstThreadStartsTiming, FirstThreadSetsAlarm, InsideRunBarrier,
           LeaveRunBarrier, ReturnFromCall, CompletedOperations,
           InsideLastBarrier, ReturnFromThread
  <2>2. ~ LeaveLoop(t)
    BY <1>2 DEF LeaveLoop, Goto, LeakyInv, PcTypes
  <2> QED
    BY <1>2, <2>1, <2>2
<1>3. CASE pc[t] = "op"
  BY <1>1, <1>3
     DEF Thread, InsideStartBarrier, LeaveStartBarrier,
         FirstThreadStartsTiming, FirstThreadSetsAlarm, InsideRunBarrier,
         LeaveRunBarrier, EnterCall, LeaveLoop, CompletedOperations,
         InsideLastBarrier, ReturnFromThread
<1> QED
  BY <1>2, <1>3

LEMMA WhereCallsBegin ==
    ASSUME LeakyInv, [LeakyNext]_vars, NEW t \in Threads
    PROVE  /\ pc'[t] = "op" => pc[t] \in {"op", "loop"}
           /\ pc'[t] \in {"none", "missing"} => pc[t] \in {"none", "missing"}
<1> DEFINE Goal == /\ pc'[t] = "op" => pc[t] \in {"op", "loop"}
                   /\ pc'[t] \in {"none", "missing"} =>
                          pc[t] \in {"none", "missing"}
<1>1. ASSUME NEW u \in Threads, Thread(u) PROVE Goal
  <2>1. CASE u # t
    BY <1>1, <2>1, OnlyItselfMoves DEF LeakyInv
  <2>2. CASE u = t
    BY <1>1, <2>2
       DEF Thread, InsideStartBarrier, LeaveStartBarrier,
           FirstThreadStartsTiming, FirstThreadSetsAlarm, InsideRunBarrier,
           LeaveRunBarrier, EnterCall, ReturnFromCall, LeaveLoop,
           CompletedOperations, InsideLastBarrier, ReturnFromThread, Goto,
           LeakyInv, PcTypes
  <2> QED
    BY <2>1, <2>2
<1>2. ASSUME NEW u \in Threads, StartThread(u) PROVE Goal
  BY <1>2 DEF StartThread, Goto, LeakyInv, PcTypes
<1> QED
  BY <1>1, <1>2, LeakyStepKinds

\* A late call was under way when the run was finished.
LateInv ==
    /\ lateCalls \in [Threads -> Nat]
    /\ IsTimed => \A t \in Threads :
           lateCalls[t] <= IF finished /\ pc[t] # "op" THEN 1 ELSE 0

LEMMA LateInvStep ==
    ASSUME LeakyInv, LateInv, [AuditNext]_auditVars
    PROVE  LateInv'
<1>0. [LeakyNext]_vars /\ UNCHANGED opts /\ (finished => finished')
  BY AuditStepIsLeakyStep, FinishedStays
<1>1. CASE UNCHANGED auditVars
  BY <1>1 DEF auditVars, audit, vars, timingVars, LateInv, IsTimed
<1>2. CASE Audit
  <2>1. lateCalls' = [t \in Threads |->
            lateCalls[t] + IF Returns(t) /\ finished THEN 1 ELSE 0]
    BY <1>2 DEF Audit
  <2>2. lateCalls' \in [Threads -> Nat]
    BY <2>1 DEF LateInv
  <2>3. ASSUME IsTimed, NEW t \in Threads
        PROVE  lateCalls'[t] <= IF finished' /\ pc'[t] # "op" THEN 1 ELSE 0
    <3>1. ASSUME finished PROVE ~ Calls(t)
      <4>1. opts.max = 0
        BY <2>3, OptionFacts DEF IsTimed, LeakyInv, DataTypes
      <4>2. operationsPerThread = 0
        BY <4>1, OptionFacts DEF operationsPerThread, LeakyInv, DataTypes
      <4>3. ~ MoreCalls(t)
        BY <3>1, <4>1, <4>2 DEF MoreCalls, PollsIsDone, isDone
      <4> QED
        BY <1>0, <4>3, CallsAreEntered DEF EnterCall
    <3>2. pc'[t] = "op" => pc[t] \in {"op", "loop"}
      BY <1>0, WhereCallsBegin
    <3>3. CASE Returns(t) /\ finished
      BY <1>0, <2>1, <2>3, <3>3 DEF Returns, LateInv
    <3>4. CASE ~ (Returns(t) /\ finished)
      <4>1. lateCalls'[t] = lateCalls[t] /\ lateCalls[t] \in Nat
        BY <2>1, <3>4 DEF LateInv
      <4> QED
        BY <1>0, <2>3, <3>1, <3>2, <4>1 DEF LateInv, Calls
    <3> QED
      BY <3>3, <3>4
  <2> QED
    BY <1>0, <2>2, <2>3 DEF LateInv, IsTimed
<1> QED
  BY <1>1, <1>2, AuditStepIsLeakyStep DEF AuditNext

\* After the alarm each thread completes at most the call it is in (isDone,
\* MicroBenchmarkHarness.hpp:290), whatever the barriers do.
THEOREM OverrunIsBounded == AuditSpec => []OverrunAtMostOneCall
<1>1. AuditInit => LateInv
  BY DEF AuditInit, LateInv
<1>2. LeakyInv /\ LateInv /\ [AuditNext]_auditVars => LateInv'
  BY LateInvStep
<1>3. LateInv => OverrunAtMostOneCall
  BY DEF LateInv, OverrunAtMostOneCall
<1> QED
  BY <1>1, <1>2, <1>3, LeakyInvAudited, PTL DEF AuditSpec

-----------------------------------------------------------------------------
(***************************************************************************)
(* The window of the measurement.  The first call comes after _startTime   *)
(* because nobody leaves the run barrier before thread 0 comes to it: that *)
(* needs ThreadInv, which holds as long as no wait has returned by itself. *)
(***************************************************************************)
FirstInWindow ==
    /\ wokenEarly \in BOOLEAN /\ firstCall \in 0 .. now
    /\ ~ wokenEarly => ThreadInv
    /\ ~ wokenEarly /\ firstCall # 0 => TimingStarted /\ startTime <= firstCall

\* _stopTime is set when the last call has returned: by main, which has
\* joined all threads, or later by the handler.  Without a run time there is
\* no alarm, and only PrintResults stops the timing of RunOps.
LastInWindow ==
    /\ lastReturn \in 0 .. now
    /\ NoAlarmForNothing
    /\ firstCall # 0 /\ opts.maxSet => opts.max > 0
    /\ OwnThreads /\ mainPc \in {"print", "exit"} =>
           stopTime # 0 /\ lastReturn <= stopTime
    /\ ~ OwnThreads =>
           /\ mainPc # "stop"
           /\ opts.rt <= 0 => IF mainPc = "exit" THEN lastReturn <= stopTime
                                                 ELSE stopTime = 0

LEMMA StartedStays ==
    ASSUME RunInv, TimingStarted, [Next]_vars
    PROVE  TimingStarted' /\ startTime' = startTime
<1> USE ThreadsFinite DEF RunInv, ThreadInv, ThreadTypes, MainInv,
                          TimingStarted, NotYet
<1>1. CASE MainStep
  <2>1. CASE MainStartsTiming \/ InitReturns
    BY <2>1 DEF MainStartsTiming, InitReturns
  <2>2. ASSUME NEW t \in Threads, StartThread(t)
        PROVE  pc'[0] = pc[0] /\ startTime' = startTime
    BY <2>2 DEF StartThread, Goto, clockVars
  <2>3. CASE \/ SuspendTiming \/ WaitForThreads \/ JoinMissingThread
             \/ StopTiming \/ PrintResults \/ ReturnFromMain
    BY <2>3 DEF SuspendTiming, WaitForThreads, JoinMissingThread, StopTiming,
                PrintResults, ReturnFromMain, clockVars
  <2> QED
    BY <1>1, <2>1, <2>2, <2>3 DEF MainStep, Main
<1>2. ASSUME NEW t \in Threads, ThreadStep(t)
      PROVE  TimingStarted' /\ startTime' = startTime
  <2>1. ~ FirstThreadStartsTiming(t) /\ ~ FirstThreadSetsAlarm(t)
    BY DEF FirstThreadStartsTiming, FirstThreadSetsAlarm
  <2>2. UNCHANGED TimingStarted
    BY <1>2, <2>1, TimingStartedStays DEF ThreadStep, PcTypes
  <2>3. startTime' = startTime
    BY <1>2, <2>1
       DEF ThreadStep, Thread, InsideStartBarrier, LeaveStartBarrier,
           InsideRunBarrier, LeaveRunBarrier, EnterCall, ReturnFromCall,
           LeaveLoop, CompletedOperations, InsideLastBarrier,
           ReturnFromThread, mainVars, clockVars
  <2> QED
    BY <2>2, <2>3
<1>3. CASE AlarmStep \/ (Live /\ GracefulExit) \/ Tick \/ UNCHANGED vars
  BY <1>3 DEF AlarmStep, AlarmExpires, StopSignal, KilledByAlarm, GracefulExit,
              Tick, mainVars, clockVars, vars
<1> QED
  BY <1>1, <1>2, <1>3 DEF Next, ProcessOver

\* A call begins or ends while main waits for the threads, or creates them.
LEMMA CallTimes ==
    ASSUME LeakyInv, [LeakyNext]_vars, NEW t \in Threads,
           Calls(t) \/ Returns(t)
    PROVE  /\ UNCHANGED <<client, opts, now, clockVars, alarm, pending,
                          finished, mainPc>>
           /\ mainPc \notin {"stop", "print", "exit"}
<1>1. EnterCall(t) \/ ReturnFromCall(t)
  BY CallsAreEntered
<1>2. pc' # pc
  BY DEF Calls, Returns
<1>3. UNCHANGED <<client, opts, now>>
  BY <1>2 DEF LeakyNext, Next, MainStep, ThreadStep, AlarmStep, Live, Tick,
              ProcessOver, vars
<1>4. UNCHANGED mainVars /\ pc[t] \in {"loop", "op"}
  BY <1>1 DEF EnterCall, ReturnFromCall
<1> QED
  BY <1>3, <1>4 DEF mainVars, signalVars, timingVars, LeakyInv, MainInv

\* A call in a run by count: -max 0 allows none.
LEMMA CallsAreAllowed ==
    ASSUME LeakyInv, [LeakyNext]_vars, NEW t \in Threads, Calls(t), opts.maxSet
    PROVE  opts.max > 0
<1> SUFFICES ASSUME opts.max = 0 PROVE FALSE
  BY OptionFacts DEF LeakyInv, DataTypes
<1>1. operationsPerThread = 0
  BY OptionFacts DEF operationsPerThread, LeakyInv, DataTypes
<1>2. ~ MoreCalls(t)
  BY <1>1 DEF MoreCalls, PollsIsDone, isDone
<1> QED
  BY <1>2, CallsAreEntered DEF EnterCall

LEMMA AuditTypesStep ==
    ASSUME LeakyInv, [AuditNext]_auditVars,
           firstCall \in 0 .. now, lastReturn \in 0 .. now
    PROVE  (firstCall \in 0 .. now /\ lastReturn \in 0 .. now)'
<1>1. now \in Nat \ {0} /\ now' \in {now, now + 1}
  BY OptionFacts, AuditStepIsLeakyStep
     DEF LeakyInv, DataTypes, ClockTypes, LeakyNext, Next, MainStep,
         ThreadStep, AlarmStep, Live, Tick, ProcessOver, vars
<1>2. firstCall' \in {firstCall, now} /\ lastReturn' \in {lastReturn, now}
  BY AuditStepIsLeakyStep DEF Audit, audit
<1> QED
  BY <1>1, <1>2

\* Unless a wait returns by itself, the step is one of Next.
LEMMA StepWithoutWake ==
    ASSUME [AuditNext]_auditVars, wokenEarly \in BOOLEAN, ~ wokenEarly'
    PROVE  [Next]_vars /\ ~ wokenEarly
<1>1. CASE Audit
  <2>1. ~ wokenEarly /\ \A t \in Threads : ~ SpuriousWake(t)
    BY <1>1 DEF Audit
  <2> QED
    BY <2>1, AuditStepIsLeakyStep DEF LeakyNext
<1>2. CASE UNCHANGED auditVars
  BY <1>2 DEF auditVars, audit
<1> QED
  BY <1>1, <1>2 DEF AuditNext

LEMMA FirstInWindowStep ==
    ASSUME LeakyInv, FirstInWindow, lastReturn \in 0 .. now,
           [AuditNext]_auditVars
    PROVE  FirstInWindow'
<1>1. (firstCall \in 0 .. now)' /\ wokenEarly' \in BOOLEAN
  <2>1. wokenEarly' \in BOOLEAN
    BY AuditStepIsLeakyStep DEF FirstInWindow, Audit, audit
  <2> QED
    BY <2>1, AuditTypesStep DEF FirstInWindow
<1>2. ASSUME ~ wokenEarly'
      PROVE  /\ ThreadInv'
             /\ firstCall' # 0 => TimingStarted' /\ startTime' <= firstCall'
  <2>1. [Next]_vars /\ ~ wokenEarly /\ RunInv
    BY <1>2, StepWithoutWake DEF FirstInWindow, LeakyInv, RunInv
  <2>2. ASSUME TimingStarted, startTime <= firstCall'
        PROVE  TimingStarted' /\ startTime' <= firstCall'
    BY <2>1, <2>2, StartedStays
  <2>3. CASE firstCall' = firstCall
    BY <2>1, <2>2, <2>3, ThreadInvStep DEF FirstInWindow, RunInv
  <2>4. CASE firstCall' # firstCall
    <3>1. firstCall' = now /\ \E t \in Threads : Calls(t)
      BY <2>4, AuditStepIsLeakyStep DEF Audit, audit
    <3>2. TimingStarted
      <4>1. \E t \in Threads : pc[t] \in Measuring
        BY <3>1 DEF Calls, Measuring
      <4> QED
        BY <2>1, <4>1, NobodyRunsEarlyHolds, ThreadsFinite
           DEF NobodyRunsEarly, TimingStarted
    <3>3. startTime <= now
      BY OptionFacts DEF LeakyInv, DataTypes, ClockTypes
    <3> QED
      BY <2>1, <2>2, <3>1, <3>2, <3>3, ThreadInvStep DEF RunInv
  <2> QED
    BY <2>3, <2>4
<1> QED
  BY <1>1, <1>2 DEF FirstInWindow

\* What the steps of main and of the alarm do to _stopTime.
LEMMA LastInWindowStep ==
    ASSUME LeakyInv, FirstInWindow, LastInWindow, [AuditNext]_auditVars
    PROVE  LastInWindow'
<1> USE OptionFacts DEF LeakyInv, DataTypes, ClockTypes
<1>0. /\ [LeakyNext]_vars /\ UNCHANGED <<client, opts>>
      /\ (lastReturn \in 0 .. now)'
      /\ firstCall' = firstCall \/ \E t \in Threads : Calls(t)
      /\ lastReturn' = lastReturn \/ \E t \in Threads : Returns(t)
  BY AuditStepIsLeakyStep, AuditTypesStep, FinishedStays
     DEF FirstInWindow, LastInWindow, Audit, audit
<1>1. ASSUME NEW t \in Threads, Calls(t) \/ Returns(t) PROVE LastInWindow'
  <2>1. /\ UNCHANGED <<now, stopTime, alarm, pending, finished, mainPc>>
        /\ mainPc \notin {"stop", "print", "exit"}
    BY <1>0, <1>1, CallTimes DEF clockVars
  <2>2. firstCall' # 0 /\ opts.maxSet => opts.max > 0
    BY <1>0, CallsAreAllowed DEF LastInWindow
  <2> QED
    BY <1>0, <2>1, <2>2 DEF LastInWindow, NoAlarmForNothing, OwnThreads
<1>2. ASSUME UNCHANGED <<firstCall, lastReturn>> PROVE LastInWindow'
  <2> DEFINE Same == UNCHANGED <<stopTime, mainPc>>
             Kept == UNCHANGED <<client, opts, firstCall, lastReturn>>
  <2>0. Kept
    BY <1>0, <1>2
  <2>1. NoAlarmForNothing'
    BY <1>0, NoAlarmStep DEF LastInWindow
  <2>2. CASE Same
    BY <1>0, <2>0, <2>1, <2>2 DEF LastInWindow, OwnThreads
  <2>3. CASE Live /\ PrintResults
    BY <1>0, <2>0, <2>1, <2>3 DEF PrintResults, Live, LastInWindow, OwnThreads
  <2>4. CASE Live /\ StopTiming
    BY <1>0, <2>0, <2>1, <2>4 DEF StopTiming, Live, LastInWindow, OwnThreads
  <2>5. CASE Live /\ StopSignal
    BY <1>0, <2>0, <2>1, <2>5
       DEF StopSignal, Live, LastInWindow, OwnThreads, NoAlarmForNothing
  <2>6. CASE /\ stopTime' = stopTime /\ mainPc' \notin {"print", "exit"}
             /\ mainPc # "exit"
             /\ mainPc' = "stop" => OwnThreads
    BY <1>0, <2>0, <2>1, <2>6 DEF LastInWindow, OwnThreads
  <2>7. CASE WaitForThreads
    BY <1>0, <2>0, <2>1, <2>7
       DEF WaitForThreads, clockVars, LastInWindow, OwnThreads
  <2>8. CASE MainStep
    BY <2>2, <2>3, <2>4, <2>6, <2>7, <2>8
       DEF MainStep, Main, MainStartsTiming, BeforeTheAlarm, TakeStartTime,
           InstallHandler, ResumeTiming, InitReturns, SetAlarm, SuspendTiming,
           StartThread, JoinMissingThread, ReturnFromMain, clockVars
  <2>9. ASSUME NEW t \in Threads, ThreadStep(t) PROVE Same
    BY <2>9
       DEF ThreadStep, Thread, InsideStartBarrier, LeaveStartBarrier,
           FirstThreadStartsTiming, BeforeTheAlarm, TakeStartTime,
           InstallHandler, ResumeTiming, FirstThreadSetsAlarm, SetAlarm,
           InsideRunBarrier, LeaveRunBarrier, EnterCall, ReturnFromCall,
           LeaveLoop, CompletedOperations, InsideLastBarrier,
           ReturnFromThread, mainVars, clockVars
  <2>10. CASE \/ Live /\ (AlarmExpires \/ KilledByAlarm \/ GracefulExit)
              \/ Tick \/ UNCHANGED vars \/ \E t \in Threads : SpuriousWake(t)
    BY <2>2, <2>10 DEF AlarmExpires, KilledByAlarm, GracefulExit, Tick,
                       SpuriousWake, mainVars, clockVars, vars
  <2> QED
    BY <1>0, <2>2, <2>5, <2>8, <2>9, <2>10
       DEF LeakyNext, Next, AlarmStep, ProcessOver
<1> QED
  BY <1>0, <1>1, <1>2

\* All the calls that the report counts were made inside the time it counts
\* (MicroBenchmarkHarness.hpp:181 and 287): the first call comes after
\* _startTime, unless a wait in a barrier has returned by itself; the last
\* one returns before _stopTime, but in a timed run of RunOps.
THEOREM WindowHoldsCalls == AuditSpec => []WindowCoversCalls
<1>1. AuditInit => FirstInWindow /\ LastInWindow
  <2> SUFFICES ASSUME AuditInit PROVE FirstInWindow /\ LastInWindow
    OBVIOUS
  <2> USE DEF AuditInit
  <2>1. ThreadInv
    BY ThreadInvInit
  <2>2. FirstInWindow
    <3>1. wokenEarly \in BOOLEAN
      BY Zenon
    <3>2. firstCall \in 0 .. now /\ firstCall = 0
      BY DEF Init
    <3> QED
      BY <2>1, <3>1, <3>2 DEF FirstInWindow
  <2>3. LastInWindow
    BY DEF LastInWindow, Init, NoAlarmForNothing
  <2> QED
    BY <2>2, <2>3
<1>2. LeakyInv /\ FirstInWindow /\ LastInWindow /\ [AuditNext]_auditVars =>
          (FirstInWindow /\ LastInWindow)'
  BY FirstInWindowStep, LastInWindowStep DEF LastInWindow
<1>3. LeakyInv /\ FirstInWindow /\ LastInWindow => WindowCoversCalls
  <2> SUFFICES ASSUME LeakyInv, FirstInWindow, LastInWindow,
                      report.printed, firstCall # 0
               PROVE  /\ wokenEarly \/ startTime <= firstCall
                      /\ OwnThreads \/ ~ IsTimed => lastReturn <= stopTime
    BY DEF WindowCoversCalls
  <2>1. mainPc = "exit"
    BY DEF LeakyInv, MainInv
  <2>2. ~ IsTimed => opts.rt <= 0
    BY OptionFacts DEF LastInWindow, IsTimed, LeakyInv, DataTypes
  <2> QED
    BY <2>1, <2>2 DEF FirstInWindow, LastInWindow
<1> QED
  BY <1>1, <1>2, <1>3, LeakyInvAudited, PTL DEF AuditSpec

-----------------------------------------------------------------------------
(***************************************************************************)
(* The account of every call.  A count wraps only after more calls than    *)
(* its variable can hold; the numbers of the calls are their indices, so   *)
(* that the total is the cardinality of a set.                             *)
(***************************************************************************)
RoomForCalls ==
    /\ MaxCalls < CounterModulus
    /\ ThreadCount * MaxCalls < TotalModulus

CallsOf(S) == {c \in CallsReturned : c[1] \in S}
Unreported == {t \in Threads : pc[t] = "count"}

Indexed ==
    /\ calls \in [Threads -> Nat]
    /\ \A t \in Threads :
           /\ calls[t] <= MaxCalls
           /\ pc[t] = "op" => calls[t] < MaxCalls
           /\ pc[t] \in {"none", "missing"} => calls[t] = 0

\* Each call is in the total or about to be added to it; or the threads that
\* have reported have their calls in the total, the others in their counts.
EveryCall ==
    IF CountsEachCall
    THEN operationsCompleted + Cardinality(Unreported)
             = Cardinality(CallsReturned)
    ELSE /\ threadOps = calls
         /\ operationsCompleted = Cardinality(CallsOf(Reported))

AccountInv == Indexed /\ EveryCall


LEMMA UpTo ==
    ASSUME NEW k \in Nat
    PROVE  IsFiniteSet(1 .. k) /\ Cardinality(1 .. k) = k
<1>1. /\ IsFiniteSet(1 .. k)
      /\ Cardinality(1 .. k) = IF 1 > k THEN 0 ELSE k - 1 + 1
  BY FS_Interval
<1> QED
  BY <1>1

LEMMA CallSets ==
    ASSUME NEW S, S \subseteq CallsReturned
    PROVE  /\ IsFiniteSet(S) /\ Cardinality(S) \in Nat
           /\ Cardinality(S) <= ThreadCount * MaxCalls
<1>1. /\ IsFiniteSet(Threads) /\ Cardinality(Threads) = ThreadCount
      /\ IsFiniteSet(1 .. MaxCalls) /\ Cardinality(1 .. MaxCalls) = MaxCalls
  <2>1. Cardinality(0 .. ThreadCount - 1) = ThreadCount
    BY HarnessAssumption, FS_Interval
  <2>2. IsFiniteSet(1 .. MaxCalls) /\ Cardinality(1 .. MaxCalls) = MaxCalls
    BY AuditAssumption, UpTo
  <2> QED
    BY <2>1, <2>2, AuditAssumption, ThreadsFinite DEF Threads
<1>2. /\ IsFiniteSet(Threads \X (1 .. MaxCalls))
      /\ Cardinality(Threads \X (1 .. MaxCalls)) = ThreadCount * MaxCalls
  BY <1>1, FS_Product
<1>3. S \in SUBSET (Threads \X (1 .. MaxCalls))
  BY DEF CallsReturned
<1>4. IsFiniteSet(S) /\ Cardinality(S) <= ThreadCount * MaxCalls
  BY <1>2, <1>3, FS_Subset
<1> QED
  BY <1>4, FS_CardinalityType

\* A call that returns is one more.
LEMMA OneMoreCall ==
    ASSUME Indexed, NEW t \in Threads, calls[t] < MaxCalls,
           calls' = [calls EXCEPT ![t] = @ + 1]
    PROVE  /\ CallsReturned' = CallsReturned \cup {<<t, calls[t] + 1>>}
           /\ Cardinality(CallsReturned') = Cardinality(CallsReturned) + 1
<1> USE AuditAssumption DEF Indexed
<1>1. CallsReturned' = CallsReturned \cup {<<t, calls[t] + 1>>}
  BY DEF CallsReturned
<1>2. <<t, calls[t] + 1>> \notin CallsReturned
  BY DEF CallsReturned
<1> QED
  BY <1>1, <1>2, CallSets, FS_AddElement

\* A thread that reports adds its calls to those of the others.
LEMMA OneMoreThread ==
    ASSUME Indexed, NEW S \in SUBSET Threads, NEW t \in Threads \ S
    PROVE  Cardinality(CallsOf(S \cup {t}))
               = Cardinality(CallsOf(S)) + calls[t]
<1> USE AuditAssumption DEF Indexed
<1>1. CallsOf({t}) = {t} \X (1 .. calls[t])
  BY DEF CallsOf, CallsReturned
<1>2. Cardinality(CallsOf({t})) = calls[t]
  <2>1. IsFiniteSet({t}) /\ Cardinality({t}) = 1
    BY FS_Singleton
  <2>2. IsFiniteSet(1 .. calls[t]) /\ Cardinality(1 .. calls[t]) = calls[t]
    BY UpTo
  <2>3. Cardinality({t} \X (1 .. calls[t])) = 1 * Cardinality(1 .. calls[t])
    BY <2>1, <2>2, FS_Product
  <2>4. 1 * calls[t] = calls[t]
    OBVIOUS
  <2> QED
    BY <1>1, <2>2, <2>3, <2>4, Zenon
<1>3. /\ CallsOf(S \cup {t}) = CallsOf(S) \cup CallsOf({t})
      /\ CallsOf(S) \cap CallsOf({t}) = {}
  BY DEF CallsOf
<1>4. /\ IsFiniteSet(CallsOf(S)) /\ Cardinality(CallsOf(S)) \in Nat
      /\ IsFiniteSet(CallsOf({t}))
  BY CallSets DEF CallsOf
<1>5. Cardinality(CallsOf(S \cup {t}))
          = Cardinality(CallsOf(S)) + Cardinality(CallsOf({t})) - Cardinality({})
  BY <1>3, <1>4, FS_Union
<1> QED
  BY <1>2, <1>4, <1>5, FS_EmptySet

LEMMA AccountInvInit == AuditInit => AccountInv
<1> SUFFICES ASSUME AuditInit PROVE AccountInv
  OBVIOUS
<1> USE AuditAssumption DEF AuditInit, Init
<1>1. Indexed
  BY DEF Indexed
<1>2. CallsReturned = {} /\ Unreported = {} /\ CallsOf(Reported) = {}
  BY DEF CallsReturned, Unreported, CallsOf
<1>3. EveryCall
  BY <1>2, FS_EmptySet DEF EveryCall
<1> QED
  BY <1>1, <1>3 DEF AccountInv

LEMMA IndexedStep ==
    ASSUME LeakyInv, Indexed, [LeakyNext]_vars, Audit
    PROVE  Indexed'
<1>1. calls' = [t \in Threads |-> calls[t] + IF Returns(t) THEN 1 ELSE 0]
  BY DEF Audit
<1>2. calls' \in [Threads -> Nat]
  BY <1>1 DEF Indexed
<1>3. ASSUME NEW t \in Threads
      PROVE  /\ calls'[t] <= MaxCalls
             /\ pc'[t] = "op" => calls'[t] < MaxCalls
             /\ pc'[t] \in {"none", "missing"} => calls'[t] = 0
  <2>1. CASE Returns(t)
    <3>1. calls[t] < MaxCalls /\ calls[t] \in Nat /\ calls'[t] = calls[t] + 1
      BY <1>1, <2>1 DEF Returns, Indexed
    <3>2. pc'[t] \notin {"op", "none", "missing"}
      BY <2>1, WhereCallsBegin DEF Returns
    <3> QED
      BY <3>1, <3>2, AuditAssumption
  <2>2. CASE ~ Returns(t)
    <3>1. calls'[t] = calls[t] /\ calls[t] \in Nat
      BY <1>1, <2>2 DEF Indexed
    <3>2. pc'[t] = "op" => calls[t] < MaxCalls
      BY WhereCallsBegin DEF Audit, Calls, Indexed
    <3> QED
      BY <3>1, <3>2, WhereCallsBegin DEF Indexed
  <2> QED
    BY <2>1, <2>2
<1> QED
  BY <1>2, <1>3 DEF Indexed


\* What the steps of a thread do to its own count and to the total.
LEMMA EveryCallThread ==
    ASSUME RoomForCalls, LeakyInv, AccountInv, [LeakyNext]_vars, Audit,
           NEW t \in Threads, Live, Thread(t)
    PROVE  EveryCall'
<1> USE OptionFacts, AuditAssumption
    DEF LeakyInv, PcTypes, DataTypes, CountTypes, Live, AccountInv
<1>0. /\ UNCHANGED <<client, CountsEachCall>>
      /\ calls' = [u \in Threads |-> calls[u] + IF Returns(u) THEN 1 ELSE 0]
      /\ \A u \in Threads : u # t => pc'[u] = pc[u] /\ ~ Returns(u)
      /\ calls \in [Threads -> Nat]
  BY OnlyItselfMoves DEF Audit, Returns, CountsEachCall, Indexed
<1>1. CASE ReturnFromCall(t)
  <2>1. /\ pc[t] = "op"
        /\ pc' = [pc EXCEPT ![t] = IF CountsEachCall THEN "count" ELSE "loop"]
        /\ UNCHANGED operationsCompleted
    BY <1>1 DEF ReturnFromCall, Goto
  <2>2. calls' = [calls EXCEPT ![t] = @ + 1] /\ calls[t] < MaxCalls
    <3>1. Returns(t) /\ calls[t] < MaxCalls
      BY <2>1 DEF Returns, Indexed
    <3>2. \A u \in Threads :
              calls'[u] = IF u = t THEN calls[u] + 1 ELSE calls[u]
      BY <1>0, <3>1
    <3> QED
      BY <1>0, <3>1, <3>2
  <2>3. Cardinality(CallsReturned') = Cardinality(CallsReturned) + 1
    BY <2>2, OneMoreCall
  <2>4. CASE CountsEachCall
    <3>1. Unreported' = Unreported \cup {t} /\ t \notin Unreported
      BY <1>0, <2>1, <2>4 DEF Unreported
    <3>2. /\ Cardinality(Unreported) \in Nat
          /\ Cardinality(Unreported') = Cardinality(Unreported) + 1
      BY <3>1, ThreadSets DEF Unreported
    <3> QED
      BY <1>0, <2>1, <2>3, <2>4, <3>2, CallSets DEF EveryCall
  <2>5. CASE ~ CountsEachCall
    <3>1. threadOps' = calls'
      <4>1. threadOps' = [threadOps EXCEPT ![t] = (@ + 1) % CounterModulus]
        BY <1>1, <2>5 DEF ReturnFromCall
      <4>2. (calls[t] + 1) % CounterModulus = calls[t] + 1
        BY <1>0, <2>2 DEF RoomForCalls
      <4> QED
        BY <2>2, <2>5, <4>1, <4>2 DEF EveryCall
    <3>2. CallsOf(Reported)' = CallsOf(Reported)
      <4>1. Reported' = Reported /\ t \notin Reported
        BY <1>0, <2>1 DEF Reported
      <4>2. CallsReturned' = CallsReturned \cup {<<t, calls[t] + 1>>}
        BY <2>2, OneMoreCall
      <4> QED
        BY <4>1, <4>2 DEF CallsOf
    <3> QED
      BY <1>0, <2>1, <2>5, <3>1, <3>2 DEF EveryCall
  <2> QED
    BY <2>4, <2>5
<1>2. ASSUME ~ ReturnFromCall(t)
      PROVE  calls' = calls /\ UNCHANGED CallsReturned
  <2>1. ~ Returns(t)
    BY <1>2, CallsAreEntered
  <2> QED
    BY <1>0, <2>1 DEF CallsReturned
<1>3. CASE CompletedOperations(t)
  <2>0. UNCHANGED <<calls, CallsReturned>>
    BY <1>2, <1>3 DEF CompletedOperations, ReturnFromCall
  <2>1. pc[t] = "count" /\ UNCHANGED threadOps
    BY <1>3 DEF CompletedOperations
  <2>2. CASE CountsEachCall
    <3>1. /\ operationsCompleted' = (operationsCompleted + 1) % TotalModulus
          /\ pc' = [pc EXCEPT ![t] = "loop"]
      BY <1>3, <2>2 DEF CompletedOperations, atomic_exchange_and_add, Goto
    <3>2. t \in Unreported /\ Unreported' = Unreported \ {t}
      BY <2>1, <3>1 DEF Unreported
    <3>3. /\ Cardinality(Unreported) \in Nat /\ Cardinality(Unreported') \in Nat
          /\ Cardinality(Unreported') = Cardinality(Unreported) - 1
      BY <3>2, ThreadSets DEF Unreported
    <3>4. /\ operationsCompleted + Cardinality(Unreported)
                 = Cardinality(CallsReturned)
          /\ Cardinality(CallsReturned) < TotalModulus
          /\ Cardinality(CallsReturned) \in Nat
      BY <2>2, CallSets DEF EveryCall, RoomForCalls
    <3>5. operationsCompleted' = operationsCompleted + 1
      BY <3>1, <3>3, <3>4
    <3> QED
      BY <1>0, <2>0, <2>2, <3>3, <3>4, <3>5 DEF EveryCall
  <2>3. CASE ~ CountsEachCall
    <3>1. /\ operationsCompleted'
                 = (operationsCompleted + threadOps[t]) % TotalModulus
          /\ pc' = [pc EXCEPT ![t] = "end"]
      BY <1>3, <2>3 DEF CompletedOperations, atomic_exchange_and_add, Goto
    <3>2. t \notin Reported /\ Reported' = Reported \cup {t}
      BY <2>1, <3>1 DEF Reported
    <3>3. CallsOf(Reported)' = CallsOf(Reported \cup {t})
      BY <2>0, <3>2 DEF CallsOf
    <3>4. Cardinality(CallsOf(Reported \cup {t}))
              = Cardinality(CallsOf(Reported)) + calls[t]
      BY <3>2, OneMoreThread DEF Reported
    <3>5. /\ Cardinality(CallsOf(Reported \cup {t})) \in Nat
          /\ Cardinality(CallsOf(Reported \cup {t})) < TotalModulus
      <4>1. CallsOf(Reported \cup {t}) \subseteq CallsReturned
        BY DEF CallsOf
      <4>2. /\ Cardinality(CallsOf(Reported \cup {t})) \in Nat
            /\ Cardinality(CallsOf(Reported \cup {t}))
                   <= ThreadCount * MaxCalls
        BY <4>1, CallSets
      <4>3. ThreadCount * MaxCalls \in Nat
        OBVIOUS
      <4> QED
        BY <4>2, <4>3 DEF RoomForCalls
    <3>6. operationsCompleted' = Cardinality(CallsOf(Reported \cup {t}))
      BY <2>3, <3>1, <3>4, <3>5 DEF EveryCall
    <3> QED
      BY <1>0, <2>0, <2>1, <2>3, <3>3, <3>6 DEF EveryCall
  <2> QED
    BY <2>2, <2>3
<1>4. CASE ~ ReturnFromCall(t) /\ ~ CompletedOperations(t)
  <2>0. UNCHANGED <<calls, CallsReturned>>
    BY <1>2, <1>4
  <2>1. UNCHANGED countVars
    BY <1>4 DEF Thread, InsideStartBarrier, LeaveStartBarrier,
                FirstThreadStartsTiming, FirstThreadSetsAlarm,
                InsideRunBarrier, LeaveRunBarrier, EnterCall, LeaveLoop,
                InsideLastBarrier, ReturnFromThread, mainVars
  <2>2. CASE CountsEachCall
    <3>1. pc'[t] = "count" <=> pc[t] = "count"
      BY <1>4, <2>2
         DEF Thread, InsideStartBarrier, LeaveStartBarrier,
             FirstThreadStartsTiming, FirstThreadSetsAlarm, InsideRunBarrier,
             LeaveRunBarrier, EnterCall, LeaveLoop, InsideLastBarrier,
             ReturnFromThread, Goto
    <3>2. Unreported' = Unreported
      BY <1>0, <3>1 DEF Unreported
    <3> QED
      BY <1>0, <2>0, <2>1, <2>2, <3>2 DEF EveryCall, countVars
  <2>3. CASE ~ CountsEachCall
    <3>1. pc'[t] \in {"end", "done"} <=> pc[t] \in {"end", "done"}
      BY <1>4, <2>3
         DEF Thread, InsideStartBarrier, LeaveStartBarrier,
             FirstThreadStartsTiming, FirstThreadSetsAlarm, InsideRunBarrier,
             LeaveRunBarrier, EnterCall, LeaveLoop, InsideLastBarrier,
             ReturnFromThread, Goto
    <3>2. Reported' = Reported
      BY <1>0, <3>1 DEF Reported
    <3>3. CallsOf(Reported)' = CallsOf(Reported)
      BY <2>0, <3>2 DEF CallsOf
    <3> QED
      BY <1>0, <2>0, <2>1, <2>3, <3>3 DEF EveryCall, countVars
  <2> QED
    BY <2>2, <2>3
<1> QED
  BY <1>1, <1>3, <1>4

LEMMA AccountInvStep ==
    ASSUME RoomForCalls, LeakyInv, AccountInv, [AuditNext]_auditVars
    PROVE  AccountInv'
<1>1. CASE UNCHANGED auditVars
  <2>1. UNCHANGED <<pc, client, threadOps, operationsCompleted, calls>>
    BY <1>1 DEF auditVars, audit, vars, countVars
  <2>2. UNCHANGED <<CallsReturned, Unreported, Reported, CountsEachCall>>
    BY <2>1 DEF CallsReturned, Unreported, Reported, CountsEachCall
  <2>3. CallsOf(Reported)' = CallsOf(Reported)
    BY <2>2 DEF CallsOf
  <2> QED
    BY <2>1, <2>2, <2>3 DEF AccountInv, Indexed, EveryCall
<1>2. CASE Audit
  <2>0. [LeakyNext]_vars
    BY AuditStepIsLeakyStep
  <2>1. Indexed'
    BY <1>2, <2>0, IndexedStep DEF AccountInv
  <2>2. EveryCall'
    <3>1. ASSUME NEW t \in Threads, Live, Thread(t) PROVE EveryCall'
      BY <1>2, <2>0, <3>1, EveryCallThread
    <3>2. ASSUME UNCHANGED <<client, threadOps, operationsCompleted>>,
                 \A t \in Threads :
                     /\ ~ Returns(t)
                     /\ pc'[t] = "count" <=> pc[t] = "count"
                     /\ pc'[t] \in {"end", "done"} <=>
                            pc[t] \in {"end", "done"}
          PROVE  EveryCall'
      <4>1. calls' = calls
        BY <1>2, <3>2 DEF Audit, AccountInv, Indexed
      <4>2. UNCHANGED <<CallsReturned, Unreported, Reported, CountsEachCall>>
        BY <3>2, <4>1 DEF CallsReturned, Unreported, Reported, CountsEachCall
      <4>3. CallsOf(Reported)' = CallsOf(Reported)
        BY <4>2 DEF CallsOf
      <4> QED
        BY <3>2, <4>1, <4>2, <4>3 DEF AccountInv, EveryCall
    <3>3. ASSUME NEW t \in Threads, Live, StartThread(t) PROVE EveryCall'
      <4>1. /\ UNCHANGED <<client, threadOps, operationsCompleted>>
            /\ pc[t] = "none" /\ pc'[t] \in {"start", "missing"}
            /\ \A u \in Threads : u # t => pc'[u] = pc[u]
        BY <3>3 DEF StartThread, Goto, countVars, LeakyInv, PcTypes, Live
      <4> QED
        BY <3>2, <4>1 DEF Returns
    <3>4. CASE UNCHANGED <<opts, client, pc, threadOps, operationsCompleted>>
      BY <3>2, <3>4 DEF Returns
    <3> QED
      BY <2>0, <3>1, <3>3, <3>4, LeakyStepKinds
  <2> QED
    BY <2>1, <2>2 DEF AccountInv
<1> QED
  BY <1>1, <1>2 DEF AuditNext

\* Every call that was made is in the printed total (CompletedOperations,
\* MicroBenchmarkHarness.hpp:292): no report is lost between two threads, and
\* main prints when the last one is in.
THEOREM EveryCallReported ==
    ASSUME RoomForCalls
    PROVE  AuditSpec => []ReportCountsEveryCall
<1>1. AuditInit => AccountInv /\ ReportIsTotal
  BY AccountInvInit DEF AuditInit, Init, ReportIsTotal, NothingPrinted
<1>2. LeakyInv /\ AccountInv /\ ReportIsTotal /\ [AuditNext]_auditVars =>
          (AccountInv /\ ReportIsTotal)'
  BY AccountInvStep, ReportIsTotalStep, AuditStepIsLeakyStep
<1>3. LeakyInv /\ AccountInv /\ ReportIsTotal => ReportCountsEveryCall
  <2> SUFFICES ASSUME LeakyInv, AccountInv, report.printed,
                      report.ops = operationsCompleted
               PROVE  report.ops = Cardinality(CallsReturned)
    BY DEF ReportIsTotal, ReportCountsEveryCall
  <2>1. \A t \in Threads : pc[t] \in {"done", "missing"}
    BY DEF LeakyInv, MainInv
  <2>2. CASE CountsEachCall
    <3>1. Unreported = {}
      BY <2>1 DEF Unreported
    <3> QED
      BY <2>2, <3>1, FS_EmptySet
         DEF AccountInv, EveryCall, LeakyInv, DataTypes, CountTypes
  <2>3. CASE ~ CountsEachCall
    <3>1. ASSUME NEW c \in CallsReturned PROVE c[1] \in Reported
      <4>1. c[1] \in Threads /\ calls[c[1]] # 0
        BY AuditAssumption DEF CallsReturned
      <4> QED
        BY <2>1, <4>1 DEF AccountInv, Indexed, Reported
    <3>2. CallsOf(Reported) = CallsReturned
      BY <3>1 DEF CallsOf
    <3> QED
      BY <2>3, <3>2 DEF AccountInv, EveryCall
  <2> QED
    BY <2>2, <2>3
<1> QED
  BY <1>1, <1>2, <1>3, LeakyInvAudited, PTL DEF AuditSpec
=============================================================================
