----------------------------- MODULE DaxProofs -----------------------------
(***************************************************************************)
(* The accesses of dax_load.cpp and dax_store.cpp stay inside the mapping, *)
(* for every number of threads, heap length and access size the programs   *)
(* accept; the first sequential store of a thread is the exception.  And   *)
(* in the durable store modes a crash loses only lines of calls in flight; *)
(* the store modes change nothing about which blocks are accessed.         *)
(***************************************************************************)
EXTENDS DaxStore, TLAPS

-----------------------------------------------------------------------------
(* Arithmetic. *)

\* fast_memcpy copies as many bytes as it is asked to, because the size is a
\* multiple of the eight quad words it copies at a time.
LEMMA MemcpyIsExact ==
    ASSUME NEW size \in Nat, size % CACHE_LINE_WIDTH = 0
    PROVE  fast_memcpy(size) = 0 .. size \div QuadWord - 1
<1>1. PICK lines \in Nat : size = 64 * lines
  BY DEF CACHE_LINE_WIDTH
<1>2. size \div QuadWord = 8 * lines
  BY <1>1 DEF QuadWord
<1>3. fast_memcpy(size) \subseteq 0 .. 8 * lines - 1
  BY <1>2 DEF fast_memcpy
<1>4. ASSUME NEW q \in 0 .. 8 * lines - 1 PROVE q \in fast_memcpy(size)
  <2>1. PICK line \in Nat, k \in 0 .. 7 : q = 8 * line + k
    <3>1. q = 8 * (q \div 8) + (q % 8)
      OBVIOUS
    <3>2. q \div 8 \in Nat /\ (q % 8) \in 0 .. 7
      OBVIOUS
    <3> QED
      BY <3>1, <3>2
  <2>2. 8 * line \in 0 .. 8 * lines - 1 /\ (8 * line) % 8 = 0
    BY <2>1
  <2> QED
    BY <1>2, <2>1, <2>2 DEF fast_memcpy
<1> QED
  BY <1>2, <1>3, <1>4

LEMMA BlocksFit ==
    ASSUME NEW n \in Nat, NEW g \in Nat, g > 0
    PROVE  n \div g \in Nat /\ (n \div g) * g <= n
OBVIOUS

\* What the programs assert of the job they do.
LEMMA JobIsLegal ==
    ASSUME TypeOK
    PROVE  /\ program \in {"load", "store"}
           /\ heapLen \in Nat
           /\ accessSize \in 1 .. heapLen
           /\ accessSize % CACHE_LINE_WIDTH = 0
BY DaxAssumption DEF TypeOK, program, heapLen, accessSize

LEMMA QuadsOfABlock ==
    ASSUME TypeOK, NEW q \in Quads
    PROVE  q \in Nat /\ (q + 1) * QuadWord <= accessSize
<1>1. accessSize \in Nat /\ accessSize % CACHE_LINE_WIDTH = 0
  BY JobIsLegal
<1>2. q \in 0 .. accessSize \div QuadWord - 1
  BY <1>1, MemcpyIsExact DEF Quads, LoadedQuads
<1> QED
  BY <1>1, <1>2 DEF QuadWord

LEMMA BlocksAreMapped ==
    ASSUME TypeOK, NEW block \in 0 .. totalBlocks - 1
    PROVE  Mapped(block)
<1> DEFINE first == block * accessSize
<1>1. accessSize \in Nat /\ accessSize > 0 /\ heapLen \in Nat
  BY JobIsLegal
<1>2. totalBlocks \in Nat /\ totalBlocks * accessSize <= heapLen
  BY <1>1, BlocksFit DEF totalBlocks
<1>3. first \in Nat /\ first + accessSize <= heapLen
  <2>1. block \in Nat /\ first \in Nat
    BY <1>1, <1>2
  <2>2. (block + 1) * accessSize <= totalBlocks * accessSize
    BY <1>1, <1>2, <2>1
  <2>3. (block + 1) * accessSize = first + accessSize
    BY <1>1, <2>1
  <2> QED
    BY <1>1, <1>2, <2>1, <2>2, <2>3
<1> HIDE DEF first
<1>4. ASSUME NEW q \in Quads
      PROVE  first + q * QuadWord >= 0 /\ first + q * QuadWord + QuadWord <= heapLen
  BY <1>1, <1>3, QuadsOfABlock DEF QuadWord
<1> QED
  BY <1>4 DEF Mapped, first

-----------------------------------------------------------------------------
(* The indices. *)

Blocks == 0 .. totalBlocks - 1

\* A load's index is always a block.
LoadIndices ==
    program = "load" =>
        \A t \in Threads : nextBlock[t] \in Blocks
                           /\ accessed[t][2] \in Blocks \cup {-1}

\* A store's index is a block when it has been advanced once.
StoreIndices ==
    program = "store" =>
        \A t \in Threads :
            /\ accessMode = "seq" /\ accessed[t][2] >= 0
                   => nextBlock[t] \in Blocks
            /\ accessed[t][1] >= 0 => accessed[t][2] \in Blocks

IndexInv == TypeOK /\ LoadIndices /\ StoreIndices

LEMMA ThereAreBlocks ==
    ASSUME TypeOK
    PROVE  totalBlocks \in 1 .. heapLen
<1>1. accessSize \in 1 .. heapLen /\ heapLen \in Nat
  BY JobIsLegal
<1>2. \A n, g \in Nat : 0 < g /\ g <= n => n \div g \in 1 .. n
  OBVIOUS
<1> QED
  BY <1>1, <1>2 DEF totalBlocks

LEMMA FirstBlocks ==
    ASSUME heapLen \in Nat, NEW t \in Threads
    PROVE  FirstBlock(t) \in 0 .. heapLen
<1>1. sectionSize \in Nat /\ sectionSize * ThreadCount <= heapLen
  BY DaxAssumption, BlocksFit DEF sectionSize
<1>2. t * sectionSize \in Nat /\ t * sectionSize <= ThreadCount * sectionSize
  BY <1>1, DaxAssumption DEF Threads
<1> QED
  BY <1>1, <1>2, DaxAssumption DEF FirstBlock

LEMMA IndexInvInit == Init => IndexInv
<1> SUFFICES ASSUME Init PROVE IndexInv
  OBVIOUS
<1>1. heapLen \in Nat
  BY DaxAssumption DEF Init, heapLen
<1>2. TypeOK
  BY <1>1, FirstBlocks DEF Init, TypeOK
<1>3. LoadIndices /\ StoreIndices
  BY <1>2, ThereAreBlocks
     DEF Init, FirstBlock, LoadIndices, StoreIndices, Blocks, program
<1> QED
  BY <1>2, <1>3 DEF IndexInv

LEMMA IndexInvStep == IndexInv /\ [Next]_vars => IndexInv'
<1> SUFFICES ASSUME IndexInv, [Next]_vars PROVE IndexInv'
  OBVIOUS
<1> USE DEF IndexInv
<1>0. totalBlocks \in 1 .. heapLen /\ heapLen \in Nat
  BY ThereAreBlocks, JobIsLegal
<1>1. ASSUME NEW t \in Threads, RandomAccess(t) PROVE IndexInv'
  <2>1. PICK block \in Blocks : Access(t, block)
    BY <1>1 DEF RandomAccess, Blocks
  <2>2. UNCHANGED <<job, program, heapLen, accessSize, totalBlocks, Blocks,
                    accessMode, nextBlock>>
        /\ accessMode = "rnd"
    BY <1>1 DEF RandomAccess, totalBlocks, Blocks, program, heapLen,
                accessSize, accessMode
  <2> USE <2>1, <2>2 DEF Access
  <2>3. TypeOK'
    BY <1>0 DEF TypeOK, Blocks
  <2>4. LoadIndices'
    BY DEF TypeOK, LoadIndices
  <2>5. StoreIndices'
    BY DEF TypeOK, StoreIndices
  <2> QED
    BY <2>3, <2>4, <2>5
<1>2. ASSUME NEW t \in Threads, SequentialAccess(t) PROVE IndexInv'
  <2> DEFINE b == (nextBlock[t] + accessSize) % totalBlocks
  <2>1. b \in Blocks
    BY <1>0, JobIsLegal DEF TypeOK, Blocks
  <2>2. UNCHANGED <<job, program, heapLen, accessSize, totalBlocks, Blocks,
                    accessMode>>
        /\ accessMode = "seq"
    BY <1>2 DEF SequentialAccess, totalBlocks, Blocks, program, heapLen,
                accessSize, accessMode
  <2>3. Access(t, nextBlock[t]) /\ nextBlock' = [nextBlock EXCEPT ![t] = b]
    BY <1>2 DEF SequentialAccess
  <2> HIDE DEF b
  <2> USE <2>1, <2>2, <2>3 DEF Access
  <2>4. TypeOK'
    BY <1>0 DEF TypeOK, Blocks
  <2>5. LoadIndices'
    BY DEF TypeOK, LoadIndices
  <2>6. StoreIndices'
    BY DEF TypeOK, StoreIndices
  <2> QED
    BY <2>4, <2>5, <2>6
<1>3. CASE UNCHANGED vars
  BY <1>3 DEF vars, TypeOK, LoadIndices, StoreIndices, Blocks, totalBlocks,
              program, heapLen, accessSize, accessMode
<1> QED
  BY <1>1, <1>2, <1>3 DEF Next

LEMMA IndexInvariant == Spec => []IndexInv
BY IndexInvInit, IndexInvStep, PTL DEF Spec

\* Every load of dax_load is within the mapped heap: no bound on the number
\* of threads, the heap, the access size or the calls
\* (dax_load.cpp:73).
THEOREM LoadsAreMapped == Spec => []LoadsStayMapped
<1>1. IndexInv => LoadsStayMapped
  BY BlocksAreMapped DEF IndexInv, LoadIndices, LoadsStayMapped, Blocks
<1> QED
  BY <1>1, IndexInvariant, PTL

\* So is every store of dax_store but a thread's first (dax_store.cpp:123).
THEOREM LaterStoresAreMapped == Spec => []LaterStoresStayMapped
<1>1. IndexInv => LaterStoresStayMapped
  BY BlocksAreMapped DEF IndexInv, StoreIndices, LaterStoresStayMapped, Blocks
<1> QED
  BY <1>1, IndexInvariant, PTL

-----------------------------------------------------------------------------
(* What makes the durable modes durable. *)

\* A line that is still unsaved will be flushed by its thread ...
FlushIsAhead ==
    \A t \in Threads, l \in Lines : unsaved[l] = t =>
        /\ storeMode = "flush"
        /\ l \in LinesOf(accessed[t][2])
        /\ \/ phase[t] = "copy"
           \/ phase[t] = "flush" /\ l \in left[t]

\* ... and a posted line will be waited for.
FenceIsAhead ==
    \A t \in Threads, l \in Lines : l \in posted[t] =>
        /\ storeMode = "nstore-barrier"
        /\ l \in LinesOf(accessed[t][2])
        /\ phase[t] \in {"copy", "fence"}

\* In a call, phase and left are where the mode wants them.
PhaseIsRight ==
    \A t \in Threads :
        /\ phase[t] \in {"out", "copy", "flush", "fence"}
        /\ program = "load" => phase[t] = "out"
        /\ phase[t] = "flush" => storeMode = "flush"
        /\ left[t] \subseteq LinesOf(accessed[t][2])
        /\ phase[t] \in {"out", "fence"} => left[t] = {}

ShapeOK ==
    /\ phase \in [Threads -> {"out", "copy", "flush", "fence"}]
    /\ left \in [Threads -> SUBSET Int]
    /\ unsaved \in [Lines -> Threads \cup {Nobody}]
    /\ posted \in [Threads -> SUBSET Lines]

StoreInv ==
    /\ ShapeOK
    /\ PhaseIsRight
    /\ Durable => FlushIsAhead /\ FenceIsAhead

-----------------------------------------------------------------------------
(* The store modes are a superposition on DaxBlocks. *)

LEMMA StoreRefinesInit == StoreInit => Init
BY DEF StoreInit

LEMMA StoreRefinesNext == [StoreNext]_daxVars => [Next]_vars
<1> SUFFICES ASSUME [StoreNext]_daxVars PROVE [Next]_vars
  OBVIOUS
<1>1. CASE UNCHANGED daxVars
  BY <1>1 DEF daxVars
<1>2. CASE \E t \in Threads : Load(t) \/ Store(t)
  BY <1>2 DEF Load, Store, Next
<1>3. CASE \E t \in Threads :
            \/ CopyLine(t) \/ SegmentationFault(t) \/ StrayStore(t)
            \/ CallBarrier(t) \/ FlushLine(t) \/ Fence(t) \/ Arrive(t)
  BY <1>3 DEF CopyLine, SegmentationFault, StrayStore, CallBarrier, FlushLine,
              Fence, Arrive
<1>4. CASE WriteBack
  BY <1>4 DEF WriteBack
<1> QED
  BY <1>1, <1>2, <1>3, <1>4 DEF StoreNext, Step, Killed, daxVars

\* Whatever holds of the blocks holds in every store mode, line by line
\* (random_write and sequential_write, dax_store.cpp:123).
THEOREM StoreImplementsBlocks == StoreSpec => Spec
BY StoreRefinesInit, StoreRefinesNext, PTL DEF StoreSpec, Spec

LEMMA TypesHold == StoreSpec => []TypeOK
<1>1. IndexInv => TypeOK
  BY DEF IndexInv
<1> QED
  BY <1>1, StoreImplementsBlocks, IndexInvariant, PTL

\* The theorems about loads and stores, for the program with its modes.
THEOREM DaxAccessesAreMapped ==
    StoreSpec => [](LoadsStayMapped /\ LaterStoresStayMapped)
BY StoreImplementsBlocks, LoadsAreMapped, LaterStoresAreMapped, PTL

-----------------------------------------------------------------------------

LEMMA LinesAreNumbers ==
    ASSUME TypeOK, NEW block \in Int
    PROVE  LinesOf(block) \in SUBSET Int
<1>1. accessSize \in Nat
  BY JobIsLegal
<1>2. Quads \subseteq Nat
  BY QuadsOfABlock
<1> QED
  BY <1>1, <1>2 DEF LinesOf, QuadWord, CACHE_LINE_WIDTH

LEMMA StoreInvInit == StoreInit => StoreInv
<1> SUFFICES ASSUME StoreInit PROVE StoreInv
  OBVIOUS
<1>1. ShapeOK /\ PhaseIsRight
  BY DEF StoreInit, ShapeOK, PhaseIsRight
<1>2. FlushIsAhead /\ FenceIsAhead
  BY DEF StoreInit, FlushIsAhead, FenceIsAhead, Nobody, Threads
<1> QED
  BY <1>1, <1>2 DEF StoreInv

\* The names of what depends on the job alone.
LEMMA JobIsKept ==
    ASSUME job' = job, isPMEM' = isPMEM
    PROVE  /\ program' = program /\ storeMode' = storeMode
           /\ Durable' = Durable /\ NonTemporal' = NonTemporal
           /\ Lines' = Lines
           /\ \A b : LinesOf(b)' = LinesOf(b)
BY DEF Lines, storeMode, Durable, NonTemporal, LinesOf, Quads, LoadedQuads,
       program, heapLen, accessSize

LEMMA StoreInvStep ==
    ASSUME TypeOK, TypeOK', StoreInv, [StoreNext]_daxVars
    PROVE  StoreInv'
<1> USE DEF StoreInv
<1>0. \A t \in Threads : t # Nobody
  BY DaxAssumption DEF Threads, Nobody
<1>1. ASSUME NEW t \in Threads, Store(t) PROVE StoreInv'
  <2>1. job' = job /\ isPMEM' = isPMEM /\ unsaved' = unsaved /\ posted' = posted
    BY <1>1 DEF Store, RandomAccess, SequentialAccess, memory
  <2>2. /\ program = "store" /\ phase[t] = "out"
        /\ Goto(t, "copy", LinesOf(accessed'[t][2]))
    BY <1>1 DEF Store
  <2>3. \A u \in Threads \ {t} : accessed'[u] = accessed[u]
    BY <1>1 DEF Store, RandomAccess, SequentialAccess, Access, TypeOK
  <2>4. accessed'[t][2] \in Int
    BY JobIsLegal, <2>1 DEF TypeOK, heapLen
  <2>5. LinesOf(accessed'[t][2]) \in SUBSET Int
    BY <2>4, LinesAreNumbers
  <2> USE <2>1, <2>2, <2>3, <2>5, JobIsKept DEF Goto
  <2>6. ShapeOK'
    BY DEF ShapeOK
  <2>7. PhaseIsRight'
    BY DEF ShapeOK, PhaseIsRight
  <2>8. Durable => FlushIsAhead' /\ FenceIsAhead'
    BY DEF ShapeOK, FlushIsAhead, FenceIsAhead
  <2> QED
    BY <2>6, <2>7, <2>8
<1>2. ASSUME NEW t \in Threads, CopyLine(t) PROVE StoreInv'
  <2>1. UNCHANGED <<job, isPMEM, accessed>> /\ phase[t] = "copy"
    BY <1>2 DEF CopyLine, vars
  <2>2. PICK l \in left[t] \cap Lines :
            /\ Goto(t, "copy", left[t] \ {l})
            /\ IF NonTemporal
               THEN /\ posted' = [posted EXCEPT ![t] = @ \cup {l}]
                    /\ UNCHANGED unsaved
               ELSE /\ unsaved' = [unsaved EXCEPT ![l] = t]
                    /\ UNCHANGED posted
    BY <1>2 DEF CopyLine
  <2>3. l \in LinesOf(accessed[t][2])
    BY <2>1 DEF PhaseIsRight
  <2> USE <2>1, <2>2, <2>3, JobIsKept DEF Goto
  <2>4. ShapeOK'
    BY DEF ShapeOK
  <2>5. PhaseIsRight'
    BY DEF ShapeOK, PhaseIsRight
  <2>6. Durable => FlushIsAhead'
    BY DEF ShapeOK, FlushIsAhead, Durable, NonTemporal
  <2>7. Durable => FenceIsAhead'
    BY DEF ShapeOK, FenceIsAhead, Durable, NonTemporal
  <2> QED
    BY <2>4, <2>5, <2>6, <2>7
<1>3. ASSUME NEW t \in Threads, StrayStore(t) PROVE StoreInv'
  <2>1. /\ UNCHANGED <<job, isPMEM, accessed, unsaved, posted>>
        /\ phase[t] = "copy" /\ Goto(t, "copy", left[t] \cap Lines)
    BY <1>3 DEF StrayStore, vars, memory
  <2> USE <2>1, JobIsKept DEF Goto
  <2>2. ShapeOK'
    BY DEF ShapeOK
  <2>3. PhaseIsRight'
    BY DEF ShapeOK, PhaseIsRight
  <2>4. Durable => FlushIsAhead' /\ FenceIsAhead'
    BY DEF ShapeOK, FlushIsAhead, FenceIsAhead
  <2> QED
    BY <2>2, <2>3, <2>4
<1>4. ASSUME NEW t \in Threads, CallBarrier(t) PROVE StoreInv'
  <2> DEFINE lines == LinesOf(accessed[t][2])
  <2>1. /\ UNCHANGED <<job, isPMEM, accessed, unsaved, posted>>
        /\ phase[t] = "copy"
    BY <1>4 DEF CallBarrier, vars, memory
  <2>2. accessed[t][2] \in Int
    BY JobIsLegal DEF TypeOK
  <2>3. lines \in SUBSET Int
    BY <2>2, LinesAreNumbers
  <2> USE <2>1, JobIsKept DEF Goto
  <2>4. CASE storeMode = "flush" /\ Goto(t, "flush", lines)
    <3>1. ShapeOK'
      BY <2>3, <2>4 DEF ShapeOK
    <3>2. PhaseIsRight'
      BY <2>4 DEF ShapeOK, PhaseIsRight
    <3>3. Durable => FlushIsAhead' /\ FenceIsAhead'
      BY <2>4 DEF ShapeOK, FlushIsAhead, FenceIsAhead
    <3> QED
      BY <3>1, <3>2, <3>3
  <2>5. CASE /\ storeMode \in {"barrier", "nstore-barrier"}
             /\ Goto(t, "fence", {})
    <3>1. ShapeOK'
      BY <2>5 DEF ShapeOK
    <3>2. PhaseIsRight'
      BY <2>5 DEF ShapeOK, PhaseIsRight
    <3>3. Durable => FlushIsAhead' /\ FenceIsAhead'
      BY <2>5 DEF ShapeOK, FlushIsAhead, FenceIsAhead
    <3> QED
      BY <3>1, <3>2, <3>3
  <2>6. CASE /\ storeMode \in {"no-barrier", "nstore-no-barrier"}
             /\ Goto(t, "out", {})
    <3>1. ShapeOK'
      BY <2>6 DEF ShapeOK
    <3>2. PhaseIsRight'
      BY <2>6 DEF ShapeOK, PhaseIsRight
    <3>3. ~ Durable
      BY <2>6 DEF Durable
    <3> QED
      BY <3>1, <3>2, <3>3
  <2> QED
    BY <1>4, <2>4, <2>5, <2>6 DEF CallBarrier
<1>5. ASSUME NEW t \in Threads, FlushLine(t) PROVE StoreInv'
  <2>1. UNCHANGED <<job, isPMEM, accessed, posted>> /\ phase[t] = "flush"
    BY <1>5 DEF FlushLine, vars
  <2>2. PICK l \in left[t] :
            /\ Goto(t, IF left[t] = {l} THEN "fence" ELSE "flush", left[t] \ {l})
            /\ unsaved' = IF isPMEM /\ l \in Lines
                          THEN [unsaved EXCEPT ![l] = Nobody] ELSE unsaved
    BY <1>5 DEF FlushLine
  <2>3. storeMode = "flush"
    BY <2>1 DEF PhaseIsRight
  <2> USE <2>1, <2>2, <2>3, JobIsKept DEF Goto
  <2>4. ShapeOK'
    BY DEF ShapeOK
  <2>5. PhaseIsRight'
    BY DEF ShapeOK, PhaseIsRight
  <2>6. Durable => FlushIsAhead'
    BY <1>0 DEF ShapeOK, FlushIsAhead, Durable
  <2>7. Durable => FenceIsAhead'
    BY DEF ShapeOK, FenceIsAhead
  <2> QED
    BY <2>4, <2>5, <2>6, <2>7
<1>6. ASSUME NEW t \in Threads, Fence(t) PROVE StoreInv'
  <2>1. /\ UNCHANGED <<job, isPMEM, accessed, unsaved, posted>>
        /\ phase[t] = "fence" /\ posted[t] = {} /\ Goto(t, "out", {})
    BY <1>6 DEF Fence, vars, memory
  <2> USE <2>1, JobIsKept DEF Goto
  <2>2. ShapeOK'
    BY DEF ShapeOK
  <2>3. PhaseIsRight'
    BY DEF ShapeOK, PhaseIsRight
  <2>4. Durable => FlushIsAhead' /\ FenceIsAhead'
    BY DEF ShapeOK, FlushIsAhead, FenceIsAhead
  <2> QED
    BY <2>2, <2>3, <2>4
<1>7. ASSUME NEW t \in Threads, Arrive(t) PROVE StoreInv'
  <2>1. UNCHANGED <<job, isPMEM, accessed, phase, left>>
    BY <1>7 DEF Arrive, vars, places
  <2>2. PICK l \in posted[t] :
            /\ posted' = [posted EXCEPT ![t] = @ \ {l}]
            /\ unsaved' = IF isPMEM THEN unsaved ELSE [unsaved EXCEPT ![l] = t]
    BY <1>7 DEF Arrive
  <2> USE <2>1, <2>2, JobIsKept
  <2>3. ShapeOK'
    BY DEF ShapeOK
  <2>4. PhaseIsRight'
    BY DEF PhaseIsRight
  <2>5. Durable => FlushIsAhead' /\ FenceIsAhead'
    BY DEF ShapeOK, FlushIsAhead, FenceIsAhead, Durable
  <2> QED
    BY <2>3, <2>4, <2>5
<1>8. CASE WriteBack
  <2>1. UNCHANGED <<job, isPMEM, accessed, phase, left, posted>>
    BY <1>8 DEF WriteBack, vars, places
  <2>2. PICK l \in Lines : unsaved' = [unsaved EXCEPT ![l] = Nobody]
    BY <1>8 DEF WriteBack
  <2> USE <2>1, <2>2, JobIsKept
  <2>3. ShapeOK'
    BY DEF ShapeOK
  <2>4. PhaseIsRight'
    BY DEF PhaseIsRight
  <2>5. \A t \in Threads, k \in Lines :
            unsaved'[k] = t => unsaved[k] = t
    BY <1>0 DEF ShapeOK
  <2>6. Durable => FlushIsAhead'
    BY <2>5 DEF FlushIsAhead
  <2>7. Durable => FenceIsAhead'
    BY DEF FenceIsAhead
  <2> QED
    BY <2>3, <2>4, <2>6, <2>7
<1>9. ASSUME UNCHANGED <<job, isPMEM, accessed, phase, left, unsaved, posted>>
      PROVE  StoreInv'
  BY <1>9, JobIsKept DEF ShapeOK, PhaseIsRight, FlushIsAhead, FenceIsAhead
<1>10. ASSUME NEW t \in Threads, Load(t) PROVE StoreInv'
  <2>1. /\ UNCHANGED <<job, isPMEM, phase, left, unsaved, posted>>
        /\ program = "load" /\ ~ Durable
    BY <1>10 DEF Load, RandomAccess, SequentialAccess, storeVars, places,
                 memory, Durable
  <2> USE <2>1, JobIsKept
  <2>2. ShapeOK'
    BY DEF ShapeOK
  <2>3. PhaseIsRight'
    BY DEF PhaseIsRight, program
  <2> QED
    BY <2>2, <2>3
<1>11. ASSUME NEW t \in Threads, SegmentationFault(t) PROVE StoreInv'
  BY <1>9, <1>11 DEF SegmentationFault, vars, places, memory
<1> QED
  BY <1>1, <1>2, <1>3, <1>4, <1>5, <1>6, <1>7, <1>8, <1>9, <1>10, <1>11
     DEF StoreNext, Step, Killed, daxVars, vars, storeVars, places, memory

LEMMA StoreInvariant == StoreSpec => []StoreInv
BY StoreInvInit, StoreInvStep, TypesHold, PTL DEF StoreSpec

-----------------------------------------------------------------------------

\* On persistent memory, what the store modes "flush" and "nstore-barrier"
\* have not yet made durable belongs to a call in flight, whatever the number
\* of threads, the heap and the order in which lines arrive
\* (barrier_flush and barrier_sfence, dax_store.cpp:84).
THEOREM CrashLosesOnlyInFlight == StoreSpec => []CrashLosesOnlyCallsInFlight
<1>1. StoreInv => CrashLosesOnlyCallsInFlight
  BY DEF StoreInv, FlushIsAhead, FenceIsAhead, CrashLosesOnlyCallsInFlight
<1> QED
  BY <1>1, StoreInvariant, PTL

LEMMA FlagsInvariant == StoreSpec => [](isPMEM \in BOOLEAN /\ alive \in BOOLEAN)
<1> DEFINE Flags == isPMEM \in BOOLEAN /\ alive \in BOOLEAN
<1>1. StoreInit => Flags
  BY DEF StoreInit
<1>2. Flags /\ [StoreNext]_daxVars => Flags'
  <2> SUFFICES ASSUME Flags, [StoreNext]_daxVars PROVE Flags'
    OBVIOUS
  <2>1. UNCHANGED isPMEM
    BY DEF StoreNext, Step, Load, Store, CopyLine, SegmentationFault,
           StrayStore, CallBarrier, FlushLine, Fence, Arrive, WriteBack,
           Killed, daxVars, storeVars
  <2>2. UNCHANGED alive \/ alive' = FALSE
    BY DEF StoreNext, Step, Load, Store, CopyLine, SegmentationFault,
           StrayStore, CallBarrier, FlushLine, Fence, Arrive, WriteBack,
           Killed, daxVars, storeVars
  <2> QED
    BY <2>1, <2>2, Zenon
<1> QED
  BY <1>1, <1>2, PTL DEF StoreSpec

\* A call has only lines of its own block left to do, and none when it is
\* over or waits at its fence (dax_store.cpp:84).
THEOREM StoreTypeCorrect == StoreSpec => []StoreTypeOK
<1> DEFINE Flags == isPMEM \in BOOLEAN /\ alive \in BOOLEAN
<1>1. TypeOK /\ StoreInv /\ Flags => StoreTypeOK
  BY Zenon DEF StoreInv, ShapeOK, PhaseIsRight, StoreTypeOK
<1> QED
  BY <1>1, TypesHold, StoreInvariant, FlagsInvariant, PTL
=============================================================================
