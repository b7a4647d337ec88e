------------------------------ MODULE DaxStore ------------------------------
(***************************************************************************)
(* The stores of dax_store.cpp on their way to the medium, cache line by   *)
(* cache line, in each of its store modes, and the loads of dax_load.cpp   *)
(* beside them.  Which block a call accesses is the subject of DaxBlocks.  *)
(*                                                                         *)
(* A line of the heap is stored in a cache, which writes it back when it   *)
(* likes, or posted past the caches (pmem_memcpy_nodrain), to arrive when  *)
(* it likes.  All stores of a thread copy the same buffer, so that only    *)
(* the storing thread matters.  What has not arrived when the power fails  *)
(* is lost.  If the file is not on persistent memory there is also the     *)
(* kernel's page cache in between, which no instruction empties.           *)
(***************************************************************************)
EXTENDS DaxBlocks, FiniteSets

CONSTANT MaxPosted   \* bound: lines one processor can have on their way past
                     \* the caches; its write-combining buffers are few

\* A job of dax_store also has a store mode, -s.
ASSUME StoreAssumption ==
    /\ \A j \in Jobs : j.program = "store" =>
           j.storeMode \in {"no-barrier", "barrier", "flush",
                           "nstore-no-barrier", "nstore-barrier"}
    /\ MaxPosted \in Nat \ {0}

Nobody == -1

VARIABLES
    isPMEM,    \* what pmem_map_file says of the file
    phase,     \* phase[t]: where thread t is in a call
    left,      \* left[t]: the lines that phase has still to do
    unsaved,   \* unsaved[l]: whose store of line l waits in a cache, if any
    posted,    \* posted[t]: the lines t has posted and that have not arrived
    alive      \* has the program not been killed?

places == <<phase, left>>
memory == <<unsaved, posted>>
storeVars == <<isPMEM, places, memory, alive>>
daxVars == <<vars, storeVars>>

storeMode == job.storeMode

NonTemporal == storeMode \in {"nstore-no-barrier", "nstore-barrier"}

Lines == 0 .. heapLen \div CACHE_LINE_WIDTH - 1

\* The lines of a block, counted from the start of the heap, which is
\* aligned to a page.
LinesOf(block) ==
    {(block * accessSize + q * QuadWord) \div CACHE_LINE_WIDTH : q \in Quads}

StoreInit ==
    /\ Init
    /\ isPMEM \in BOOLEAN
    /\ phase = [t \in Threads |-> "out"]
    /\ left = [t \in Threads |-> {}]
    /\ unsaved = [l \in Lines |-> Nobody]
    /\ posted = [t \in Threads |-> {}]
    /\ alive = TRUE

Goto(t, place, lines) ==
    /\ phase' = [phase EXCEPT ![t] = place]
    /\ left' = [left EXCEPT ![t] = lines]

-----------------------------------------------------------------------------

\* A call of random_read or sequential_read.
Load(t) ==
    /\ program = "load"
    /\ RandomAccess(t) \/ SequentialAccess(t)
    /\ UNCHANGED storeVars

\* A call of random_write or sequential_write.
Store(t) ==
    /\ program = "store" /\ phase[t] = "out"
    /\ RandomAccess(t) \/ SequentialAccess(t)
    /\ Goto(t, "copy", LinesOf(accessed'[t][2]))
    /\ UNCHANGED <<isPMEM, memory, alive>>

\* memcpyPtr: fast_memcpy copies line after line, into the cache;
\* pmem_memcpy_nodrain has its own order, and posts them.
CopyLine(t) ==
    /\ phase[t] = "copy"
    /\ \E l \in left[t] \cap Lines :
        /\ NonTemporal \/ \A k \in left[t] : l <= k
        /\ Goto(t, "copy", left[t] \ {l})
        /\ IF NonTemporal
           THEN /\ Cardinality(posted[t]) < MaxPosted
                /\ posted' = [posted EXCEPT ![t] = @ \cup {l}]
                /\ UNCHANGED unsaved
           ELSE /\ unsaved' = [unsaved EXCEPT ![l] = t]
                /\ UNCHANGED posted
    /\ UNCHANGED <<vars, isPMEM, alive>>

\* Outside the heap the process may have nothing mapped ...
SegmentationFault(t) ==
    /\ phase[t] = "copy" /\ left[t] \ Lines # {}
    /\ alive' = FALSE
    /\ UNCHANGED <<vars, isPMEM, places, memory>>

\* ... or some memory of its own, which is overwritten.
StrayStore(t) ==
    /\ phase[t] = "copy" /\ left[t] \ Lines # {}
    /\ Goto(t, "copy", left[t] \cap Lines)
    /\ UNCHANGED <<vars, isPMEM, memory, alive>>

\* Only the line at ptr is flushed.
CallBarrier_FirstLineOnly(t) ==
    /\ phase[t] = "copy" /\ left[t] = {}
    /\ \/ /\ storeMode = "flush"
          /\ Goto(t, "flush", {l \in LinesOf(accessed[t][2]) :
                                 \A k \in LinesOf(accessed[t][2]) : l <= k})
       \/ storeMode \in {"barrier", "nstore-barrier"} /\ Goto(t, "fence", {})
       \/ storeMode \in {"no-barrier", "nstore-no-barrier"} /\ Goto(t, "out", {})
    /\ UNCHANGED <<vars, isPMEM, memory, alive>>

\* barrierPtr: barrier_flush, barrier_sfence or barrier_empty.
CallBarrier(t) ==
    /\ phase[t] = "copy" /\ left[t] = {}
    /\ \/ storeMode = "flush" /\ Goto(t, "flush", LinesOf(accessed[t][2]))
       \/ storeMode \in {"barrier", "nstore-barrier"} /\ Goto(t, "fence", {})
       \/ storeMode \in {"no-barrier", "nstore-no-barrier"} /\ Goto(t, "out", {})
    /\ UNCHANGED <<vars, isPMEM, memory, alive>>

\* pmem_persist writes the block back line after line, whoever has stored to
\* it, and then fences.  In a page cache it is not yet safe.
FlushLine(t) ==
    /\ phase[t] = "flush"
    /\ \E l \in left[t] :
        /\ \A k \in left[t] : l <= k
        /\ Goto(t, IF left[t] = {l} THEN "fence" ELSE "flush", left[t] \ {l})
        /\ unsaved' = IF isPMEM /\ l \in Lines
                      THEN [unsaved EXCEPT ![l] = Nobody] ELSE unsaved
    /\ UNCHANGED <<vars, isPMEM, posted, alive>>

\* sfence waits for the lines its own thread has posted, and for no cache.
Fence(t) ==
    /\ phase[t] = "fence" /\ posted[t] = {}
    /\ Goto(t, "out", {})
    /\ UNCHANGED <<vars, isPMEM, memory, alive>>

\* A posted line arrives: at the medium, or in the page cache.
Arrive(t) ==
    /\ \E l \in posted[t] :
        /\ posted' = [posted EXCEPT ![t] = @ \ {l}]
        /\ unsaved' = IF isPMEM THEN unsaved ELSE [unsaved EXCEPT ![l] = t]
    /\ UNCHANGED <<vars, isPMEM, places, alive>>

\* A cache, or the kernel, writes a line back.
WriteBack ==
    /\ \E l \in Lines : /\ unsaved[l] # Nobody
                        /\ unsaved' = [unsaved EXCEPT ![l] = Nobody]
    /\ UNCHANGED <<vars, isPMEM, places, posted, alive>>

Step ==
    \/ \E t \in Threads :
        \/ Load(t)
        \/ Store(t) \/ CopyLine(t)
        \/ SegmentationFault(t) \/ StrayStore(t)
        \/ CallBarrier(t) \/ FlushLine(t) \/ Fence(t)
        \/ Arrive(t)
    \/ WriteBack

Killed == ~ alive /\ UNCHANGED daxVars

StoreNext == (alive /\ Step) \/ Killed

StoreSpec == StoreInit /\ [][StoreNext]_daxVars

-----------------------------------------------------------------------------

StoreTypeOK ==
    /\ TypeOK
    /\ isPMEM \in BOOLEAN /\ alive \in BOOLEAN
    /\ phase \in [Threads -> {"out", "copy", "flush", "fence"}]
    /\ \A t \in Threads : left[t] \subseteq LinesOf(accessed[t][2])
    /\ unsaved \in [Lines -> Threads \cup {Nobody}]
    /\ posted \in [Threads -> SUBSET Lines]

\* The modes that are meant to make a store durable, on persistent memory.
\* The program does not check that it has some (dax_store.cpp:197).
Durable ==
    program = "store" /\ isPMEM /\ storeMode \in {"flush", "nstore-barrier"}

\* In these modes a power failure loses lines of calls that have not yet
\* returned, and nothing else, however the threads' stores to the same lines
\* and the write-backs interleave (barrier_flush and barrier_sfence,
\* dax_store.cpp:84).
CrashLosesOnlyCallsInFlight ==
    Durable => \A t \in Threads, l \in Lines :
        unsaved[l] = t \/ l \in posted[t] =>
            phase[t] # "out" /\ l \in LinesOf(accessed[t][2])
=============================================================================
