------------------------------ MODULE DaxBlocks ------------------------------
(***************************************************************************)
(* Which bytes of the mapped heap the threads of dax_load.cpp and of       *)
(* dax_store.cpp access.  The heap is cut into blocks of accessSize bytes; *)
(* a thread accesses one block per call of the function under test, at     *)
(* random or "sequentially".                                               *)
(*                                                                         *)
(* When the threads run and for how long is the subject of Harness; here   *)
(* each makes calls for ever, in any order.                                *)
(***************************************************************************)
EXTENDS Integers

CONSTANTS
    ThreadCount,  \* -tc
    Jobs          \* what the programs may be started to do: records of
                  \*   program     "load" or "store"
                  \*   heapLen     -foot, in bytes: nvheapLen, which
                  \*               nvMapLen must equal
                  \*   accessSize  -g, in bytes
                  \*   accessMode  -m, "rnd" or "seq"

CACHE_LINE_WIDTH == 64
QuadWord == 8   \* sizeof(uint64_t)

Threads == 0 .. ThreadCount - 1
\* The programs assert these, and divide by the number of blocks.
ASSUME DaxAssumption ==
    /\ ThreadCount \in Nat \ {0}
    /\ \A j \in Jobs :
        /\ j.program \in {"load", "store"}
        /\ j.heapLen \in Nat
        /\ j.accessSize \in 1 .. j.heapLen
        /\ j.accessSize % CACHE_LINE_WIDTH = 0
        /\ j.accessMode \in {"rnd", "seq"}
        /\ j.program = "store" =>
                (j.heapLen \div ThreadCount) % CACHE_LINE_WIDTH = 0

VARIABLES
    job,         \* what the program has been started to do
    nextBlock,   \* nextBlock[t]: lastReadBlock, nextBlockToWrite
    accessed     \* accessed[t]: the blocks of t's last two calls, -1 for none

vars == <<job, nextBlock, accessed>>

program == job.program
heapLen == job.heapLen
accessSize == job.accessSize
accessMode == job.accessMode

sectionSize == heapLen \div ThreadCount
totalBlocks == heapLen \div accessSize

\* Blocks are numbered, sections are measured in bytes.
FirstBlock(t) == IF program = "store" THEN t * sectionSize ELSE 0

Init ==
    /\ job \in Jobs
    /\ nextBlock = [t \in Threads |-> FirstBlock(t)]
    /\ accessed = [t \in Threads |-> <<-1, -1>>]

Access(t, block) == accessed' = [accessed EXCEPT ![t] = <<@[2], block>>]

\* random_read and random_write, with any value for RandLFSR.
RandomAccess(t) ==
    /\ accessMode = "rnd"
    /\ \E block \in 0 .. totalBlocks - 1 : Access(t, block)
    /\ UNCHANGED <<job, nextBlock>>

\* The index is not wrapped.
SequentialAccess_NoModulo(t) ==
    /\ accessMode = "seq"
    /\ Access(t, nextBlock[t])
    /\ nextBlock' = [nextBlock EXCEPT ![t] = @ + accessSize]
    /\ UNCHANGED job

\* The index is advanced modulo the bytes of the heap.
SequentialAccess_WrapsAtBytes(t) ==
    /\ accessMode = "seq"
    /\ Access(t, nextBlock[t])
    /\ nextBlock' = [nextBlock EXCEPT ![t] = (@ + accessSize) % heapLen]
    /\ UNCHANGED job

\* sequential_read and sequential_write: the index advances by accessSize,
\* though it counts blocks.
SequentialAccess(t) ==
    /\ accessMode = "seq"
    /\ Access(t, nextBlock[t])
    /\ nextBlock' = [nextBlock EXCEPT ![t] = (@ + accessSize) % totalBlocks]
    /\ UNCHANGED job

Next == \E t \in Threads : RandomAccess(t) \/ SequentialAccess(t)

Spec == Init /\ [][Next]_vars

-----------------------------------------------------------------------------
(* The quad words of a block that are accessed, as offsets into it: a load *)
(* reads them one by one; fast_memcpy stores whole cache lines, eight quad *)
(* words at a time, until it has passed the last.                          *)

LoadedQuads == 0 .. accessSize \div QuadWord - 1

\* One line too many.
fast_memcpy_OffByOne(size) ==
    {offset + k : offset \in {o \in 0 .. size \div QuadWord : o % 8 = 0},
                  k \in 0 .. 7}

fast_memcpy(size) ==
    {offset + k : offset \in {o \in 0 .. size \div QuadWord - 1 : o % 8 = 0},
                  k \in 0 .. 7}

Quads == IF program = "load" THEN LoadedQuads ELSE fast_memcpy(accessSize)

\* Every quad word of the block lies within the mapping.
Mapped(block) ==
    \A q \in Quads :
        /\ block * accessSize + q * QuadWord >= 0
        /\ block * accessSize + q * QuadWord + QuadWord <= heapLen

-----------------------------------------------------------------------------

TypeOK ==
    /\ job \in Jobs
    /\ nextBlock \in [Threads -> 0 .. heapLen]
    /\ accessed \in [Threads -> (-1 .. heapLen) \X (-1 .. heapLen)]

\* No load leaves the mapping, whatever the size of an access and wherever
\* the index has got to (random_read and sequential_read, dax_load.cpp:73).
LoadsStayMapped ==
    program = "load" =>
        \A t \in Threads : accessed[t][2] >= 0 => Mapped(accessed[t][2])

\* No store leaves the mapping, once a thread has made its first
\* (random_write and sequential_write, dax_store.cpp:123).
LaterStoresStayMapped ==
    program = "store" =>
        \A t \in Threads : accessed[t][1] >= 0 => Mapped(accessed[t][2])

\* "We set a different start offset for each worker thread to make sure they
\* write to different regions of persistent memory" (dax_store.cpp:222): the
\* first store of a thread is in its section of the heap.
StoresStartInOwnSection ==
    accessMode = "seq" =>
        \A t \in Threads : accessed[t][1] = -1 /\ accessed[t][2] >= 0 =>
            accessed[t][2] * accessSize
                \in t * sectionSize .. (t + 1) * sectionSize - 1
=============================================================================
