----------------------------- MODULE MCDaxStore -----------------------------
(* Jobs for the instance of DaxStore. *)
EXTENDS DaxStore

StoreModes == {"no-barrier", "barrier", "flush",
               "nstore-no-barrier", "nstore-barrier"}

\* Loads of one to five cache lines from a heap of twelve: some divide it,
\* some do not.
Loads == [program : {"load"}, heapLen : {768},
          accessSize : {64, 128, 192, 320}, accessMode : {"rnd", "seq"}]

\* Stores of one and of two cache lines to a heap of two, and of three to a
\* heap of four, part of which is left over.
ShortHeaps ==
    [program : {"store"}, heapLen : {128},
     accessSize : {64, 128}, accessMode : {"rnd", "seq"},
     storeMode : StoreModes]
    \cup [program : {"store"}, heapLen : {256},
          accessSize : {192}, accessMode : {"rnd"}, storeMode : StoreModes]

\* Sequential durable stores that visit more than one block.
LongHeap == [program : {"store"}, heapLen : {384}, accessSize : {128},
             accessMode : {"seq"}, storeMode : {"flush"}]

LoadsAndStores == Loads \cup ShortHeaps \cup LongHeap
=============================================================================
