----------------------------- MODULE MCDaxBlocks -----------------------------
(* DaxBlocks on a heap of twelve cache lines, stored to sequentially. *)
EXTENDS DaxBlocks

SequentialStores == [program : {"store"}, heapLen : {768},
                     accessSize : {64, 128, 192, 320}, accessMode : {"seq"}]
=============================================================================
