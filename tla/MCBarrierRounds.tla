--------------------------- MODULE MCBarrierRounds ---------------------------
(* BarrierRounds with a few anonymous threads. *)
EXTENDS BarrierRounds, TLC

ThreadSymmetry == Permutations(Threads)
=============================================================================
