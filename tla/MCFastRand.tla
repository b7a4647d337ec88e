----------------------------- MODULE MCFastRand -----------------------------
(* The registers of FastRand.hpp that are small enough to run round. *)
EXTENDS FastRand

\* RAND_LFSR_DECL(8, 8, 6, 5, 4), from any seed; rand() cut to 8 bits is
\* anything.
Taps8 == {8, 6, 5, 4}
AllSeeds == Seeds
=============================================================================
