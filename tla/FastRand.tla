------------------------------ MODULE FastRand ------------------------------
(***************************************************************************)
(* RandLFSR (FastRand.hpp): a linear-feedback shift register, one seed per *)
(* benchmark thread.  A seed is modelled as the set of its one bits, bit 1 *)
(* being the least significant, which is how the macro TAP numbers them.   *)
(*                                                                         *)
(* start and calls are history: the first seed the register was shifted    *)
(* from, and how often it has been shifted, modulo Period.                 *)
(***************************************************************************)
EXTENDS Naturals, FiniteSetsExt

CONSTANTS
    W,             \* BITS: the width of the seed
    Taps,          \* T1 .. T4
    InitialSeeds,  \* the seeds the threads are given
    Rands          \* what rand() returns, cut to W bits

Seeds == SUBSET (1 .. W)

ASSUME FastRandAssumption ==
    /\ W \in Nat \ {0}
    /\ Taps \subseteq 1 .. W
    /\ W \in Taps
    /\ InitialSeeds \subseteq Seeds
    /\ Rands \subseteq Seeds /\ Rands # {}

\* As many values as a register can have without being zero.
Period == 2 ^ W - 1

VARIABLES seed, start, calls

vars == <<seed, start, calls>>

Init ==
    /\ seed \in InitialSeeds
    /\ start = seed
    /\ calls = 0

\* *seed >> 1
Shift(s) == {i - 1 : i \in s \ {1}}

\* A mask without its highest tap.
Lfsr_DropsTopTap(s) ==
    IF 1 \in s THEN SymDiff(Shift(s), Taps \ {W}) ELSE Shift(s)

\* The bit that selects the mask is taken after the shift.
Lfsr_TestsAfterShift(s) ==
    IF 1 \in Shift(s) THEN SymDiff(Shift(s), Taps) ELSE Shift(s)

\* The bit shifted out decides whether the taps are inverted.
Lfsr(s) == IF 1 \in s THEN SymDiff(Shift(s), Taps) ELSE Shift(s)

\* A register that holds zero is filled from rand(), which may be zero too.
RandLFSR ==
    \E s \in IF seed = {} THEN Rands ELSE {seed} :
        /\ seed' = Lfsr(s)
        /\ start' = IF seed = {} THEN s ELSE start
        /\ calls' = IF seed = {} THEN 1 ELSE (calls + 1) % Period

Spec == Init /\ [][RandLFSR]_vars

-----------------------------------------------------------------------------

\* "Random enough" (Readme.md:54): from whatever seed, the register goes
\* through every other non-zero value before it repeats one
\* (RAND_LFSR_DECL, FastRand.hpp:9).
FullPeriod ==
    start # {} => (seed = start <=> calls = 0)

\* A register that is not zero never becomes zero: rand() is called at most
\* once per thread unless it returns zero itself (FastRand.hpp:11).
NeverZeroAgain == [][seed # {} => seed' # {}]_vars
=============================================================================
