--------------------------- MODULE FastRandProofs ---------------------------
(***************************************************************************)
(* What holds of RandLFSR at every width and for every choice of taps      *)
(* whose highest is the width: 8, 16, 32 and 64 bits alike.                *)
(***************************************************************************)
EXTENDS FastRand, TLAPS

LEMMA ShiftType ==
    ASSUME NEW s \in Seeds
    PROVE  Shift(s) \in Seeds /\ W \notin Shift(s)
BY FastRandAssumption DEF Seeds, Shift

LEMMA LfsrType ==
    ASSUME NEW s \in Seeds
    PROVE  Lfsr(s) \in Seeds
BY ShiftType, FastRandAssumption DEF Lfsr, SymDiff, Seeds

\* The highest bit of the result tells whether the lowest of the seed was set.
LEMMA TopBitIsLowBit ==
    ASSUME NEW s \in Seeds
    PROVE  W \in Lfsr(s) <=> 1 \in s
BY ShiftType, FastRandAssumption DEF Lfsr, SymDiff

LEMMA ShiftForgetsOnlyTheLowBit ==
    ASSUME NEW s \in Seeds, NEW i \in s, i # 1
    PROVE  i - 1 \in Shift(s)
BY DEF Shift

LEMMA ShiftRemembers ==
    ASSUME NEW s \in Seeds, NEW i \in 1 .. W, i - 1 \in Shift(s)
    PROVE  i \in s
<1>1. PICK j \in s \ {1} : i - 1 = j - 1
  BY DEF Shift
<1>2. i = j
  BY <1>1 DEF Seeds
<1> QED
  BY <1>1, <1>2

LEMMA NonZeroStays ==
    ASSUME NEW s \in Seeds, s # {}
    PROVE  Lfsr(s) # {}
<1>1. CASE 1 \in s
  BY <1>1, TopBitIsLowBit
<1>2. CASE 1 \notin s
  <2>1. PICK i \in s : i # 1
    BY <1>2
  <2> QED
    BY <1>2, <2>1, ShiftForgetsOnlyTheLowBit DEF Lfsr
<1> QED
  BY <1>1, <1>2

\* Two different seeds never give the same number: threads that start from
\* different seeds draw different numbers in each of their calls
\* (RAND_LFSR_DECL, FastRand.hpp:16).
THEOREM LfsrInjective ==
    ASSUME NEW r \in Seeds, NEW s \in Seeds, Lfsr(r) = Lfsr(s)
    PROVE  r = s
<1>1. 1 \in r <=> 1 \in s
  BY TopBitIsLowBit
<1>2. Shift(r) = Shift(s)
  BY <1>1 DEF Lfsr, SymDiff
<1>3. ASSUME NEW i \in 1 .. W PROVE i \in r <=> i \in s
  <2>1. CASE i = 1
    BY <1>1, <2>1
  <2>2. CASE i # 1
    BY <1>2, <2>2, ShiftForgetsOnlyTheLowBit, ShiftRemembers
  <2> QED
    BY <2>1, <2>2
<1> QED
  BY <1>3 DEF Seeds

-----------------------------------------------------------------------------

LEMMA SeedType == Spec => [](seed \in Seeds)
<1>1. Init => seed \in Seeds
  BY FastRandAssumption DEF Init
<1>2. seed \in Seeds /\ [RandLFSR]_vars => (seed \in Seeds)'
  BY LfsrType, FastRandAssumption DEF RandLFSR, vars
<1> QED
  BY <1>1, <1>2, PTL DEF Spec

\* rand() is not called again once the register holds a number other than
\* zero (FastRand.hpp:11).
THEOREM SeedStaysNonZero == Spec => NeverZeroAgain
<1>1. seed \in Seeds /\ [RandLFSR]_vars => [seed # {} => seed' # {}]_vars
  BY NonZeroStays DEF RandLFSR, vars
<1> QED
  BY <1>1, SeedType, PTL DEF Spec, NeverZeroAgain
=============================================================================
