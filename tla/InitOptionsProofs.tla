-------------------------- MODULE InitOptionsProofs --------------------------
(***************************************************************************)
(* What MicroBenchmarkHarness::Init leaves of a command line, and what it  *)
(* accepts, for command lines of every length.                             *)
(***************************************************************************)
EXTENDS InitOptions, FiniteSetTheorems, SequenceTheorems, TLAPS

-----------------------------------------------------------------------------
(* The invariant. *)

LimitTypes ==
    /\ opts \in [rt : Int, max : Nat, maxSet : BOOLEAN]
    /\ threadCount \in Nat /\ durationSet \in BOOLEAN

Typed ==
    /\ argv \in Seq(Words) /\ i \in Nat \ {0, 1}
    /\ LimitTypes
    /\ leftOvers \in Seq(Words)
    /\ outcome # "refused" => i <= Len(argv) + 1

\* The argument at i is not the value of another.
AtOption ==
    outcome = "parsing" =>
        \E q \in 1 .. i - 1 : OptionsBetween(q, i) /\ (i - q) % 2 = 1

\* The benchmark's own arguments before p have been put aside, in order.
CollectedBefore(p) ==
    /\ Len(leftOvers) = Cardinality(ClientsUpTo(p - 1))
    /\ \A q \in ClientsUpTo(p - 1) :
           leftOvers[Cardinality(ClientsUpTo(q))] = argv[q]

Collected == outcome \in {"parsing", "accepted"} => CollectedBefore(i)

\* The limits are those that the arguments before i ask for.
Asked == AskedUpTo(i - 1)

Limited ==
    /\ opts.max > 0 => opts.maxSet
    /\ outcome = "accepted" =>
           /\ i > Len(argv) /\ durationSet
           /\ opts.rt <= 0 \/ opts.max = 0
           /\ threadCount > 0

ArgsInv ==
    /\ Typed /\ AtOption /\ Collected /\ Asked /\ Limited
    /\ CrashesOnlyWithoutValue

-----------------------------------------------------------------------------
(* Options and values. *)

LEMMA Parity ==
    \A m \in Int : /\ m % 2 \in {0, 1}
                   /\ (m + 1) % 2 = 1 - (m % 2) /\ (m + 2) % 2 = m % 2
OBVIOUS

\* The options before an argument begin in one place only.
LEMMA NoValue ==
    ASSUME NEW p \in Nat, NEW q \in 1 .. p - 1, OptionsBetween(q, p),
           (p - q) % 2 = 1
    PROVE  ~ IsValue(p)
<1> SUFFICES ASSUME NEW k \in 1 .. p - 1, OptionsBetween(k, p),
                    (p - k) % 2 = 0
             PROVE  FALSE
  BY DEF IsValue
<1>1. CASE k = q
  BY <1>1
<1>2. CASE k < q
  <2>1. q \in k + 1 .. p - 1 /\ q # 1
    BY <1>2
  <2> QED
    BY <2>1 DEF OptionsBetween
<1>3. CASE q < k
  <2>1. k \in q + 1 .. p - 1 /\ k # 1
    BY <1>3
  <2> QED
    BY <2>1 DEF OptionsBetween
<1> QED
  BY <1>1, <1>2, <1>3

\* After an option that takes a value there is a value, and then none.
LEMMA ValueFollows ==
    ASSUME NEW p \in Nat, NEW q \in 1 .. p - 1, OptionsBetween(q, p),
           (p - q) % 2 = 1, argv[p] \in TakesValue
    PROVE  /\ IsValue(p + 1)
           /\ \E k \in 1 .. p + 1 : OptionsBetween(k, p + 2)
                                    /\ (p + 2 - k) % 2 = 1
<1>1. \A r \in q + 1 .. p : argv[r] \in TakesValue
  BY DEF OptionsBetween
<1>2. (p + 1 - q) % 2 = 0 /\ (p + 2 - q) % 2 = 1
  <2>1. p - q \in Int /\ p + 1 - q = (p - q) + 1 /\ p + 2 - q = (p - q) + 2
    OBVIOUS
  <2> QED
    BY <2>1, Parity
<1>3. OptionsBetween(q, p + 1) /\ q \in 1 .. p /\ q \in 1 .. p + 1
  BY <1>1 DEF OptionsBetween
<1>4. IsValue(p + 1)
  BY <1>2, <1>3 DEF IsValue
<1>5. CASE argv[p + 1] \in TakesValue
  <2>1. OptionsBetween(q, p + 2)
    BY <1>1, <1>5 DEF OptionsBetween
  <2> QED
    BY <1>2, <1>3, <1>4, <2>1
<1>6. CASE argv[p + 1] \notin TakesValue
  <2>1. OptionsBetween(p + 1, p + 2) /\ p + 1 \in 1 .. p + 1
    BY <1>6 DEF OptionsBetween
  <2>2. (p + 2 - (p + 1)) % 2 = 1
    OBVIOUS
  <2> QED
    BY <1>4, <2>1, <2>2
<1> QED
  BY <1>5, <1>6

LEMMA ClientsFinite ==
    ASSUME NEW p \in Int
    PROVE  IsFiniteSet(ClientsUpTo(p)) /\ Cardinality(ClientsUpTo(p)) \in Nat
<1>1. IsFiniteSet(2 .. p)
  BY FS_Interval
<1>2. ClientsUpTo(p) \in SUBSET (2 .. p)
  BY DEF ClientsUpTo
<1> QED
  BY <1>1, <1>2, FS_Subset, FS_CardinalityType

\* One argument more.
LEMMA OneMoreClient ==
    ASSUME NEW p \in Nat \ {0, 1}
    PROVE  /\ IsValue(p) \/ argv[p] \in Standard
                  => ClientsUpTo(p) = ClientsUpTo(p - 1)
           /\ ~ IsValue(p) /\ argv[p] \notin Standard
                  => /\ ClientsUpTo(p) = ClientsUpTo(p - 1) \cup {p}
                     /\ Cardinality(ClientsUpTo(p)) =
                            Cardinality(ClientsUpTo(p - 1)) + 1
<1>1. 2 .. p = (2 .. p - 1) \cup {p} /\ p \notin 2 .. p - 1
  OBVIOUS
<1>2. ASSUME IsValue(p) \/ argv[p] \in Standard
      PROVE  ClientsUpTo(p) = ClientsUpTo(p - 1)
  BY <1>1, <1>2 DEF ClientsUpTo
<1>3. ASSUME ~ IsValue(p), argv[p] \notin Standard
      PROVE  /\ ClientsUpTo(p) = ClientsUpTo(p - 1) \cup {p}
             /\ Cardinality(ClientsUpTo(p)) =
                    Cardinality(ClientsUpTo(p - 1)) + 1
  <2>1. /\ ClientsUpTo(p) = ClientsUpTo(p - 1) \cup {p}
        /\ p \notin ClientsUpTo(p - 1)
    BY <1>1, <1>3 DEF ClientsUpTo
  <2>2. p - 1 \in Int
    OBVIOUS
  <2> QED
    BY <2>1, <2>2, ClientsFinite, FS_AddElement
<1> QED
  BY <1>2, <1>3

\* The place of an argument among those before p.
LEMMA PlaceOfClient ==
    ASSUME NEW p \in Int, NEW q \in ClientsUpTo(p)
    PROVE  Cardinality(ClientsUpTo(q)) \in 1 .. Cardinality(ClientsUpTo(p))
<1>1. q \in 2 .. p /\ q \in ClientsUpTo(q)
  BY DEF ClientsUpTo
<1>2. ClientsUpTo(q) \in SUBSET ClientsUpTo(p)
  BY <1>1 DEF ClientsUpTo
<1>3. Cardinality(ClientsUpTo(q)) # 0
  BY <1>1, ClientsFinite, FS_EmptySet
<1> QED
  BY <1>1, <1>2, <1>3, ClientsFinite, FS_Subset

LEMMA SameArguments ==
    ASSUME UNCHANGED argv
    PROVE  /\ \A p, q : OptionsBetween(p, q)' = OptionsBetween(p, q)
           /\ \A p : IsValue(p)' = IsValue(p)
           /\ \A p : ClientsUpTo(p)' = ClientsUpTo(p)
           /\ \A o, p : ValuesUpTo(o, p)' = ValuesUpTo(o, p)
           /\ \A o, p, d : LastUpTo(o, p, d)' = LastUpTo(o, p, d)
BY DEF OptionsBetween, IsValue, ClientsUpTo, ValuesUpTo, LastUpTo

\* An argument that is no value asks for nothing yet.
LEMMA NoMoreValues ==
    ASSUME NEW p \in Nat \ {0, 1}, ~ IsValue(p)
    PROVE  \A o : /\ ValuesUpTo(o, p) = ValuesUpTo(o, p - 1)
                  /\ \A d : LastUpTo(o, p, d) = LastUpTo(o, p - 1, d)
<1>1. 2 .. p = (2 .. p - 1) \cup {p}
  OBVIOUS
<1>2. \A o : ValuesUpTo(o, p) = ValuesUpTo(o, p - 1)
  BY <1>1 DEF ValuesUpTo
<1> QED
  BY <1>2 DEF LastUpTo

\* A value is the last one of the option before it, and of no other.
LEMMA OneMoreValue ==
    ASSUME NEW p \in Nat \ {0, 1}, ~ IsValue(p), IsValue(p + 1), NEW o
    PROVE  /\ argv[p] = o =>
                  /\ ValuesUpTo(o, p + 1) # {}
                  /\ \A d : LastUpTo(o, p + 1, d) = atoi(argv[p + 1])
           /\ argv[p] # o =>
                  /\ ValuesUpTo(o, p + 1) = ValuesUpTo(o, p - 1)
                  /\ \A d : LastUpTo(o, p + 1, d) = LastUpTo(o, p - 1, d)
<1>1. 2 .. p + 1 = (2 .. p - 1) \cup {p, p + 1} /\ p + 1 - 1 = p
  OBVIOUS
<1>2. CASE argv[p] = o
  <2> DEFINE S == ValuesUpTo(o, p + 1)
  <2>1. S \subseteq 2 .. p + 1 /\ p + 1 \in S
    BY <1>1, <1>2 DEF ValuesUpTo
  <2>2. Max(S) = p + 1
    <3>1. \A r \in S : r \in Int /\ p + 1 >= r
      BY <2>1
    <3> HIDE DEF S
    <3>2. Max(S) \in S /\ Max(S) >= p + 1
      BY <2>1, <3>1 DEF Max
    <3> QED
      BY <3>1, <3>2
  <2> QED
    BY <1>2, <2>1, <2>2 DEF LastUpTo
<1>3. CASE argv[p] # o
  <2>1. ValuesUpTo(o, p + 1) = ValuesUpTo(o, p - 1)
    BY <1>1, <1>3 DEF ValuesUpTo
  <2> QED
    BY <1>3, <2>1 DEF LastUpTo
<1> QED
  BY <1>2, <1>3

-----------------------------------------------------------------------------
(* The steps of the loop. *)

LEMMA ArgumentTypes ==
    ASSUME Typed, InLoop
    PROVE  /\ Len(argv) \in Nat /\ i \in 2 .. Len(argv)
           /\ \A p \in 1 .. Len(argv) : argv[p] \in Words
<1>1. Len(argv) \in Nat /\ argv \in [1 .. Len(argv) -> Words]
  BY LenProperties DEF Typed
<1> QED
  BY <1>1 DEF Typed, InLoop

LEMMA NoValueHere ==
    ASSUME Typed, AtOption, outcome = "parsing"
    PROVE  ~ IsValue(i)
BY NoValue DEF Typed, AtOption

\* Two arguments are passed over, and both are the harness's.
LEMMA WithValueStep ==
    ASSUME Typed, AtOption, Collected, NEW option \in TakesValue,
           NEW value \in Words, WithValue(option, value)
    PROVE  AtOption' /\ Collected' /\ i' \in Nat \ {0, 1} /\ i' <= Len(argv) + 1
<1>1. /\ InLoop /\ i < Len(argv) /\ argv[i] \in TakesValue /\ i' = i + 2
      /\ UNCHANGED <<argv, leftOvers, outcome>> /\ outcome = "parsing"
  BY DEF WithValue, InLoop
<1>2. i \in 2 .. Len(argv) /\ Len(argv) \in Nat
  BY <1>1, ArgumentTypes
<1>3. PICK q \in 1 .. i - 1 : OptionsBetween(q, i) /\ (i - q) % 2 = 1
  BY <1>1 DEF AtOption
<1>4. /\ IsValue(i + 1)
      /\ \E k \in 1 .. i + 1 : OptionsBetween(k, i + 2) /\ (i + 2 - k) % 2 = 1
  BY <1>1, <1>2, <1>3, ValueFollows
<1>5. AtOption'
  <2>1. PICK k \in 1 .. i + 1 :
            OptionsBetween(k, i + 2) /\ (i + 2 - k) % 2 = 1
    BY <1>4
  <2>2. k \in 1 .. i' - 1 /\ (i' - k) % 2 = 1
    BY <1>1, <1>2, <2>1
  <2>3. OptionsBetween(k, i)'
    BY <1>1, <2>1 DEF OptionsBetween
  <2> QED
    BY <2>2, <2>3 DEF AtOption
<1>6. ClientsUpTo(i + 1) = ClientsUpTo(i - 1)
  <2>1. ClientsUpTo(i) = ClientsUpTo(i - 1)
    BY <1>1, <1>2, OneMoreClient DEF Standard
  <2>2. ClientsUpTo(i + 1) = ClientsUpTo(i + 1 - 1)
    BY <1>2, <1>4, OneMoreClient
  <2>3. i + 1 - 1 = i
    BY <1>2
  <2> QED
    BY <2>1, <2>2, <2>3
<1>7. Collected'
  <2>1. ClientsUpTo(i - 1)' = ClientsUpTo(i - 1)
    <3>1. i' - 1 = i + 1
      BY <1>1, <1>2
    <3> QED
      BY <1>1, <1>6, <3>1, SameArguments
  <2> QED
    BY <1>1, <2>1, SameArguments DEF Collected, CollectedBefore
<1> QED
  BY <1>1, <1>2, <1>5, <1>7

\* What the arguments before i ask for, when a value has been read.
LEMMA ValueIsAsked ==
    ASSUME Typed, AtOption, Collected, NEW option \in TakesValue,
           NEW value \in Words, WithValue(option, value), NEW o
    PROVE  /\ o = option =>
                  /\ ValuesUpTo(o, i - 1)' # {}
                  /\ \A d : LastUpTo(o, i - 1, d)' = atoi(value)
           /\ o # option =>
                  /\ ValuesUpTo(o, i - 1)' = ValuesUpTo(o, i - 1)
                  /\ \A d : LastUpTo(o, i - 1, d)' = LastUpTo(o, i - 1, d)
<1>1. /\ InLoop /\ argv[i] = option /\ argv[i + 1] = value
      /\ i' = i + 2 /\ UNCHANGED argv /\ outcome = "parsing"
  BY DEF WithValue, InLoop
<1>2. i \in Nat \ {0, 1} /\ i' - 1 = i + 1
  BY <1>1 DEF Typed
<1>3. ~ IsValue(i)
  BY <1>1, NoValueHere
<1>4. IsValue(i + 1)
  <2>1. PICK q \in 1 .. i - 1 : OptionsBetween(q, i) /\ (i - q) % 2 = 1
    BY <1>1 DEF AtOption
  <2> QED
    BY <1>1, <1>2, <2>1, ValueFollows
<1>5. /\ ValuesUpTo(o, i - 1)' = ValuesUpTo(o, i + 1)
      /\ \A d : LastUpTo(o, i - 1, d)' = LastUpTo(o, i + 1, d)
  BY <1>1, <1>2, SameArguments
<1>6. o = option =>
          /\ ValuesUpTo(o, i + 1) # {}
          /\ \A d : LastUpTo(o, i + 1, d) = atoi(value)
  BY <1>1, <1>2, <1>3, <1>4, OneMoreValue
<1>7. o # option =>
          /\ ValuesUpTo(o, i + 1) = ValuesUpTo(o, i - 1)
          /\ \A d : LastUpTo(o, i + 1, d) = LastUpTo(o, i - 1, d)
  BY <1>1, <1>2, <1>3, <1>4, OneMoreValue
<1> QED
  BY <1>5, <1>6, <1>7

LEMMA NothingIsAsked ==
    ASSUME Typed, AtOption, Asked, outcome = "parsing", i' = i + 1,
           UNCHANGED <<argv, opts, threadCount, durationSet>>
    PROVE  Asked'
<1>1. i \in Nat \ {0, 1} /\ i' - 1 = i /\ ~ IsValue(i)
  BY NoValueHere DEF Typed
<1>2. \A o : /\ ValuesUpTo(o, i - 1)' = ValuesUpTo(o, i - 1)
             /\ \A d : LastUpTo(o, i - 1, d)' = LastUpTo(o, i - 1, d)
  <2>1. \A o : /\ ValuesUpTo(o, i - 1)' = ValuesUpTo(o, i)
               /\ \A d : LastUpTo(o, i - 1, d)' = LastUpTo(o, i, d)
    BY <1>1, SameArguments
  <2> QED
    BY <1>1, <2>1, NoMoreValues
<1> QED
  BY <1>2 DEF Asked, AskedUpTo

\* One argument is passed over: the place after it is one of an option.
LEMMA OneOnAtOption ==
    ASSUME Typed, InLoop, argv[i] \notin TakesValue, i' = i + 1,
           UNCHANGED <<argv, outcome>>
    PROVE  AtOption' /\ i' \in Nat \ {0, 1} /\ i' <= Len(argv) + 1
<1>1. i \in 2 .. Len(argv) /\ Len(argv) \in Nat
  BY ArgumentTypes
<1>2. PICK k \in Nat : k = i
  BY <1>1
<1>3. k \in 1 .. i' - 1 /\ (i' - k) % 2 = 1
  BY <1>1, <1>2
<1>4. OptionsBetween(k, i)'
  BY <1>1, <1>2 DEF OptionsBetween
<1> QED
  BY <1>1, <1>3, <1>4 DEF AtOption

LEMMA SetFlagStep ==
    ASSUME Typed, AtOption, Collected, SetFlag
    PROVE  AtOption' /\ Collected' /\ i' \in Nat \ {0, 1} /\ i' <= Len(argv) + 1
<1>1. /\ InLoop /\ argv[i] \in Standard /\ argv[i] \notin TakesValue
      /\ i' = i + 1 /\ UNCHANGED <<argv, leftOvers, outcome>>
      /\ outcome = "parsing"
  BY DEF SetFlag, InLoop, Standard, Flags, TakesValue
<1>2. i \in 2 .. Len(argv)
  BY <1>1, ArgumentTypes
<1>3. ClientsUpTo(i - 1)' = ClientsUpTo(i - 1)
  <2>1. i' - 1 = i
    BY <1>1, <1>2
  <2> QED
    BY <1>1, <1>2, <2>1, OneMoreClient, SameArguments
<1>4. Collected'
  BY <1>1, <1>3, SameArguments DEF Collected, CollectedBefore
<1> QED
  BY <1>1, <1>4, OneOnAtOption

LEMMA KeepLeftOverStep ==
    ASSUME Typed, AtOption, Collected, KeepLeftOver
    PROVE  /\ AtOption' /\ Collected'
           /\ i' \in Nat \ {0, 1} /\ i' <= Len(argv) + 1
           /\ leftOvers' \in Seq(Words)
<1>1. /\ InLoop /\ argv[i] \notin Standard /\ argv[i] \notin TakesValue
      /\ i' = i + 1 /\ UNCHANGED <<argv, outcome>>
      /\ outcome = "parsing" /\ leftOvers' = Append(leftOvers, argv[i])
  BY DEF KeepLeftOver, InLoop, Standard
<1>2. i \in 2 .. Len(argv) /\ argv[i] \in Words
  BY <1>1, ArgumentTypes
<1> DEFINE n == Cardinality(ClientsUpTo(i - 1))
<1>3. /\ n \in Nat /\ Len(leftOvers) = n
      /\ \A q \in ClientsUpTo(i - 1) :
             leftOvers[Cardinality(ClientsUpTo(q))] = argv[q]
  <2>1. i - 1 \in Int
    BY <1>2
  <2> QED
    BY <1>1, <2>1, ClientsFinite DEF Collected, CollectedBefore
<1>4. /\ ClientsUpTo(i) = ClientsUpTo(i - 1) \cup {i}
      /\ Cardinality(ClientsUpTo(i)) = n + 1
  BY <1>1, <1>2, NoValueHere, OneMoreClient
<1>5. \A q \in ClientsUpTo(i - 1) : Cardinality(ClientsUpTo(q)) \in 1 .. n
  <2>1. i - 1 \in Int
    BY <1>2
  <2> QED
    BY <2>1, PlaceOfClient
<1> HIDE DEF n
<1>6. /\ leftOvers' \in Seq(Words) /\ Len(leftOvers') = n + 1
      /\ leftOvers'[n + 1] = argv[i]
      /\ \A k \in 1 .. n : leftOvers'[k] = leftOvers[k]
  BY <1>1, <1>2, <1>3, AppendProperties DEF Typed
<1>7. ASSUME NEW q \in ClientsUpTo(i)
      PROVE  leftOvers'[Cardinality(ClientsUpTo(q))] = argv[q]
  <2>1. CASE q = i
    BY <1>4, <1>6, <2>1
  <2>2. CASE q # i
    BY <1>3, <1>4, <1>5, <1>6, <1>7, <2>2
  <2> QED
    BY <2>1, <2>2
<1>8. Collected'
  <2>1. ClientsUpTo(i - 1)' = ClientsUpTo(i)
    <3>1. i' - 1 = i
      BY <1>1, <1>2
    <3> QED
      BY <1>1, <3>1, SameArguments
  <2> QED
    BY <1>1, <1>4, <1>6, <1>7, <2>1, SameArguments
    DEF Collected, CollectedBefore
<1> QED
  BY <1>1, <1>6, <1>8, OneOnAtOption


-----------------------------------------------------------------------------
(* The invariant holds. *)

LEMMA CommandLines == Init => argv \in Seq(Words)
<1> SUFFICES ASSUME Init PROVE argv \in Seq(Words)
  OBVIOUS
<1>1. PICK n \in Nat : argv \in [1 .. n -> Words]
  BY InitAssumption DEF Init
<1>2. argv = [k \in 1 .. n |-> argv[k]] /\ \A k \in 1 .. n : argv[k] \in Words
  BY <1>1
<1>3. [k \in 1 .. n |-> argv[k]] \in Seq(Words)
  BY <1>2, IsASeq
<1> QED
  BY <1>2, <1>3

LEMMA ArgsInit == Init => ArgsInv
<1> SUFFICES ASSUME Init PROVE ArgsInv
  OBVIOUS
<1>1. argv \in Seq(Words)
  BY CommandLines
<1>2. argv # <<>> => Len(argv) \in Nat /\ Len(argv) >= 1
  BY <1>1, EmptySeq, LenProperties
<1>3. Typed
  <2>1. LimitTypes
    <3>1. opts \in [rt : Int, max : Nat, maxSet : BOOLEAN] /\ threadCount \in Nat
      BY DEF Init
    <3>2. durationSet \in BOOLEAN
      BY Zenon DEF Init
    <3> QED
      BY <3>1, <3>2 DEF LimitTypes
  <2> QED
    BY <1>1, <1>2, <2>1 DEF Init, Typed
<1>4. AtOption
  <2>1. OptionsBetween(1, 2)
    BY DEF OptionsBetween
  <2>2. (2 - 1) % 2 = 1 /\ 1 \in 1 .. 2 - 1
    OBVIOUS
  <2> QED
    BY <2>1, <2>2 DEF Init, AtOption
<1>5. Collected
  <2>1. ClientsUpTo(1) = {}
    BY DEF ClientsUpTo
  <2>2. Len(leftOvers) = 0 /\ i - 1 = 1
    BY DEF Init
  <2> QED
    BY <2>1, <2>2, FS_EmptySet DEF Collected, CollectedBefore
<1>6. Limited /\ CrashesOnlyWithoutValue
  BY DEF Init, Limited, CrashesOnlyWithoutValue
<1>7. Asked
  <2>1. \A o : ValuesUpTo(o, 1) = {} /\ \A d : LastUpTo(o, 1, d) = d
    BY DEF ValuesUpTo, LastUpTo
  <2>2. i - 1 = 1
    BY DEF Init
  <2>3. 0 % ULongModulus = 0 /\ 1 % UIntModulus = 1
    BY InitAssumption
  <2> QED
    BY <2>1, <2>2, <2>3 DEF Init, Asked, AskedUpTo
<1> QED
  BY <1>3, <1>4, <1>5, <1>6, <1>7 DEF ArgsInv

LEMMA NumbersOfWords ==
    \A word : /\ atoi(word) \in Int
              /\ atoi(word) % UIntModulus \in Nat
              /\ atoi(word) % ULongModulus \in Nat
<1> TAKE word
<1>1. atoi(word) \in {-1, 0, 1}
  BY DEF atoi
<1> QED
  BY <1>1, InitAssumption

\* What the loop leaves alone until it is over.
LEMMA StillParsing ==
    ASSUME Typed', AtOption', Collected', Asked', outcome' = "parsing",
           opts'.max > 0 => opts'.maxSet
    PROVE  ArgsInv'
BY DEF ArgsInv, Limited, CrashesOnlyWithoutValue

LEMMA ArgsStep == ArgsInv /\ [Next]_vars => ArgsInv'
<1> SUFFICES ASSUME ArgsInv, [Next]_vars PROVE ArgsInv'
  OBVIOUS
<1> USE DEF ArgsInv
<1>1. ASSUME NEW option \in TakesValue, NEW value \in Words,
             WithValue(option, value), LimitTypes', Asked',
             opts'.max > 0 => opts'.maxSet
      PROVE  ArgsInv'
  <2>1. AtOption' /\ Collected' /\ i' \in Nat \ {0, 1} /\ i' <= Len(argv) + 1
    BY <1>1, WithValueStep
  <2>2. UNCHANGED <<argv, leftOvers, outcome>> /\ outcome' = "parsing"
    BY <1>1 DEF WithValue, InLoop
  <2>3. Typed'
    BY <1>1, <2>1, <2>2 DEF Typed
  <2> QED
    BY <1>1, <2>1, <2>2, <2>3, StillParsing
<1>2. /\ LimitTypes /\ (opts.max > 0 => opts.maxSet) /\ AskedUpTo(i - 1)
      /\ opts \in [rt : Int, max : Nat, maxSet : BOOLEAN]
  BY DEF Typed, LimitTypes, Limited, Asked
<1>3. CASE SetThreadCount
  <2>1. PICK value \in Words :
            /\ WithValue("-tc", value)
            /\ threadCount' = atoi(value) % UIntModulus
            /\ UNCHANGED <<opts, durationSet>>
    BY <1>3 DEF SetThreadCount
  <2>2. Asked'
    BY <1>2, <2>1, ValueIsAsked DEF TakesValue, Asked, AskedUpTo
  <2>3. LimitTypes'
    BY <1>2, <2>1, NumbersOfWords DEF LimitTypes
  <2> QED
    BY <1>1, <1>2, <2>1, <2>2, <2>3 DEF TakesValue
<1>4. CASE SetRunTime
  <2>1. PICK value \in Words :
            /\ WithValue("-rt", value)
            /\ opts' = [opts EXCEPT !.rt = atoi(value)]
            /\ durationSet' = TRUE /\ UNCHANGED threadCount
    BY <1>4 DEF SetRunTime
  <2>2. /\ opts' \in [rt : Int, max : Nat, maxSet : BOOLEAN]
        /\ opts'.rt = atoi(value)
        /\ opts'.max = opts.max /\ opts'.maxSet = opts.maxSet
    BY <1>2, <2>1, NumbersOfWords
  <2>3. Asked'
    <3>1. /\ ValuesUpTo("-rt", i - 1)' # {}
          /\ LastUpTo("-rt", i - 1, 0)' = atoi(value)
      BY <2>1, ValueIsAsked DEF TakesValue
    <3>2. \A o \in {"-max", "-tc"} :
              /\ ValuesUpTo(o, i - 1)' = ValuesUpTo(o, i - 1)
              /\ \A d : LastUpTo(o, i - 1, d)' = LastUpTo(o, i - 1, d)
      BY <2>1, ValueIsAsked DEF TakesValue
    <3> QED
      BY <1>2, <2>1, <2>2, <3>1, <3>2 DEF Asked, AskedUpTo
  <2>4. LimitTypes'
    BY <1>2, <2>1, <2>2 DEF LimitTypes
  <2> QED
    BY <1>1, <1>2, <2>1, <2>2, <2>3, <2>4 DEF TakesValue
<1>5. CASE SetOperationCount
  <2>1. PICK value \in Words :
            /\ WithValue("-max", value)
            /\ opts' = [opts EXCEPT !.max = atoi(value) % ULongModulus,
                                    !.maxSet = TRUE]
            /\ durationSet' = TRUE /\ UNCHANGED threadCount
    BY <1>5 DEF SetOperationCount
  <2>2. /\ opts' \in [rt : Int, max : Nat, maxSet : BOOLEAN]
        /\ opts'.rt = opts.rt /\ opts'.maxSet = TRUE
        /\ opts'.max = atoi(value) % ULongModulus
    BY <1>2, <2>1, NumbersOfWords
  <2>3. Asked'
    <3>1. /\ ValuesUpTo("-max", i - 1)' # {}
          /\ LastUpTo("-max", i - 1, 0)' = atoi(value)
      BY <2>1, ValueIsAsked DEF TakesValue
    <3>2. \A o \in {"-rt", "-tc"} :
              \A d : LastUpTo(o, i - 1, d)' = LastUpTo(o, i - 1, d)
      BY <2>1, ValueIsAsked DEF TakesValue
    <3> QED
      BY <1>2, <2>1, <2>2, <3>1, <3>2 DEF Asked, AskedUpTo
  <2>4. LimitTypes'
    BY <1>2, <2>1, <2>2 DEF LimitTypes
  <2> QED
    BY <1>1, <1>2, <2>1, <2>2, <2>3, <2>4 DEF TakesValue
<1>6. CASE SetFootprintOrFile
  <2>1. PICK option \in {"-foot", "-file"}, value \in Words :
            /\ WithValue(option, value)
            /\ UNCHANGED <<opts, threadCount, durationSet>>
    BY <1>6 DEF SetFootprintOrFile, limits
  <2>2. Asked'
    <3>1. \A o \in {"-rt", "-max", "-tc"} :
              /\ ValuesUpTo(o, i - 1)' = ValuesUpTo(o, i - 1)
              /\ \A d : LastUpTo(o, i - 1, d)' = LastUpTo(o, i - 1, d)
      BY <2>1, ValueIsAsked DEF TakesValue
    <3> QED
      BY <1>2, <2>1, <3>1 DEF Asked, AskedUpTo
  <2>3. LimitTypes'
    BY <1>2, <2>1 DEF LimitTypes
  <2> QED
    BY <1>1, <1>2, <2>1, <2>2, <2>3 DEF TakesValue
<1>7. CASE ReadPastEnd
  <2>1. /\ InLoop /\ i = Len(argv) /\ argv[i] \in TakesValue
        /\ outcome' = "crashed" /\ outcome = "parsing"
        /\ UNCHANGED <<argv, i, opts, threadCount, durationSet, leftOvers>>
    BY <1>7 DEF ReadPastEnd, limits, InLoop
  <2>2. CrashesOnlyWithoutValue'
    BY <2>1, NoValueHere, SameArguments DEF CrashesOnlyWithoutValue
  <2>3. Typed'
    BY <2>1 DEF Typed, LimitTypes
  <2>4. Asked'
    BY <2>1, SameArguments DEF Asked, AskedUpTo
  <2> QED
    BY <1>2, <2>1, <2>2, <2>3, <2>4 DEF AtOption, Collected, Limited
<1>8. CASE SetFlag
  <2>1. /\ UNCHANGED <<argv, opts, threadCount, durationSet, leftOvers, outcome>>
        /\ outcome = "parsing" /\ i' = i + 1
    BY <1>8 DEF SetFlag, limits, InLoop
  <2>2. AtOption' /\ Collected' /\ i' \in Nat \ {0, 1} /\ i' <= Len(argv) + 1
    BY <1>8, SetFlagStep
  <2>3. Typed'
    BY <2>1, <2>2 DEF Typed, LimitTypes
  <2>4. Asked'
    BY <2>1, NothingIsAsked
  <2> QED
    BY <1>2, <2>1, <2>2, <2>3, <2>4, StillParsing
<1>9. CASE KeepLeftOver
  <2>1. /\ UNCHANGED <<argv, opts, threadCount, durationSet, outcome>>
        /\ outcome = "parsing" /\ i' = i + 1
    BY <1>9 DEF KeepLeftOver, limits, InLoop
  <2>2. /\ AtOption' /\ Collected' /\ leftOvers' \in Seq(Words)
        /\ i' \in Nat \ {0, 1} /\ i' <= Len(argv) + 1
    BY <1>9, KeepLeftOverStep
  <2>3. Typed'
    BY <2>1, <2>2 DEF Typed, LimitTypes
  <2>4. Asked'
    BY <2>1, NothingIsAsked
  <2> QED
    BY <1>2, <2>1, <2>2, <2>3, <2>4, StillParsing
<1>10. CASE CheckLimits
  <2>1. /\ outcome = "parsing" /\ i > Len(argv)
        /\ UNCHANGED <<argv, i, opts, threadCount, durationSet, leftOvers>>
        /\ outcome' = IF RefusesLimits THEN "refused"
                      ELSE IF threadCount = 0 THEN "crashed" ELSE "accepted"
    BY <1>10 DEF CheckLimits, limits
  <2>2. Typed' /\ AtOption'
    BY <2>1 DEF Typed, LimitTypes, AtOption
  <2>3. Collected' /\ Asked'
    BY <2>1, SameArguments DEF Collected, CollectedBefore, Asked, AskedUpTo
  <2>4. outcome' = "accepted" =>
            /\ durationSet /\ threadCount > 0
            /\ opts.rt <= 0 \/ opts.max = 0
    BY <1>2, <2>1 DEF RefusesLimits, LimitTypes
  <2>5. Limited'
    BY <1>2, <2>1, <2>4 DEF Limited
  <2>6. CrashesOnlyWithoutValue'
    BY <2>1 DEF CrashesOnlyWithoutValue
  <2> QED
    BY <2>2, <2>3, <2>5, <2>6
<1>11. CASE UNCHANGED vars
  <2>1. UNCHANGED <<argv, i, opts, threadCount, durationSet, leftOvers, outcome>>
    BY <1>11 DEF vars
  <2>2. Typed' /\ Limited'
    BY <2>1 DEF Typed, LimitTypes, Limited
  <2>3. AtOption' /\ Collected' /\ Asked' /\ CrashesOnlyWithoutValue'
    BY <2>1, SameArguments
    DEF AtOption, Collected, CollectedBefore, Asked, AskedUpTo,
        CrashesOnlyWithoutValue
  <2> QED
    BY <2>2, <2>3
<1> QED
  BY <1>3, <1>4, <1>5, <1>6, <1>7, <1>8, <1>9, <1>10, <1>11
  DEF Next, InitIsOver

\* At each turn of the loop i is at no value, the arguments before it have
\* been sorted out, and the limits are what the options before it say
\* (Init, MicroBenchmarkHarness.hpp:75).
THEOREM ArgsInvariant == Spec => []ArgsInv
BY ArgsInit, ArgsStep, PTL DEF Spec

\* For a command line of any length: the benchmark finds all its own
\* arguments in argv, in their order, and no other
\* (Init, MicroBenchmarkHarness.hpp:121).
THEOREM ClientArgumentsKept == Spec => []ClientGetsItsArguments
<1>1. ArgsInv => ClientGetsItsArguments
  <2> SUFFICES ASSUME ArgsInv, outcome = "accepted"
               PROVE  /\ Len(leftOvers) = Cardinality(ClientsUpTo(Len(argv)))
                      /\ \A p \in ClientsUpTo(Len(argv)) :
                             leftOvers[Cardinality(ClientsUpTo(p))] = argv[p]
    BY DEF ClientGetsItsArguments
  <2>1. Len(argv) \in Nat
    BY LenProperties DEF ArgsInv, Typed
  <2>2. i - 1 = Len(argv)
    BY <2>1 DEF ArgsInv, Typed, Limited
  <2> QED
    BY <2>2 DEF ArgsInv, Collected, CollectedBefore
<1> QED
  BY <1>1, ArgsInvariant, PTL

\* For a command line of any length: what Init accepts has the limits and
\* the threads that the arguments ask for last, one limit at most and some
\* threads, in whatever order the options are given, and whatever their
\* values look like (MicroBenchmarkHarness.hpp:113).
THEOREM AcceptedLimits == Spec => []LimitsAreThoseAskedFor
<1>1. ArgsInv => LimitsAreThoseAskedFor
  <2> SUFFICES ASSUME ArgsInv, outcome = "accepted"
               PROVE  AskedUpTo(Len(argv))
    BY DEF ArgsInv, Limited, LimitsAreThoseAskedFor
  <2>1. Len(argv) \in Nat
    BY LenProperties DEF ArgsInv, Typed
  <2>2. i - 1 = Len(argv)
    BY <2>1 DEF ArgsInv, Typed, Limited
  <2> QED
    BY <2>2 DEF ArgsInv, Asked
<1> QED
  BY <1>1, ArgsInvariant, PTL

\* Only a last option without its value, or -tc 0, makes Init crash: a value
\* that looks like an option does not (MicroBenchmarkHarness.hpp:77).
THEOREM CrashesAreUserErrors == Spec => []CrashesOnlyWithoutValue
<1>1. ArgsInv => CrashesOnlyWithoutValue
  BY DEF ArgsInv
<1> QED
  BY <1>1, ArgsInvariant, PTL
=============================================================================
