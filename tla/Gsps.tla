-------------------------------- MODULE Gsps --------------------------------
(***************************************************************************)
(* The function under test of time_GSPS.cpp: threads that swap elements of *)
(* one array (-S), or each of an array of its own.  The swaps take no      *)
(* lock, and the elements are no atomic variables: each load and each      *)
(* store is a step.                                                        *)
(*                                                                         *)
(* What the elements are does not matter, nor which of them the random     *)
(* numbers pick: new uint64_t[] leaves them undefined, here all different, *)
(* and any two can come up.                                                *)
(***************************************************************************)
EXTENDS Integers, FiniteSets

CONSTANTS
    ThreadCount,     \* -tc
    SharedLengths,   \* elements in the footprint, GetFootPrintBytes() / 8,
    PrivateLengths,  \* with -S and without
    MaxSwaps         \* bound: swaps by one thread

Threads == 0 .. ThreadCount - 1

Lengths == SharedLengths \cup PrivateLengths

ASSUME GspsAssumption ==
    /\ ThreadCount \in Nat \ {0}
    /\ Lengths \subseteq Nat
    /\ MaxSwaps \in Nat

VARIABLES
    shared,   \* -S
    length,   \* the elements of the footprint
    data,     \* data[a]: the array at address a, see Array
    pc,       \* pc[t]: the next statement of op for thread t
    a, b,     \* op's locals, the two indices
    t1, t2,   \* the two values loaded, t and the unnamed one
    swaps,    \* swaps[t]: calls of op begun by thread t
    overlap,  \* history: has a swap touched an element of one in progress?
    outcome

setUp == <<shared, length>>
vars == <<setUp, data, pc, a, b, t1, t2, swaps, overlap, outcome>>

max_index == IF shared THEN length ELSE length \div ThreadCount
Indices == 0 .. max_index - 1

\* All the threads get the same array, whatever -S says.
Array_OneForAll(t) == 0

\* args->data: one address for all the threads, or one each.
Array(t) == IF shared THEN 0 ELSE t

None == <<>>

\* The elements differ, whichever array they are in.
Fresh(n) == [x \in Threads |-> [j \in 0 .. n - 1 |-> <<x, j>>]]

Init ==
    /\ \/ shared = TRUE /\ length \in SharedLengths
       \/ shared = FALSE /\ length \in PrivateLengths
    /\ data = Fresh(max_index)
    /\ pc = [t \in Threads |-> "idle"]
    /\ a = [t \in Threads |-> 0] /\ b = [t \in Threads |-> 0]
    /\ t1 = [t \in Threads |-> None] /\ t2 = [t \in Threads |-> None]
    /\ swaps = [t \in Threads |-> 0]
    /\ overlap = FALSE
    /\ outcome = "running"

Goto(t, place) == pc' = [pc EXCEPT ![t] = place]
Live == outcome = "running" /\ UNCHANGED <<setUp, outcome>>

\* Any index up to max_index.
RandomIndex_OneTooMany == 0 .. max_index

\* What a random number leaves when it is divided by max_index.
RandomIndex == Indices

InProgress(t) == {u \in Threads \ {t} : pc[u] # "idle" /\ Array(u) = Array(t)}

Pick(t) ==
    /\ Live /\ pc[t] = "idle" /\ max_index > 0
    /\ swaps[t] < MaxSwaps
    /\ swaps' = [swaps EXCEPT ![t] = @ + 1]
    /\ \E x, y \in RandomIndex :
        /\ a' = [a EXCEPT ![t] = x] /\ b' = [b EXCEPT ![t] = y]
        /\ overlap' = (overlap \/ \E u \in InProgress(t) :
                                      {x, y} \cap {a[u], b[u]} # {})
    /\ Goto(t, "load_a")
    /\ UNCHANGED <<data, t1, t2>>

\* An array without elements: the remainder by zero raises SIGFPE.
PickFromNothing(t) ==
    /\ outcome = "running" /\ pc[t] = "idle" /\ max_index = 0
    /\ swaps[t] < MaxSwaps
    /\ outcome' = "killed"
    /\ UNCHANGED <<setUp, data, pc, a, b, t1, t2, swaps, overlap>>

LoadA(t) ==
    /\ Live /\ pc[t] = "load_a"
    /\ t1' = [t1 EXCEPT ![t] = data[Array(t)][a[t]]]
    /\ Goto(t, "load_b")
    /\ UNCHANGED <<data, a, b, t2, swaps, overlap>>

LoadB(t) ==
    /\ Live /\ pc[t] = "load_b"
    /\ t2' = [t2 EXCEPT ![t] = data[Array(t)][b[t]]]
    /\ Goto(t, "store_a")
    /\ UNCHANGED <<data, a, b, t1, swaps, overlap>>

StoreA(t) ==
    /\ Live /\ pc[t] = "store_a"
    /\ data' = [data EXCEPT ![Array(t)][a[t]] = t2[t]]
    /\ Goto(t, "store_b")
    /\ UNCHANGED <<a, b, t1, t2, swaps, overlap>>

Return(t) ==
    /\ Goto(t, "idle")
    /\ a' = [a EXCEPT ![t] = 0] /\ b' = [b EXCEPT ![t] = 0]
    /\ t1' = [t1 EXCEPT ![t] = None] /\ t2' = [t2 EXCEPT ![t] = None]
    /\ UNCHANGED <<swaps, overlap>>

\* The value that was in data[b] is put back.
StoreB_WithoutT(t) ==
    /\ Live /\ pc[t] = "store_b"
    /\ data' = [data EXCEPT ![Array(t)][b[t]] = data[Array(t)][a[t]]]
    /\ Return(t)

StoreB(t) ==
    /\ Live /\ pc[t] = "store_b"
    /\ data' = [data EXCEPT ![Array(t)][b[t]] = t1[t]]
    /\ Return(t)

op(t) == Pick(t) \/ PickFromNothing(t) \/ LoadA(t) \/ LoadB(t)
            \/ StoreA(t) \/ StoreB(t)

AllSwapped ==
    /\ \/ outcome = "killed"
       \/ \A t \in Threads : pc[t] = "idle" /\ swaps[t] = MaxSwaps
    /\ UNCHANGED vars

Next == (\E t \in Threads : op(t)) \/ AllSwapped

Spec == Init /\ [][Next]_vars

-----------------------------------------------------------------------------

Values == UNION {{<<x, j>> : j \in 0 .. n} : x \in Threads, n \in Lengths}

TypeOK ==
    /\ shared \in BOOLEAN /\ length \in Lengths
    /\ data \in [Threads -> [Indices -> Values]]
    /\ pc \in [Threads -> {"idle", "load_a", "load_b", "store_a", "store_b"}]
    /\ \A t \in Threads : pc[t] # "idle" => {a[t], b[t]} \subseteq Indices
    /\ t1 \in [Threads -> Values \cup {None}]
    /\ t2 \in [Threads -> Values \cup {None}]
    /\ swaps \in [Threads -> 0 .. MaxSwaps]
    /\ overlap \in BOOLEAN
    /\ outcome \in {"running", "killed"}

Contents(array) == {array[j] : j \in Indices}
Lost(x) == Contents(Fresh(max_index)[x]) \ Contents(data[x])
AtRest(x) == \A t \in Threads : Array(t) = x => pc[t] = "idle"

\* Between the swaps of a thread on an array of its own the elements are all
\* there, each once; and so they are in a shared array as long as no two
\* swaps have met (op, time_GSPS.cpp:59).
SwapsPermute ==
    ~ shared \/ ~ overlap =>
        \A x \in Threads : AtRest(x) => Lost(x) = {}

\* The calls of op on array x that have begun, numbered for each thread.
SwapsOn(x) ==
    {s \in Threads \X (1 .. MaxSwaps) :
        Array(s[1]) = x /\ s[2] <= swaps[s[1]]}

\* Swaps that meet put nothing into an array that was not in it before, and
\* they lose elements: fewer than there were swaps on the array
\* (op, time_GSPS.cpp:62).
RacesLoseFewElements ==
    \A x \in Threads :
        /\ Contents(data[x]) \subseteq Contents(Fresh(max_index)[x])
        /\ AtRest(x) => \/ Lost(x) = {}
                        \/ Cardinality(Lost(x)) < Cardinality(SwapsOn(x))
=============================================================================
