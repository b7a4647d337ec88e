----------------------------- MODULE GspsProofs -----------------------------
(***************************************************************************)
(* Swaps that do not meet permute the elements, for every number of        *)
(* threads, every length of the arrays and every interleaving of the loads *)
(* and stores.  Swaps that meet put nothing new into an array, and it      *)
(* loses fewer elements than swaps were begun on it.                       *)
(***************************************************************************)
EXTENDS Gsps, FiniteSetTheorems, TLAPS

Typed ==
    /\ shared \in BOOLEAN /\ length \in Lengths
    /\ data \in [Threads -> [Indices -> Values]]
    /\ pc \in [Threads -> {"idle", "load_a", "load_b", "store_a", "store_b"}]
    /\ a \in [Threads -> Int] /\ b \in [Threads -> Int]
    /\ \A t \in Threads : pc[t] # "idle" => {a[t], b[t]} \subseteq Indices
    /\ t1 \in [Threads -> Values \cup {None}]
    /\ t2 \in [Threads -> Values \cup {None}]
    /\ swaps \in [Threads -> 0 .. MaxSwaps]
    /\ overlap \in BOOLEAN /\ outcome \in {"running", "killed"}

\* The elements that array x began with.
Elements(x) == Contents(Fresh(max_index)[x])

\* They are all that is in the array, and all that is on its way to it.
Own ==
    /\ \A x \in Threads, j \in Indices : data[x][j] \in Elements(x)
    /\ \A t \in Threads :
        /\ pc[t] \in {"load_b", "store_a", "store_b"} =>
               t1[t] \in Elements(Array(t))
        /\ pc[t] \in {"store_a", "store_b"} => t2[t] \in Elements(Array(t))

\* Without -S no two swaps are on the same array ...
Private == ~ shared => ~ overlap

\* ... and those that are on the same array touch different elements,
Apart ==
    \A t, u \in Threads :
        t # u /\ Array(t) = Array(u) /\ pc[t] # "idle" /\ pc[u] # "idle" =>
            {a[t], b[t]} \cap {a[u], b[u]} = {}

\* whose values are those that the thread has seen or stored there itself;
Seen ==
    \A t \in Threads :
        LET array == data[Array(t)]
        IN  /\ pc[t] \in {"load_b", "store_a"} => array[a[t]] = t1[t]
            /\ pc[t] \in {"store_a", "store_b"} => array[b[t]] = t2[t]
            /\ pc[t] = "store_b" => array[a[t]] = t2[t]
            /\ pc[t] = "store_b" /\ a[t] = b[t] => t1[t] = t2[t]

\* an element that is not in its array is the t of a swap between its stores.
Kept ==
    \A x \in Threads : \A v \in Elements(x) :
        \/ v \in Contents(data[x])
        \/ \E t \in Threads : Array(t) = x /\ pc[t] = "store_b" /\ t1[t] = v

GspsInv ==
    /\ Typed /\ Own /\ Private
    /\ ~ overlap => Apart /\ Seen /\ Kept

-----------------------------------------------------------------------------
(* Arrays and what is in them. *)

LEMMA ArrayOfThread ==
    ASSUME NEW t \in Threads
    PROVE  Array(t) \in Threads
BY GspsAssumption DEF Array, Threads

LEMMA ElementsOfArray ==
    ASSUME length \in Lengths, NEW x \in Threads
    PROVE  /\ max_index \in Nat
           /\ Elements(x) = {<<x, j>> : j \in Indices}
           /\ Elements(x) \subseteq Values
<1>1. length \in Nat /\ ThreadCount \in Nat \ {0}
  BY GspsAssumption
<1>2. max_index \in Nat /\ max_index <= length
  <2>1. length \div ThreadCount \in Nat /\ length \div ThreadCount <= length
    BY <1>1
  <2> QED
    BY <1>1, <2>1 DEF max_index
<1>3. Elements(x) = {<<x, j>> : j \in Indices}
  BY DEF Elements, Contents, Fresh, Indices
<1>4. Indices \subseteq 0 .. length
  BY <1>1, <1>2 DEF Indices
<1>5. ASSUME NEW j \in 0 .. length PROVE <<x, j>> \in Values
  <2> DEFINE first == {<<x, k>> : k \in 0 .. length}
  <2>1. first \in {{<<y, k>> : k \in 0 .. n} : y \in Threads, n \in Lengths}
    OBVIOUS
  <2>2. <<x, j>> \in first
    OBVIOUS
  <2> HIDE DEF first
  <2> QED
    BY <2>1, <2>2 DEF Values
<1> QED
  BY <1>2, <1>3, <1>4, <1>5

LEMMA SameSetUp ==
    ASSUME UNCHANGED setUp
    PROVE  /\ max_index' = max_index /\ Indices' = Indices
           /\ shared' = shared /\ length' = length
           /\ \A t : Array(t)' = Array(t)
           /\ \A x : Elements(x)' = Elements(x)
BY DEF setUp, max_index, Indices, Array, Elements, Contents

\* A store changes one element of one array.
Stored(t, k, v) ==
    /\ data'[Array(t)][k] = v
    /\ \A j \in Indices \ {k} : data'[Array(t)][j] = data[Array(t)][j]
    /\ \A x \in Threads \ {Array(t)} : data'[x] = data[x]

LEMMA OneStore ==
    ASSUME Typed, NEW t \in Threads, NEW k \in Indices, NEW v \in Values,
           data' = [data EXCEPT ![Array(t)][k] = v]
    PROVE  data' \in [Threads -> [Indices -> Values]] /\ Stored(t, k, v)
<1>1. Array(t) \in Threads
  BY ArrayOfThread
<1> DEFINE arr == [data[Array(t)] EXCEPT ![k] = v]
<1>2. data[Array(t)] \in [Indices -> Values]
  BY <1>1 DEF Typed
<1>3. /\ arr \in [Indices -> Values] /\ arr[k] = v
      /\ \A j \in Indices \ {k} : arr[j] = data[Array(t)][j]
  BY <1>2
<1>4. data' = [data EXCEPT ![Array(t)] = arr]
  OBVIOUS
<1> HIDE DEF arr
<1>5. data' \in [Threads -> [Indices -> Values]] /\ data'[Array(t)] = arr
  BY <1>1, <1>3, <1>4 DEF Typed
<1>6. \A x \in Threads \ {Array(t)} : data'[x] = data[x]
  BY <1>4 DEF Typed
<1> QED
  BY <1>3, <1>5, <1>6 DEF Stored

\* What the statements of a swap have in common.
Swap(t) == Pick(t) \/ LoadA(t) \/ LoadB(t) \/ StoreA(t) \/ StoreB(t)

LEMMA Others ==
    ASSUME Typed, NEW t \in Threads, Swap(t)
    PROVE  /\ UNCHANGED <<setUp, outcome>>
           /\ \A u \in Threads \ {t} :
                /\ pc'[u] = pc[u] /\ a'[u] = a[u] /\ b'[u] = b[u]
                /\ t1'[u] = t1[u] /\ t2'[u] = t2[u]
<1>1. UNCHANGED <<setUp, outcome>>
  BY DEF Swap, Pick, LoadA, LoadB, StoreA, StoreB, Live
<1>2. ASSUME NEW u \in Threads \ {t}
      PROVE  /\ pc'[u] = pc[u] /\ a'[u] = a[u] /\ b'[u] = b[u]
             /\ t1'[u] = t1[u] /\ t2'[u] = t2[u]
  BY <1>2 DEF Swap, Pick, LoadA, LoadB, StoreA, StoreB, Return, Goto, Typed
<1> QED
  BY <1>1, <1>2

LEMMA TypedStep ==
    ASSUME Typed, Own, NEW t \in Threads, Swap(t)
    PROVE  Typed'
<1> DEFINE Places == {"idle", "load_a", "load_b", "store_a", "store_b"}
<1>0. /\ Indices' = Indices /\ shared' = shared /\ length' = length
      /\ outcome' = outcome
  BY Others, SameSetUp
<1>1. /\ Array(t) \in Threads /\ Indices \subseteq Int
      /\ Elements(Array(t)) \subseteq Values
  BY ArrayOfThread, ElementsOfArray DEF Typed, Indices
<1>2. ASSUME data' \in [Threads -> [Indices -> Values]],
             pc' \in [Threads -> Places],
             a' \in [Threads -> Int], b' \in [Threads -> Int],
             pc'[t] # "idle" => {a'[t], b'[t]} \subseteq Indices,
             t1' \in [Threads -> Values \cup {None}],
             t2' \in [Threads -> Values \cup {None}],
             swaps' \in [Threads -> 0 .. MaxSwaps], overlap' \in BOOLEAN
      PROVE  Typed'
  <2>1. ASSUME NEW u \in Threads, pc'[u] # "idle"
        PROVE  {a'[u], b'[u]} \subseteq Indices
    <3>1. CASE u = t
      BY <1>2, <2>1, <3>1
    <3>2. CASE u # t
      <4>1. pc'[u] = pc[u] /\ a'[u] = a[u] /\ b'[u] = b[u]
        BY <3>2, Others
      <4> QED
        BY <2>1, <4>1 DEF Typed
    <3> QED
      BY <3>1, <3>2
  <2>2. shared' \in BOOLEAN /\ overlap' \in BOOLEAN
    BY <1>0, <1>2, Zenon DEF Typed
  <2>3. length' \in Lengths /\ outcome' \in {"running", "killed"}
    BY <1>0 DEF Typed
  <2> QED
    BY <1>0, <1>2, <2>1, <2>2, <2>3, Zenon DEF Typed
<1>3. CASE Pick(t)
  <2>1. PICK x, y \in Indices :
            /\ a' = [a EXCEPT ![t] = x] /\ b' = [b EXCEPT ![t] = y]
            /\ overlap' = (overlap \/ \E u \in InProgress(t) :
                                          {x, y} \cap {a[u], b[u]} # {})
    BY <1>3 DEF Pick, RandomIndex
  <2>2. overlap' \in BOOLEAN
    BY <2>1, Zenon
  <2>3. /\ a' \in [Threads -> Int] /\ b' \in [Threads -> Int]
        /\ a'[t] = x /\ b'[t] = y
    BY <1>1, <2>1 DEF Typed
  <2>4. UNCHANGED <<data, t1, t2>> /\ pc' = [pc EXCEPT ![t] = "load_a"]
    BY <1>3 DEF Pick, Goto
  <2>5. swaps' \in [Threads -> 0 .. MaxSwaps]
    <3>1. swaps[t] + 1 \in 0 .. MaxSwaps /\ swaps' = [swaps EXCEPT ![t] = @ + 1]
      BY <1>3, GspsAssumption DEF Pick, Typed
    <3> QED
      BY <3>1 DEF Typed
  <2>6. pc' \in [Threads -> Places]
    BY <2>4 DEF Typed
  <2> QED
    BY <1>2, <2>2, <2>3, <2>4, <2>5, <2>6 DEF Typed
<1>4. CASE LoadA(t)
  <2>1. UNCHANGED <<data, a, b, t2, swaps, overlap>> /\ pc[t] # "idle"
    BY <1>4 DEF LoadA
  <2>2. pc' \in [Threads -> Places]
    BY <1>4 DEF LoadA, Goto, Typed
  <2>3. data[Array(t)][a[t]] \in Values
    BY <1>1, <2>1 DEF Typed
  <2>4. t1' \in [Threads -> Values \cup {None}]
    BY <1>4, <2>3 DEF LoadA, Typed
  <2> QED
    BY <1>2, <2>1, <2>2, <2>4, Zenon DEF Typed
<1>5. CASE LoadB(t)
  <2>1. UNCHANGED <<data, a, b, t1, swaps, overlap>> /\ pc[t] # "idle"
    BY <1>5 DEF LoadB
  <2>2. pc' \in [Threads -> Places]
    BY <1>5 DEF LoadB, Goto, Typed
  <2>3. data[Array(t)][b[t]] \in Values
    BY <1>1, <2>1 DEF Typed
  <2>4. t2' \in [Threads -> Values \cup {None}]
    BY <1>5, <2>3 DEF LoadB, Typed
  <2> QED
    BY <1>2, <2>1, <2>2, <2>4, Zenon DEF Typed
<1>6. CASE StoreA(t)
  <2>1. UNCHANGED <<a, b, t1, t2, swaps, overlap>> /\ pc[t] = "store_a"
    BY <1>6 DEF StoreA
  <2>2. pc' \in [Threads -> Places]
    BY <1>6 DEF StoreA, Goto, Typed
  <2>3. t2[t] \in Values /\ a[t] \in Indices
    BY <1>1, <2>1 DEF Own, Typed
  <2>4. data' \in [Threads -> [Indices -> Values]]
    BY <1>6, <2>3, OneStore DEF StoreA
  <2>5. pc[t] # "idle"
    BY <2>1
  <2> QED
    BY <1>2, <2>1, <2>2, <2>4, <2>5, Zenon DEF Typed
<1>7. CASE StoreB(t)
  <2>1. UNCHANGED <<swaps, overlap>> /\ pc[t] = "store_b"
    BY <1>7 DEF StoreB, Return
  <2>2. /\ pc' \in [Threads -> Places] /\ pc'[t] = "idle"
        /\ a' \in [Threads -> Int] /\ b' \in [Threads -> Int]
    BY <1>7 DEF StoreB, Return, Goto, Typed
  <2>3. t1[t] \in Values /\ b[t] \in Indices
    BY <1>1, <2>1 DEF Own, Typed
  <2>4. data' \in [Threads -> [Indices -> Values]]
    BY <1>7, <2>3, OneStore DEF StoreB
  <2>5. /\ t1' \in [Threads -> Values \cup {None}]
        /\ t2' \in [Threads -> Values \cup {None}]
    BY <1>7 DEF StoreB, Return, Typed
  <2> QED
    BY <1>2, <2>1, <2>2, <2>4, <2>5, Zenon DEF Typed
<1> QED
  BY <1>3, <1>4, <1>5, <1>6, <1>7 DEF Swap


-----------------------------------------------------------------------------
(* Elements that are in an array belong to it. *)

LEMMA OwnStep ==
    ASSUME Typed, Own, NEW t \in Threads, Swap(t)
    PROVE  Own'
<1> DEFINE OwnLocals(u) ==
        /\ pc[u] \in {"load_b", "store_a", "store_b"} =>
               t1[u] \in Elements(Array(u))
        /\ pc[u] \in {"store_a", "store_b"} => t2[u] \in Elements(Array(u))
<1>0. /\ Indices' = Indices
      /\ \A x : Elements(x)' = Elements(x)
      /\ \A u : Array(u)' = Array(u)
  BY Others, SameSetUp
<1>1. Array(t) \in Threads /\ Elements(Array(t)) \subseteq Values
  BY ArrayOfThread, ElementsOfArray DEF Typed
<1>2. ASSUME NEW u \in Threads \ {t} PROVE OwnLocals(u)'
  <2>1. pc'[u] = pc[u] /\ t1'[u] = t1[u] /\ t2'[u] = t2[u]
    BY Others
  <2> QED
    BY <1>0, <2>1 DEF Own
<1>3. ASSUME \A x \in Threads, j \in Indices : data'[x][j] \in Elements(x),
             OwnLocals(t)'
      PROVE  Own'
  <2>1. \A u \in Threads : OwnLocals(u)'
    BY <1>2, <1>3
  <2>2. \A x \in Threads, j \in Indices' : data'[x][j] \in Elements(x)'
    BY <1>0, <1>3
  <2> QED
    BY <2>1, <2>2 DEF Own
<1>4. CASE Pick(t)
  <2>1. data' = data /\ pc'[t] = "load_a"
    BY <1>4 DEF Pick, Goto, Typed
  <2> QED
    BY <1>3, <2>1 DEF Own
<1>5. CASE LoadA(t)
  <2>1. /\ data' = data /\ pc'[t] = "load_b"
        /\ t1'[t] = data[Array(t)][a[t]] /\ a[t] \in Indices
    BY <1>5 DEF LoadA, Goto, Typed
  <2> QED
    BY <1>0, <1>1, <1>3, <2>1 DEF Own
<1>6. CASE LoadB(t)
  <2>1. /\ data' = data /\ pc[t] = "load_b" /\ pc'[t] = "store_a"
        /\ t2'[t] = data[Array(t)][b[t]] /\ b[t] \in Indices
        /\ t1' = t1
    BY <1>6 DEF LoadB, Goto, Typed
  <2> QED
    BY <1>0, <1>1, <1>3, <2>1 DEF Own
<1>7. CASE StoreA(t)
  <2>1. /\ pc[t] = "store_a" /\ pc'[t] = "store_b" /\ a[t] \in Indices
        /\ t1' = t1 /\ t2' = t2
        /\ data' = [data EXCEPT ![Array(t)][a[t]] = t2[t]]
    BY <1>7 DEF StoreA, Goto, Typed
  <2>2. t2[t] \in Elements(Array(t)) /\ t1[t] \in Elements(Array(t))
    BY <2>1 DEF Own
  <2>3. t2[t] \in Values
    BY <1>1, <2>2
  <2>4. Stored(t, a[t], t2[t])
    BY <2>1, <2>3, OneStore
  <2>5. \A x \in Threads, j \in Indices : data'[x][j] \in Elements(x)
    BY <2>2, <2>4 DEF Own, Stored
  <2> QED
    BY <1>0, <1>3, <2>1, <2>2, <2>5
<1>8. CASE StoreB(t)
  <2>1. /\ pc[t] = "store_b" /\ pc'[t] = "idle" /\ b[t] \in Indices
        /\ data' = [data EXCEPT ![Array(t)][b[t]] = t1[t]]
    BY <1>8 DEF StoreB, Return, Goto, Typed
  <2>2. t1[t] \in Elements(Array(t))
    BY <2>1 DEF Own
  <2>3. t1[t] \in Values
    BY <1>1, <2>2
  <2>4. Stored(t, b[t], t1[t])
    BY <2>1, <2>3, OneStore
  <2>5. \A x \in Threads, j \in Indices : data'[x][j] \in Elements(x)
    BY <2>2, <2>4 DEF Own, Stored
  <2> QED
    BY <1>3, <2>1, <2>5
<1> QED
  BY <1>4, <1>5, <1>6, <1>7, <1>8 DEF Swap

-----------------------------------------------------------------------------
(* Swaps that do not meet. *)

LEMMA PrivateStep ==
    ASSUME Typed, Private, NEW t \in Threads, Swap(t)
    PROVE  Private'
<1>1. shared' = shared
  BY Others, SameSetUp
<1>2. CASE Pick(t)
  <2>1. ~ shared => InProgress(t) = {}
    BY DEF InProgress, Array
  <2> QED
    BY <1>1, <1>2, <2>1, Zenon DEF Pick, Private
<1>3. CASE LoadA(t) \/ LoadB(t) \/ StoreA(t) \/ StoreB(t)
  <2>1. UNCHANGED overlap
    BY <1>3 DEF LoadA, LoadB, StoreA, StoreB, Return
  <2> QED
    BY <1>1, <2>1, Zenon DEF Private
<1> QED
  BY <1>2, <1>3 DEF Swap

LEMMA ApartStep ==
    ASSUME Typed, Apart, NEW t \in Threads, Swap(t), ~ overlap'
    PROVE  Apart'
<1>1. \A u \in Threads : Array(u)' = Array(u)
  BY Others, SameSetUp
<1>2. \A u \in Threads \ {t} :
          pc'[u] = pc[u] /\ a'[u] = a[u] /\ b'[u] = b[u]
  BY Others
<1>3. ASSUME NEW u \in Threads \ {t}, Array(t) = Array(u), pc'[t] # "idle",
             pc[u] # "idle"
      PROVE  {a'[t], b'[t]} \cap {a[u], b[u]} = {}
  <2>1. CASE Pick(t)
    <3>1. PICK x, y \in Indices :
              /\ a' = [a EXCEPT ![t] = x] /\ b' = [b EXCEPT ![t] = y]
              /\ overlap' = (overlap \/ \E v \in InProgress(t) :
                                            {x, y} \cap {a[v], b[v]} # {})
      BY <2>1 DEF Pick, RandomIndex
    <3>2. a'[t] = x /\ b'[t] = y /\ u \in InProgress(t)
      BY <1>3, <3>1 DEF InProgress, Typed
    <3>3. ~ \E v \in InProgress(t) : {x, y} \cap {a[v], b[v]} # {}
      BY <3>1, Zenon
    <3> QED
      BY <3>2, <3>3
  <2>2. CASE LoadA(t) \/ LoadB(t) \/ StoreA(t)
    <3>1. UNCHANGED <<a, b>> /\ pc[t] # "idle"
      BY <2>2 DEF LoadA, LoadB, StoreA
    <3> QED
      BY <1>3, <3>1 DEF Apart
  <2>3. CASE StoreB(t)
    BY <1>3, <2>3 DEF StoreB, Return, Goto, Typed
  <2> QED
    BY <2>1, <2>2, <2>3 DEF Swap
<1>4. ASSUME NEW u \in Threads, NEW v \in Threads, u # v, Array(u) = Array(v),
             pc'[u] # "idle", pc'[v] # "idle"
      PROVE  {a'[u], b'[u]} \cap {a'[v], b'[v]} = {}
  <2>1. CASE u = t
    <3>1. {a'[t], b'[t]} \cap {a[v], b[v]} = {}
      BY <1>2, <1>3, <1>4, <2>1
    <3> QED
      BY <1>2, <1>4, <2>1, <3>1
  <2>2. CASE v = t
    <3>1. {a'[t], b'[t]} \cap {a[u], b[u]} = {}
      BY <1>2, <1>3, <1>4, <2>2
    <3> QED
      BY <1>2, <1>4, <2>2, <3>1
  <2>3. CASE u # t /\ v # t
    BY <1>2, <1>4, <2>3 DEF Apart
  <2> QED
    BY <2>1, <2>2, <2>3
<1> QED
  BY <1>1, <1>4 DEF Apart


\* A swap does not touch what another one has seen.
LEMMA SeenStep ==
    ASSUME Typed, Own, Apart, Seen, NEW t \in Threads, Swap(t)
    PROVE  Seen'
<1> DEFINE SeenBy(u) ==
        /\ pc[u] \in {"load_b", "store_a"} => data[Array(u)][a[u]] = t1[u]
        /\ pc[u] \in {"store_a", "store_b"} => data[Array(u)][b[u]] = t2[u]
        /\ pc[u] = "store_b" => data[Array(u)][a[u]] = t2[u]
        /\ pc[u] = "store_b" /\ a[u] = b[u] => t1[u] = t2[u]
<1>0. \A u : Array(u)' = Array(u)
  BY Others, SameSetUp
<1>1. Array(t) \in Threads /\ Elements(Array(t)) \subseteq Values
  BY ArrayOfThread, ElementsOfArray DEF Typed
<1>2. ASSUME NEW u \in Threads \ {t},
             pc[u] # "idle" => /\ data'[Array(u)][a[u]] = data[Array(u)][a[u]]
                               /\ data'[Array(u)][b[u]] = data[Array(u)][b[u]]
      PROVE  SeenBy(u)'
  <2>1. /\ pc'[u] = pc[u] /\ a'[u] = a[u] /\ b'[u] = b[u]
        /\ t1'[u] = t1[u] /\ t2'[u] = t2[u]
    BY Others
  <2> QED
    BY <1>0, <1>2, <2>1 DEF Seen
<1>3. ASSUME NEW k \in {a[t], b[t]}, NEW v, Stored(t, k, v), pc[t] # "idle",
             NEW u \in Threads \ {t}, pc[u] # "idle"
      PROVE  /\ data'[Array(u)][a[u]] = data[Array(u)][a[u]]
             /\ data'[Array(u)][b[u]] = data[Array(u)][b[u]]
  <2>1. {a[u], b[u]} \subseteq Indices /\ Array(u) \in Threads
    BY <1>3, ArrayOfThread DEF Typed
  <2>2. CASE Array(u) = Array(t)
    <3>1. k \notin {a[u], b[u]}
      BY <1>3, <2>2 DEF Apart
    <3> QED
      BY <1>3, <2>1, <2>2, <3>1 DEF Stored
  <2>3. CASE Array(u) # Array(t)
    BY <1>3, <2>1, <2>3 DEF Stored
  <2> QED
    BY <2>2, <2>3
<1>4. ASSUME \A u \in Threads \ {t} : SeenBy(u)', SeenBy(t)' PROVE Seen'
  <2>1. \A u \in Threads : SeenBy(u)'
    BY <1>4
  <2> QED
    BY <2>1 DEF Seen
<1>5. CASE Pick(t) \/ LoadA(t) \/ LoadB(t)
  <2>1. data' = data
    BY <1>5 DEF Pick, LoadA, LoadB
  <2>2. \A u \in Threads \ {t} : SeenBy(u)'
    BY <1>2, <2>1
  <2>3. CASE Pick(t)
    <3>1. pc'[t] = "load_a"
      BY <2>3 DEF Pick, Goto, Typed
    <3> QED
      BY <1>4, <2>2, <3>1
  <2>4. CASE LoadA(t)
    <3>1. /\ pc'[t] = "load_b" /\ a' = a
          /\ t1'[t] = data[Array(t)][a[t]]
      BY <2>4 DEF LoadA, Goto, Typed
    <3> QED
      BY <1>0, <1>4, <2>1, <2>2, <3>1
  <2>5. CASE LoadB(t)
    <3>1. /\ pc[t] = "load_b" /\ pc'[t] = "store_a"
          /\ UNCHANGED <<a, b, t1>>
          /\ t2'[t] = data[Array(t)][b[t]]
      BY <2>5 DEF LoadB, Goto, Typed
    <3>2. data[Array(t)][a[t]] = t1[t]
      BY <3>1 DEF Seen
    <3> QED
      BY <1>0, <1>4, <2>1, <2>2, <3>1, <3>2
  <2> QED
    BY <1>5, <2>3, <2>4, <2>5
<1>6. CASE StoreA(t)
  <2>1. /\ pc[t] = "store_a" /\ pc'[t] = "store_b"
        /\ UNCHANGED <<a, b, t1, t2>>
        /\ {a[t], b[t]} \subseteq Indices
        /\ data' = [data EXCEPT ![Array(t)][a[t]] = t2[t]]
    BY <1>6 DEF StoreA, Goto, Typed
  <2>2. t2[t] \in Values
    BY <1>1, <2>1 DEF Own
  <2>3. Stored(t, a[t], t2[t])
    BY <2>1, <2>2, OneStore
  <2>4. \A u \in Threads \ {t} : SeenBy(u)'
    BY <1>2, <1>3, <2>1, <2>3
  <2>5. /\ data[Array(t)][a[t]] = t1[t] /\ data[Array(t)][b[t]] = t2[t]
    BY <2>1 DEF Seen
  <2>6. data'[Array(t)][a[t]] = t2[t] /\ data'[Array(t)][b[t]] = t2[t]
    BY <2>1, <2>3, <2>5 DEF Stored
  <2>7. SeenBy(t)'
    BY <1>0, <2>1, <2>5, <2>6
  <2> QED
    BY <1>4, <2>4, <2>7
<1>7. CASE StoreB(t)
  <2>1. /\ pc[t] = "store_b" /\ pc'[t] = "idle" /\ b[t] \in Indices
        /\ data' = [data EXCEPT ![Array(t)][b[t]] = t1[t]]
    BY <1>7 DEF StoreB, Return, Goto, Typed
  <2>2. t1[t] \in Values
    BY <1>1, <2>1 DEF Own
  <2>3. Stored(t, b[t], t1[t])
    BY <2>1, <2>2, OneStore
  <2>4. \A u \in Threads \ {t} : SeenBy(u)'
    BY <1>2, <1>3, <2>1, <2>3
  <2> QED
    BY <1>4, <2>1, <2>4
<1> QED
  BY <1>5, <1>6, <1>7 DEF Swap

\* Each value that a store overwrites is elsewhere in the array, or is the t
\* of the thread that stores.
LEMMA KeptStep ==
    ASSUME Typed, Own, Seen, Kept, NEW t \in Threads, Swap(t)
    PROVE  Kept'
<1> DEFINE Carried(x, v) ==
        \E u \in Threads : Array(u) = x /\ pc[u] = "store_b" /\ t1[u] = v
<1>0. /\ Indices' = Indices
      /\ \A x : Elements(x)' = Elements(x)
      /\ \A u : Array(u)' = Array(u)
  BY Others, SameSetUp
<1>1. Array(t) \in Threads /\ Elements(Array(t)) \subseteq Values
  BY ArrayOfThread, ElementsOfArray DEF Typed
<1>2. ASSUME \A x \in Threads : \A v \in Elements(x) :
                 (\E j \in Indices : data'[x][j] = v) \/ Carried(x, v)'
      PROVE  Kept'
  BY <1>0, <1>2 DEF Kept, Contents
<1>3. ASSUME NEW x \in Threads, NEW v \in Elements(x)
      PROVE  (\E j \in Indices : data[x][j] = v) \/ Carried(x, v)
  BY <1>3 DEF Kept, Contents
<1>4. ASSUME NEW x, NEW v, NEW u \in Threads \ {t},
             Array(u) = x, pc[u] = "store_b", t1[u] = v
      PROVE  Carried(x, v)'
  BY <1>0, <1>4, Others
<1>5. CASE Pick(t) \/ LoadA(t) \/ LoadB(t)
  <2>1. data' = data /\ pc[t] # "store_b"
    BY <1>5 DEF Pick, LoadA, LoadB
  <2> QED
    BY <1>2, <1>3, <1>4, <2>1
<1>6. CASE StoreA(t)
  <2>1. /\ pc[t] = "store_a" /\ pc'[t] = "store_b" /\ t1' = t1
        /\ a[t] \in Indices
        /\ data' = [data EXCEPT ![Array(t)][a[t]] = t2[t]]
    BY <1>6 DEF StoreA, Goto, Typed
  <2>2. t2[t] \in Values
    BY <1>1, <2>1 DEF Own
  <2>3. Stored(t, a[t], t2[t])
    BY <2>1, <2>2, OneStore
  <2>4. data[Array(t)][a[t]] = t1[t] /\ Carried(Array(t), t1[t])'
    BY <1>0, <2>1 DEF Seen
  <2>5. ASSUME NEW x \in Threads, NEW v \in Elements(x)
        PROVE  (\E j \in Indices : data'[x][j] = v) \/ Carried(x, v)'
    <3>1. CASE \E j \in Indices : data[x][j] = v
      <4>1. PICK j \in Indices : data[x][j] = v
        BY <3>1
      <4>2. CASE x = Array(t) /\ j = a[t]
        BY <1>0, <2>1, <2>4, <4>1, <4>2
      <4>3. CASE x # Array(t) \/ j # a[t]
        BY <2>3, <4>1, <4>3 DEF Stored
      <4> QED
        BY <4>2, <4>3
    <3>2. CASE Carried(x, v)
      BY <1>4, <2>1, <3>2
    <3> QED
      BY <1>3, <3>1, <3>2
  <2> QED
    BY <1>2, <2>5
<1>7. CASE StoreB(t)
  <2>1. /\ pc[t] = "store_b" /\ {a[t], b[t]} \subseteq Indices
        /\ data' = [data EXCEPT ![Array(t)][b[t]] = t1[t]]
    BY <1>7 DEF StoreB, Typed
  <2>2. t1[t] \in Values
    BY <1>1, <2>1 DEF Own
  <2>3. Stored(t, b[t], t1[t])
    BY <2>1, <2>2, OneStore
  <2>4. /\ data[Array(t)][b[t]] = t2[t] /\ data[Array(t)][a[t]] = t2[t]
        /\ a[t] = b[t] => t1[t] = t2[t]
    BY <2>1 DEF Seen
  <2>5. \E j \in Indices : data'[Array(t)][j] = t2[t]
    <3>1. CASE a[t] = b[t]
      BY <2>1, <2>3, <2>4, <3>1 DEF Stored
    <3>2. CASE a[t] # b[t]
      BY <2>1, <2>3, <2>4, <3>2 DEF Stored
    <3> QED
      BY <3>1, <3>2
  <2>6. \E j \in Indices : data'[Array(t)][j] = t1[t]
    BY <2>1, <2>3 DEF Stored
  <2>7. ASSUME NEW x \in Threads, NEW v \in Elements(x)
        PROVE  (\E j \in Indices : data'[x][j] = v) \/ Carried(x, v)'
    <3>1. CASE \E j \in Indices : data[x][j] = v
      <4>1. PICK j \in Indices : data[x][j] = v
        BY <3>1
      <4>2. CASE x = Array(t) /\ j = b[t]
        BY <2>4, <2>5, <4>1, <4>2
      <4>3. CASE x # Array(t) \/ j # b[t]
        BY <2>3, <4>1, <4>3 DEF Stored
      <4> QED
        BY <4>2, <4>3
    <3>2. CASE Carried(x, v)
      <4>1. PICK u \in Threads :
                Array(u) = x /\ pc[u] = "store_b" /\ t1[u] = v
        BY <3>2
      <4>2. CASE u = t
        BY <2>6, <4>1, <4>2
      <4>3. CASE u # t
        BY <1>4, <4>1, <4>3
      <4> QED
        BY <4>2, <4>3
    <3> QED
      BY <1>3, <3>1, <3>2
  <2> QED
    BY <1>2, <2>7
<1> QED
  BY <1>5, <1>6, <1>7 DEF Swap


-----------------------------------------------------------------------------
(***************************************************************************)
(* The invariant, and what follows from it.                                *)
(***************************************************************************)
LEMMA GspsInit == Init => GspsInv
<1> SUFFICES ASSUME Init PROVE GspsInv
  OBVIOUS
<1>1. shared \in BOOLEAN /\ length \in Lengths
  BY Zenon DEF Init, Lengths
<1>2. /\ \A t \in Threads : pc[t] = "idle"
      /\ pc = [t \in Threads |-> "idle"] /\ data = Fresh(max_index)
  BY DEF Init
<1>3. ASSUME NEW x \in Threads, NEW j \in Indices
      PROVE  data[x][j] = <<x, j>> /\ data[x][j] \in Elements(x)
  <2>1. data[x][j] = <<x, j>>
    BY <1>2 DEF Fresh, Indices
  <2> QED
    BY <1>1, <2>1, ElementsOfArray
<1>4. data \in [Threads -> [Indices -> Values]]
  <2>1. ASSUME NEW x \in Threads
        PROVE  [j \in Indices |-> <<x, j>>] \in [Indices -> Values]
    <3>1. \A j \in Indices : <<x, j>> \in Values
      BY <1>1, ElementsOfArray
    <3> QED
      BY <3>1
  <2>2. data = [x \in Threads |-> [j \in Indices |-> <<x, j>>]]
    BY <1>2 DEF Fresh, Indices
  <2> QED
    BY <2>1, <2>2
<1>5. Typed
  <2>1. swaps \in [Threads -> 0 .. MaxSwaps]
    BY GspsAssumption DEF Init
  <2>2. /\ a \in [Threads -> Int] /\ b \in [Threads -> Int]
        /\ t1 \in [Threads -> Values \cup {None}]
        /\ t2 \in [Threads -> Values \cup {None}]
    BY DEF Init
  <2>3. /\ overlap \in BOOLEAN /\ outcome \in {"running", "killed"}
        /\ pc \in [Threads -> {"idle", "load_a", "load_b", "store_a",
                               "store_b"}]
    BY DEF Init
  <2> QED
    BY <1>1, <1>2, <1>4, <2>1, <2>2, <2>3, Zenon DEF Typed
<1>6. Own
  BY <1>2, <1>3 DEF Own
<1>7. Private /\ Apart /\ Seen
  BY <1>2 DEF Init, Private, Apart, Seen
<1>8. Kept
  <2>1. ASSUME NEW x \in Threads, NEW v \in Elements(x)
        PROVE  v \in Contents(data[x])
    <3>1. PICK j \in Indices : v = <<x, j>>
      BY <1>1, <2>1, ElementsOfArray
    <3> QED
      BY <1>3, <3>1 DEF Contents
  <2> QED
    BY <2>1 DEF Kept
<1> QED
  BY <1>5, <1>6, <1>7, <1>8 DEF GspsInv

LEMMA GspsStep == GspsInv /\ [Next]_vars => GspsInv'
<1> SUFFICES ASSUME GspsInv, [Next]_vars PROVE GspsInv'
  OBVIOUS
<1> USE DEF GspsInv
<1>1. ASSUME NEW t \in Threads, Swap(t) PROVE GspsInv'
  <2>1. ~ overlap' => ~ overlap
    BY <1>1, Zenon
    DEF Swap, Pick, LoadA, LoadB, StoreA, StoreB, Return
  <2>2. Typed' /\ Own' /\ Private'
    BY <1>1, TypedStep, OwnStep, PrivateStep
  <2>3. ~ overlap' => Apart' /\ Seen' /\ Kept'
    BY <1>1, <2>1, ApartStep, SeenStep, KeptStep
  <2> QED
    BY <2>2, <2>3
<1>2. ASSUME UNCHANGED <<setUp, data, pc, a, b, t1, t2, swaps, overlap>>,
             outcome' \in {"running", "killed"}
      PROVE  GspsInv'
  <2>1. /\ Indices' = Indices /\ shared' = shared /\ length' = length
        /\ \A t : Array(t)' = Array(t)
        /\ \A x : Elements(x)' = Elements(x)
    BY <1>2, SameSetUp
  <2>2. Typed'
    BY <1>2, <2>1, Zenon DEF Typed
  <2>3. Own' /\ Private'
    BY <1>2, <2>1 DEF Own, Private
  <2>4. ~ overlap' => Apart' /\ Seen' /\ Kept'
    BY <1>2, <2>1 DEF Apart, Seen, Kept, Contents
  <2> QED
    BY <2>2, <2>3, <2>4
<1>3. ASSUME NEW t \in Threads, PickFromNothing(t) PROVE GspsInv'
  BY <1>2, <1>3 DEF PickFromNothing
<1>4. CASE UNCHANGED vars
  BY <1>2, <1>4 DEF vars, Typed
<1> QED
  BY <1>1, <1>3, <1>4 DEF Next, op, Swap, AllSwapped

LEMMA GspsInvariant == Spec => []GspsInv
BY GspsInit, GspsStep, PTL DEF Spec

\* The indices that op picks are within the array, whatever its length and
\* the number of threads that share the footprint (op, time_GSPS.cpp:60).
THEOREM GspsTypeCorrect == Spec => []TypeOK
<1>1. GspsInv => TypeOK
  BY Zenon DEF GspsInv, Typed, TypeOK
<1> QED
  BY <1>1, GspsInvariant, PTL

\* A thread on an array of its own always permutes it, and threads on a
\* shared one do as long as no two swaps have met: between the swaps each
\* element is in its array (op, time_GSPS.cpp:62).
THEOREM UndisturbedSwapsPermute == Spec => []SwapsPermute
<1>1. GspsInv => SwapsPermute
  <2> SUFFICES ASSUME GspsInv, ~ shared \/ ~ overlap, NEW x \in Threads,
                      AtRest(x)
               PROVE  Lost(x) = {}
    BY Zenon DEF SwapsPermute
  <2>1. Kept
    BY DEF GspsInv, Private
  <2>2. \A v \in Elements(x) : v \in Contents(data[x])
    BY <2>1 DEF Kept, AtRest
  <2> QED
    BY <2>2 DEF Lost, Elements
<1> QED
  BY <1>1, GspsInvariant, PTL

-----------------------------------------------------------------------------
(***************************************************************************)
(* Swaps that meet.  What the stores so far have joined are classes of     *)
(* indices: c[j] names the class of index j, and an array's element        *)
(* <<x, j>> stays in the class of j.  A swap whose stores begin joins the  *)
(* classes of its two indices, so that there are at most as many joins as  *)
(* there are such swaps, and each class keeps one of its elements at least.*)
(*                                                                         *)
(* If there are exactly as many joins, no index ever gets its own element  *)
(* back: all else that is in the class has come from the other side of     *)
(* some swap.  A class that has been joined then keeps two elements.       *)
(***************************************************************************)
Class(c, x, j) == {<<x, k>> : k \in {i \in Indices : c[i] = c[j]}}
Classes(c) == {c[j] : j \in Indices}

On(x) == {t \in Threads : Array(t) = x}

\* The swaps that have stored something.
StoredOn(x) ==
    {s \in SwapsOn(x) :
        s[2] = swaps[s[1]] => pc[s[1]] \in {"idle", "store_b"}}

StayInClass(c, x) ==
    /\ \A j \in Indices : data[x][j] \in Class(c, x, j)
    /\ \A t \in On(x) :
        /\ pc[t] \in {"load_b", "store_a", "store_b"} =>
               t1[t] \in Class(c, x, a[t])
        /\ pc[t] \in {"store_a", "store_b"} => t2[t] \in Class(c, x, b[t])
        /\ pc[t] = "store_b" => c[a[t]] = c[b[t]]

FewJoins(c, x) ==
    Cardinality(Indices) <= Cardinality(Classes(c)) + Cardinality(StoredOn(x))

NoneComesBack(c, x) ==
    /\ \A j \in Indices :
        data[x][j] = <<x, j>> =>
            \/ \A k \in Indices : c[k] = c[j] => k = j
            \/ \E t \in On(x) : pc[t] = "store_b" /\ b[t] = j
    /\ \A t \in On(x) : pc[t] = "store_b" => t1[t] # <<x, b[t]>>

Joined(c, x) ==
    /\ StayInClass(c, x)
    /\ FewJoins(c, x)
    /\ \/ Cardinality(Indices)
              < Cardinality(Classes(c)) + Cardinality(StoredOn(x))
       \/ NoneComesBack(c, x)

JoinInv == \A x \in Threads : \E c \in [Indices -> Indices] : Joined(c, x)

\* A swap in progress has been counted.
Begun == \A t \in Threads : pc[t] # "idle" => swaps[t] \in 1 .. MaxSwaps

-----------------------------------------------------------------------------
(* Counting indices, classes and swaps. *)

LEMMA IndicesFinite ==
    ASSUME Typed
    PROVE  IsFiniteSet(Indices) /\ Cardinality(Indices) \in Nat
<1>1. max_index \in Nat
  <2>1. 0 \in Threads
    BY GspsAssumption DEF Threads
  <2>2. length \in Lengths
    BY Zenon DEF Typed
  <2> QED
    BY <2>1, <2>2, ElementsOfArray
<1>2. IsFiniteSet(Indices)
  BY <1>1, FS_Interval DEF Indices
<1> QED
  BY <1>2, FS_CardinalityType

LEMMA ClassesFinite ==
    ASSUME Typed, NEW c \in [Indices -> Indices]
    PROVE  IsFiniteSet(Classes(c)) /\ Cardinality(Classes(c)) \in Nat
<1>1. Classes(c) \in SUBSET Indices
  BY DEF Classes
<1> QED
  BY <1>1, IndicesFinite, FS_Subset, FS_CardinalityType

LEMMA SwapsFinite ==
    ASSUME NEW x
    PROVE  /\ IsFiniteSet(SwapsOn(x)) /\ Cardinality(SwapsOn(x)) \in Nat
           /\ IsFiniteSet(StoredOn(x)) /\ Cardinality(StoredOn(x)) \in Nat
           /\ Cardinality(StoredOn(x)) <= Cardinality(SwapsOn(x))
<1>1. IsFiniteSet(Threads) /\ IsFiniteSet(1 .. MaxSwaps)
  BY GspsAssumption, FS_Interval DEF Threads
<1>2. IsFiniteSet(Threads \X (1 .. MaxSwaps))
  BY <1>1, FS_Product
<1>3. IsFiniteSet(SwapsOn(x))
  <2>1. SwapsOn(x) \in SUBSET (Threads \X (1 .. MaxSwaps))
    BY DEF SwapsOn
  <2> QED
    BY <1>2, <2>1, FS_Subset
<1>4. StoredOn(x) \in SUBSET SwapsOn(x)
  BY DEF StoredOn
<1> QED
  BY <1>3, <1>4, FS_Subset, FS_CardinalityType

LEMMA BegunInit == Init => Begun
BY DEF Init, Begun

LEMMA BegunStep == Typed /\ Begun /\ [Next]_vars => Begun'
<1> SUFFICES ASSUME Typed, Begun, [Next]_vars PROVE Begun'
  OBVIOUS
<1>1. ASSUME NEW t \in Threads, Swap(t) PROVE Begun'
  <2>1. ASSUME NEW u \in Threads \ {t}
        PROVE  pc'[u] = pc[u] /\ swaps'[u] = swaps[u]
    <3>1. pc'[u] = pc[u]
      BY <1>1, Others
    <3>2. swaps'[u] = swaps[u]
      BY <1>1 DEF Swap, Pick, LoadA, LoadB, StoreA, StoreB, Return, Typed
    <3> QED
      BY <3>1, <3>2
  <2>2. pc'[t] # "idle" => swaps'[t] \in 1 .. MaxSwaps
    <3>1. CASE Pick(t)
      BY <3>1, GspsAssumption DEF Pick, Typed
    <3>2. CASE LoadA(t) \/ LoadB(t) \/ StoreA(t)
      BY <3>2 DEF LoadA, LoadB, StoreA, Begun
    <3>3. CASE StoreB(t)
      BY <3>3 DEF StoreB, Return, Goto, Typed
    <3> QED
      BY <1>1, <3>1, <3>2, <3>3 DEF Swap
  <2> QED
    BY <2>1, <2>2 DEF Begun
<1>2. CASE UNCHANGED <<pc, swaps>>
  BY <1>2 DEF Begun
<1> QED
  BY <1>1, <1>2 DEF Next, op, Swap, PickFromNothing, AllSwapped, vars

\* A swap counts from its first store on.
LEMMA StoredOnStep ==
    ASSUME Typed, Begun, NEW t \in Threads, Swap(t), NEW x \in Threads
    PROVE  IF StoreA(t) /\ Array(t) = x
           THEN /\ <<t, swaps[t]>> \notin StoredOn(x)
                /\ StoredOn(x)' = StoredOn(x) \cup {<<t, swaps[t]>>}
           ELSE StoredOn(x)' = StoredOn(x)
<1> DEFINE Counts(s) == /\ Array(s[1]) = x /\ s[2] <= swaps[s[1]]
                        /\ s[2] = swaps[s[1]] =>
                               pc[s[1]] \in {"idle", "store_b"}
           Pairs == Threads \X (1 .. MaxSwaps)
<1>1. StoredOn(x) = {s \in Pairs : Counts(s)}
  BY DEF StoredOn, SwapsOn
<1>2. StoredOn(x)' = {s \in Pairs : Counts(s)'}
  BY DEF StoredOn, SwapsOn
<1>3. \A u : Array(u)' = Array(u)
  BY Others, SameSetUp
<1>4. ASSUME NEW s \in Pairs, s[1] # t PROVE Counts(s)' <=> Counts(s)
  <2>1. pc'[s[1]] = pc[s[1]] /\ s[1] \in Threads
    BY <1>4, Others
  <2>2. swaps'[s[1]] = swaps[s[1]]
    BY <1>4, <2>1
       DEF Swap, Pick, LoadA, LoadB, StoreA, StoreB, Return, Typed
  <2> QED
    BY <1>3, <2>1, <2>2
<1>5. CASE StoreA(t) /\ Array(t) = x
  <2>1. /\ pc[t] = "store_a" /\ pc'[t] = "store_b" /\ swaps' = swaps
        /\ swaps[t] \in 1 .. MaxSwaps
    BY <1>5 DEF StoreA, Goto, Typed, Begun
  <2>2. ASSUME NEW s \in Pairs, s[1] = t
        PROVE  Counts(s)' <=> Counts(s) \/ s[2] = swaps[t]
    BY <1>3, <1>5, <2>1, <2>2
  <2>3. <<t, swaps[t]>> \in Pairs /\ ~ Counts(<<t, swaps[t]>>)
    BY <2>1
  <2>4. \A s \in Pairs : s = <<s[1], s[2]>>
    OBVIOUS
  <2>5. \A s \in Pairs : Counts(s)' <=> Counts(s) \/ s = <<t, swaps[t]>>
    BY <1>4, <2>2, <2>4
  <2> QED
    BY <1>1, <1>2, <1>5, <2>3, <2>5
<1>6. CASE ~ (StoreA(t) /\ Array(t) = x)
  <2>1. ASSUME NEW s \in Pairs, s[1] = t PROVE Counts(s)' <=> Counts(s)
    <3>1. CASE Pick(t)
      <4>1. /\ pc[t] = "idle" /\ pc'[t] = "load_a"
            /\ swaps'[t] = swaps[t] + 1 /\ swaps[t] \in Nat
        BY <3>1 DEF Pick, Goto, Typed
      <4> QED
        BY <1>3, <2>1, <4>1
    <3>2. CASE LoadA(t) \/ LoadB(t)
      BY <1>3, <2>1, <3>2 DEF LoadA, LoadB, Goto, Typed
    <3>3. CASE StoreA(t)
      BY <1>3, <1>6, <2>1, <3>3
    <3>4. CASE StoreB(t)
      BY <1>3, <2>1, <3>4 DEF StoreB, Return, Goto, Typed
    <3> QED
      BY <3>1, <3>2, <3>3, <3>4 DEF Swap
  <2> QED
    BY <1>1, <1>2, <1>4, <1>6, <2>1
<1> QED
  BY <1>5, <1>6

-----------------------------------------------------------------------------
(* Joins. *)

\* The class of q becomes part of the class of p.
Join(c, p, q) == [j \in DOMAIN c |-> IF c[j] = c[q] THEN c[p] ELSE c[j]]

LEMMA JoinedInit ==
    ASSUME Init, NEW x \in Threads
    PROVE  \E c \in [Indices -> Indices] : Joined(c, x)
<1> DEFINE c == [j \in Indices |-> j]
<1>1. /\ \A j \in Indices : data[x][j] = <<x, j>>
      /\ \A t \in Threads : pc[t] = "idle" /\ swaps[t] = 0
  BY DEF Init, Fresh, Indices
<1>2. c \in [Indices -> Indices] /\ \A j \in Indices : c[j] = j
  OBVIOUS
<1> HIDE DEF c
<1>3. StayInClass(c, x)
  BY <1>1, <1>2 DEF StayInClass, Class, On
<1>4. Classes(c) = Indices
  BY <1>2 DEF Classes
<1>5. FewJoins(c, x)
  <2>1. Typed
    BY GspsInit DEF GspsInv
  <2> QED
    BY <1>4, <2>1, IndicesFinite, SwapsFinite DEF FewJoins
<1>6. NoneComesBack(c, x)
  BY <1>1, <1>2 DEF NoneComesBack, On
<1> QED
  BY <1>2, <1>3, <1>5, <1>6 DEF Joined

\* The parts of the state that Joined is about.
LEMMA SameArray ==
    ASSUME Typed, NEW t \in Threads, Swap(t), NEW x \in Threads
    PROVE  /\ Indices' = Indices /\ On(x)' = On(x)
           /\ \A c, j : Class(c, x, j)' = Class(c, x, j)
           /\ \A c : Classes(c)' = Classes(c)
           /\ \A u \in Threads \ {t} :
                /\ pc'[u] = pc[u] /\ a'[u] = a[u] /\ b'[u] = b[u]
                /\ t1'[u] = t1[u] /\ t2'[u] = t2[u]
<1>1. Indices' = Indices /\ \A u : Array(u)' = Array(u)
  BY Others, SameSetUp
<1> QED
  BY <1>1, Others DEF On, Class, Classes

LEMMA OtherArrayStep ==
    ASSUME Typed, Own, Begun, NEW t \in Threads, Swap(t), NEW x \in Threads,
           Array(t) # x, NEW c \in [Indices -> Indices], Joined(c, x)
    PROVE  Joined(c, x)'
<1>1. data'[x] = data[x]
  BY ArrayOfThread
     DEF Swap, Pick, LoadA, LoadB, StoreA, StoreB, Typed
<1>2. StoredOn(x)' = StoredOn(x)
  BY StoredOnStep
<1>3. t \notin On(x) /\ On(x) \subseteq Threads
  BY DEF On
<1>4. StayInClass(c, x)'
  BY <1>1, <1>3, SameArray DEF Joined, StayInClass
<1>5. NoneComesBack(c, x) => NoneComesBack(c, x)'
  BY <1>1, <1>3, SameArray DEF NoneComesBack
<1>6. /\ Cardinality(Indices)' = Cardinality(Indices)
      /\ Cardinality(Classes(c))' = Cardinality(Classes(c))
      /\ Cardinality(StoredOn(x))' = Cardinality(StoredOn(x))
  BY <1>2, SameArray
<1> QED
  BY <1>4, <1>5, <1>6 DEF Joined, FewJoins

\* Loads, and the second store, join nothing.
LEMMA SameClassesStep ==
    ASSUME Typed, Own, Begun, NEW t \in Threads, Swap(t), ~ StoreA(t),
           NEW x \in Threads, Array(t) = x,
           NEW c \in [Indices -> Indices], Joined(c, x)
    PROVE  Joined(c, x)'
<1>1. t \in On(x) /\ On(x) \subseteq Threads
  BY DEF On
<1>2. StoredOn(x)' = StoredOn(x)
  BY StoredOnStep
<1>3. /\ Cardinality(Indices)' = Cardinality(Indices)
      /\ Cardinality(Classes(c))' = Cardinality(Classes(c))
      /\ Cardinality(StoredOn(x))' = Cardinality(StoredOn(x))
  BY <1>2, SameArray
<1>4. SUFFICES ASSUME StayInClass(c, x)
               PROVE  /\ StayInClass(c, x)'
                      /\ NoneComesBack(c, x) => NoneComesBack(c, x)'
  BY <1>3 DEF Joined, FewJoins
<1>5. CASE StoreB(t)
  <2>1. /\ pc[t] = "store_b" /\ pc'[t] = "idle" /\ b[t] \in Indices
        /\ a[t] \in Indices
        /\ data' = [data EXCEPT ![x][b[t]] = t1[t]]
    BY <1>5 DEF StoreB, Return, Goto, Typed
  <2>2. t1[t] \in Class(c, x, b[t])
    BY <1>1, <1>4, <2>1 DEF StayInClass, Class
  <2>3. /\ data'[x][b[t]] = t1[t]
        /\ \A j \in Indices \ {b[t]} : data'[x][j] = data[x][j]
    <3>1. t1[t] \in Values
      BY <2>1, ElementsOfArray DEF Own, Typed
    <3>2. data' = [data EXCEPT ![Array(t)][b[t]] = t1[t]]
      BY <2>1
    <3>3. Stored(t, b[t], t1[t])
      BY <2>1, <3>1, <3>2, OneStore
    <3> QED
      BY <3>3 DEF Stored
  <2>4. StayInClass(c, x)'
    <3>1. \A j \in Indices : data'[x][j] \in Class(c, x, j)
      BY <1>4, <2>2, <2>3 DEF StayInClass
    <3> QED
      BY <1>1, <1>4, <2>1, <3>1, SameArray DEF StayInClass
  <2>5. ASSUME NoneComesBack(c, x) PROVE NoneComesBack(c, x)'
    <3>1. data'[x][b[t]] # <<x, b[t]>>
      BY <1>1, <2>1, <2>3, <2>5 DEF NoneComesBack
    <3>2. ASSUME NEW j \in Indices, data'[x][j] = <<x, j>>
          PROVE  \/ \A k \in Indices : c[k] = c[j] => k = j
                 \/ \E u \in On(x) : pc'[u] = "store_b" /\ b'[u] = j
      <4>1. j # b[t] /\ data[x][j] = <<x, j>>
        BY <2>3, <3>1, <3>2
      <4>2. CASE \E u \in On(x) : pc[u] = "store_b" /\ b[u] = j
        <5>1. PICK u \in On(x) : pc[u] = "store_b" /\ b[u] = j
          BY <4>2
        <5>2. u \in Threads \ {t}
          BY <1>1, <4>1, <5>1
        <5> QED
          BY <5>1, <5>2, SameArray
      <4> QED
        BY <2>5, <4>1, <4>2 DEF NoneComesBack
    <3>3. \A u \in On(x) : pc'[u] = "store_b" => t1'[u] # <<x, b'[u]>>
      BY <1>1, <2>1, <2>5, SameArray DEF NoneComesBack
    <3> QED
      BY <3>2, <3>3, SameArray DEF NoneComesBack
  <2> QED
    BY <2>4, <2>5
<1>6. CASE Pick(t) \/ LoadA(t) \/ LoadB(t)
  <2>1. data' = data /\ pc[t] # "store_b" /\ pc'[t] # "store_b"
    BY <1>6 DEF Pick, LoadA, LoadB, Goto, Typed
  <2>2. /\ pc'[t] \in {"load_b", "store_a", "store_b"} =>
               t1'[t] \in Class(c, x, a'[t])
        /\ pc'[t] \in {"store_a", "store_b"} => t2'[t] \in Class(c, x, b'[t])
    <3>1. CASE Pick(t)
      BY <3>1 DEF Pick, Goto, Typed
    <3>2. CASE LoadA(t)
      <4>1. /\ pc'[t] = "load_b" /\ a' = a /\ a[t] \in Indices
            /\ t1'[t] = data[x][a[t]]
        BY <3>2 DEF LoadA, Goto, Typed
      <4> QED
        BY <1>4, <4>1 DEF StayInClass
    <3>3. CASE LoadB(t)
      <4>1. /\ pc[t] = "load_b" /\ a' = a /\ b' = b /\ b[t] \in Indices
            /\ t2'[t] = data[x][b[t]] /\ t1' = t1
        BY <3>3 DEF LoadB, Goto, Typed
      <4> QED
        BY <1>1, <1>4, <4>1 DEF StayInClass
    <3> QED
      BY <1>6, <3>1, <3>2, <3>3
  <2>3. StayInClass(c, x)'
    BY <1>1, <1>4, <2>1, <2>2, SameArray DEF StayInClass
  <2>4. ASSUME NoneComesBack(c, x) PROVE NoneComesBack(c, x)'
    BY <1>1, <2>1, <2>4, SameArray DEF NoneComesBack
  <2> QED
    BY <2>3, <2>4
<1> QED
  BY <1>5, <1>6 DEF Swap

\* The first store joins the classes of its two indices.
LEMMA JoiningStep ==
    ASSUME Typed, Own, Begun, NEW t \in Threads, StoreA(t),
           NEW x \in Threads, Array(t) = x,
           NEW c \in [Indices -> Indices], Joined(c, x),
           NEW p \in Indices, NEW q \in Indices, a[t] = p, b[t] = q
    PROVE  Joined(Join(c, p, q), x)'
<1> SUFFICES ASSUME NEW d, d = Join(c, p, q)
             PROVE  Joined(d, x)'
  OBVIOUS
<1>0. Swap(t)
  BY DEF Swap
<1>1. t \in On(x) /\ On(x) \subseteq Threads
  BY DEF On
<1>2. /\ pc[t] = "store_a" /\ pc'[t] = "store_b"
      /\ a' = a /\ b' = b /\ t1' = t1 /\ t2' = t2
      /\ a'[t] = p /\ b'[t] = q
      /\ data' = [data EXCEPT ![x][p] = t2[t]]
  BY DEF StoreA, Goto, Typed
<1>3. /\ d \in [Indices -> Indices]
      /\ \A j \in Indices : d[j] = IF c[j] = c[q] THEN c[p] ELSE c[j]
      /\ \A j, k \in Indices : c[j] = c[k] => d[j] = d[k]
      /\ d[p] = d[q]
  BY DEF Join
<1>4. Classes(d) = IF c[p] = c[q] THEN Classes(c) ELSE Classes(c) \ {c[q]}
  <2>1. CASE c[p] = c[q]
    BY <1>3, <2>1 DEF Classes
  <2>2. CASE c[p] # c[q]
    <3>1. ASSUME NEW j \in Indices PROVE d[j] \in Classes(c) \ {c[q]}
      BY <1>3, <2>2 DEF Classes
    <3>2. ASSUME NEW j \in Indices, c[j] # c[q] PROVE c[j] \in Classes(d)
      BY <1>3, <3>2 DEF Classes
    <3> QED
      BY <2>2, <3>1, <3>2 DEF Classes
  <2> QED
    BY <2>1, <2>2
<1>5. /\ data'[x][p] = t2[t]
      /\ \A j \in Indices \ {p} : data'[x][j] = data[x][j]
  <2>1. t2[t] \in Values
    BY <1>0, <1>2, ElementsOfArray DEF Own, Typed
  <2>2. data' = [data EXCEPT ![Array(t)][p] = t2[t]]
    BY <1>2
  <2>3. Stored(t, p, t2[t])
    BY <2>1, <2>2, OneStore
  <2> QED
    BY <2>3 DEF Stored
<1>6. /\ <<t, swaps[t]>> \notin StoredOn(x)
      /\ StoredOn(x)' = StoredOn(x) \cup {<<t, swaps[t]>>}
  BY <1>0, StoredOnStep
<1>7. \A j \in Indices : Class(c, x, j) \subseteq Class(d, x, j)
  BY <1>3 DEF Class
<1>8. StayInClass(d, x)'
  <2>1. t2[t] \in Class(d, x, p)
    <3>1. t2[t] \in Class(c, x, q)
      BY <1>1, <1>2, <1>7 DEF Joined, StayInClass
    <3>2. Class(d, x, p) = Class(d, x, q)
      BY <1>3 DEF Class
    <3> QED
      BY <1>2, <1>7, <3>1, <3>2
  <2>2. \A j \in Indices : data'[x][j] \in Class(d, x, j)
    BY <1>5, <1>7, <2>1 DEF Joined, StayInClass
  <2>3. ASSUME NEW u \in On(x)
        PROVE  /\ pc'[u] \in {"load_b", "store_a", "store_b"} =>
                      t1'[u] \in Class(d, x, a'[u])
               /\ pc'[u] \in {"store_a", "store_b"} =>
                      t2'[u] \in Class(d, x, b'[u])
               /\ pc'[u] = "store_b" => d[a'[u]] = d[b'[u]]
    <3>1. CASE u = t
      <4>1. t1[t] \in Class(c, x, p) /\ t2[t] \in Class(c, x, q)
        BY <1>1, <1>2, <1>7 DEF Joined, StayInClass
      <4> QED
        BY <1>2, <1>3, <1>7, <3>1, <4>1
    <3>2. CASE u # t
      <4>1. u \in Threads \ {t}
        BY <1>1, <3>2
      <4>2. /\ pc'[u] = pc[u] /\ a'[u] = a[u] /\ b'[u] = b[u]
            /\ t1'[u] = t1[u] /\ t2'[u] = t2[u]
        BY <1>0, <4>1, SameArray
      <4>3. pc[u] # "idle" => a[u] \in Indices /\ b[u] \in Indices
        BY <4>1 DEF Typed
      <4> QED
        BY <1>3, <1>7, <4>2, <4>3 DEF Joined, StayInClass
    <3> QED
      BY <3>1, <3>2
  <2> QED
    BY <1>0, <2>2, <2>3, SameArray DEF StayInClass
<1>9. ASSUME NoneComesBack(c, x), c[p] # c[q]
       PROVE  NoneComesBack(d, x)'
  <2>1. /\ t1[t] \in Class(c, x, p) /\ t2[t] \in Class(c, x, q)
    BY <1>1, <1>2, <1>7 DEF Joined, StayInClass
  <2>2. t1[t] # <<x, q>> /\ t2[t] # <<x, p>>
    BY <1>9, <2>1 DEF Class
  <2>3. ASSUME NEW j \in Indices, data'[x][j] = <<x, j>>
        PROVE  \/ \A k \in Indices : d[k] = d[j] => k = j
               \/ \E u \in On(x) : pc'[u] = "store_b" /\ b'[u] = j
    <3>1. j # p
      BY <1>5, <2>2, <2>3
    <3>2. CASE j = q
      BY <1>1, <1>2, <3>2
    <3>3. CASE j # q /\ \A k \in Indices : c[k] = c[j] => k = j
      <4>1. c[j] # c[p] /\ c[j] # c[q]
        BY <1>2, <3>1, <3>3
      <4> QED
        BY <1>3, <3>3, <4>1
    <3>4. CASE \E u \in On(x) : pc[u] = "store_b" /\ b[u] = j
      <4>1. PICK u \in On(x) : pc[u] = "store_b" /\ b[u] = j
        BY <3>4
      <4>2. u \in Threads \ {t}
        BY <1>1, <1>2, <4>1
      <4> QED
        BY <1>0, <4>1, <4>2, SameArray
    <3>5. data[x][j] = <<x, j>>
      BY <1>5, <2>3, <3>1
    <3> QED
      BY <1>9, <3>2, <3>3, <3>4, <3>5 DEF NoneComesBack
  <2>4. ASSUME NEW u \in On(x), pc'[u] = "store_b"
        PROVE  t1'[u] # <<x, b'[u]>>
    <3>1. CASE u = t
      BY <1>2, <2>2, <3>1
    <3>2. CASE u # t
      BY <1>0, <1>1, <1>9, <2>4, <3>2, SameArray DEF NoneComesBack
    <3> QED
      BY <3>1, <3>2
  <2> QED
    BY <1>0, <2>3, <2>4, SameArray DEF NoneComesBack
<1>10. /\ Cardinality(Classes(d))' =
              IF c[p] = c[q] THEN Cardinality(Classes(c))
              ELSE Cardinality(Classes(c)) - 1
       /\ Cardinality(StoredOn(x))' = Cardinality(StoredOn(x)) + 1
       /\ Cardinality(Indices)' = Cardinality(Indices)
  <2>1. Classes(d)' = Classes(d) /\ Indices' = Indices
    BY <1>0, SameArray
  <2>2. IsFiniteSet(Classes(c)) /\ c[q] \in Classes(c)
    BY <1>2, ClassesFinite DEF Classes
  <2>3. Cardinality(Classes(d)) =
              IF c[p] = c[q] THEN Cardinality(Classes(c))
              ELSE Cardinality(Classes(c)) - 1
    <3>1. Cardinality(Classes(c) \ {c[q]}) = Cardinality(Classes(c)) - 1
      BY <2>2, FS_RemoveElement
    <3> QED
      BY <1>4, <3>1
  <2>4. Cardinality(StoredOn(x) \cup {<<t, swaps[t]>>})
            = Cardinality(StoredOn(x)) + 1
    BY <1>6, SwapsFinite, FS_AddElement
  <2> QED
    BY <1>6, <2>1, <2>3, <2>4
<1>11. /\ Cardinality(Classes(c)) \in Nat /\ Cardinality(StoredOn(x)) \in Nat
       /\ Cardinality(Indices) \in Nat
  BY ClassesFinite, SwapsFinite, IndicesFinite
<1> QED
  BY <1>8, <1>9, <1>10, <1>11 DEF Joined, FewJoins

LEMMA JoinInvStep == Typed /\ Own /\ Begun /\ JoinInv /\ [Next]_vars => JoinInv'
<1> SUFFICES ASSUME Typed, Own, Begun, JoinInv, [Next]_vars PROVE JoinInv'
  OBVIOUS
<1>1. ASSUME NEW t \in Threads, Swap(t), NEW x \in Threads
      PROVE  (\E c \in [Indices -> Indices] : Joined(c, x))'
  <2>1. PICK c \in [Indices -> Indices] : Joined(c, x)
    BY DEF JoinInv
  <2>2. Indices' = Indices
    BY <1>1, SameArray
  <2>3. CASE Array(t) # x
    <3>1. Joined(c, x)'
      BY <1>1, <2>1, <2>3, OtherArrayStep
    <3> QED
      BY <2>2, <3>1
  <2>4. CASE Array(t) = x /\ ~ StoreA(t)
    <3>1. Joined(c, x)'
      BY <1>1, <2>1, <2>4, SameClassesStep
    <3> QED
      BY <2>2, <3>1
  <2>5. CASE Array(t) = x /\ StoreA(t)
    <3>1. PICK p \in Indices, q \in Indices : a[t] = p /\ b[t] = q
      BY <2>5 DEF StoreA, Typed
    <3>2. Join(c, p, q) \in [Indices -> Indices]
      BY <2>1, <3>1 DEF Join
    <3>3. Joined(Join(c, p, q), x)'
      BY <2>1, <2>5, <3>1, JoiningStep
    <3> QED
      BY <2>2, <3>2, <3>3
  <2> QED
    BY <2>3, <2>4, <2>5
<1>2. ASSUME UNCHANGED <<setUp, data, pc, a, b, t1, t2, swaps>> PROVE JoinInv'
  <2>1. /\ Indices' = Indices /\ \A t : Array(t)' = Array(t)
    BY <1>2, SameSetUp
  <2>2. \A x : On(x)' = On(x) /\ StoredOn(x)' = StoredOn(x)
    BY <1>2, <2>1 DEF On, StoredOn, SwapsOn
  <2>3. \A c, x, j : /\ Class(c, x, j)' = Class(c, x, j)
                    /\ Classes(c)' = Classes(c)
    BY <2>1 DEF Class, Classes
  <2>4. ASSUME NEW c, NEW x, Joined(c, x) PROVE Joined(c, x)'
    BY <1>2, <2>1, <2>2, <2>3, <2>4
       DEF Joined, StayInClass, FewJoins, NoneComesBack
  <2> QED
    BY <2>1, <2>4 DEF JoinInv
<1> QED
  BY <1>1, <1>2 DEF Next, op, Swap, PickFromNothing, AllSwapped, vars, JoinInv

LEMMA RacesInvariant == Spec => [](GspsInv /\ Begun /\ JoinInv)
<1>1. Init => Begun /\ JoinInv
  BY BegunInit, JoinedInit DEF JoinInv
<1>2. GspsInv /\ Begun /\ JoinInv /\ [Next]_vars => Begun' /\ JoinInv'
  BY BegunStep, JoinInvStep DEF GspsInv
<1> QED
  BY <1>1, <1>2, GspsInvariant, PTL DEF Spec

\* An array at rest has an element of each class, and two of one class if
\* none has come back.
LEMMA FewAreLost ==
    ASSUME GspsInv, JoinInv, NEW x \in Threads, AtRest(x), Lost(x) # {}
    PROVE  Cardinality(Lost(x)) < Cardinality(SwapsOn(x))
<1> DEFINE C == Contents(data[x])
<1>1. PICK c \in [Indices -> Indices] : Joined(c, x)
  BY DEF JoinInv
<1>2. Typed /\ Elements(x) = {<<x, j>> : j \in Indices}
  BY ElementsOfArray DEF GspsInv, Typed
<1>3. /\ \A j \in Indices : data[x][j] \in C
      /\ C \subseteq Elements(x)
      /\ Lost(x) = Elements(x) \ C
  BY DEF GspsInv, Own, Contents, Elements, Lost
<1>4. C = {data[x][j] : j \in Indices}
  BY DEF Contents
<1> HIDE DEF C
<1>5. \A j \in Indices : data[x][j] \in Class(c, x, j)
  BY <1>1 DEF Joined, StayInClass
<1>6. /\ IsFiniteSet(Elements(x))
      /\ Cardinality(Elements(x)) = Cardinality(Indices)
  <2> DEFINE f == [j \in Indices |-> <<x, j>>]
  <2>1. f \in Bijection(Indices, Elements(x))
    BY <1>2 DEF Bijection, Injection, IsInjective, Surjection
  <2> QED
    BY <1>2, <2>1, IndicesFinite, FS_Bijection DEF ExistsBijection
<1>7. /\ IsFiniteSet(C) /\ Cardinality(C) \in Nat
      /\ Cardinality(Lost(x)) = Cardinality(Indices) - Cardinality(C)
  <2>1. IsFiniteSet(C) /\ Cardinality(C) \in Nat
    BY <1>3, <1>6, FS_Subset, FS_CardinalityType
  <2>2. Elements(x) \cap C = C
    BY <1>3
  <2>3. Cardinality(Elements(x) \ C)
            = Cardinality(Elements(x)) - Cardinality(Elements(x) \cap C)
    BY <1>6, FS_Difference
  <2> QED
    BY <1>3, <1>6, <2>1, <2>2, <2>3
<1> DEFINE g == [v \in C |-> c[v[2]]]
<1>8. \A j \in Indices : data[x][j][2] \in Indices /\ g[data[x][j]] = c[j]
  BY <1>3, <1>5 DEF Class
<1>9. g \in Surjection(C, Classes(c))
  <2>1. \A v \in C : g[v] \in Classes(c)
    BY <1>4, <1>8 DEF Classes
  <2>2. ASSUME NEW k \in Classes(c) PROVE \E v \in C : g[v] = k
    <3>1. PICK j \in Indices : k = c[j]
      BY DEF Classes
    <3>2. data[x][j] \in C /\ g[data[x][j]] = k
      BY <1>3, <1>8, <3>1
    <3> QED
      BY <3>2
  <2>3. g \in [C -> Classes(c)]
    BY <2>1
  <2> HIDE DEF g
  <2> QED
    BY <2>2, <2>3 DEF Surjection
<1>10. /\ Cardinality(Classes(c)) <= Cardinality(C)
       /\ Cardinality(Classes(c)) = Cardinality(C)
              => g \in Injection(C, Classes(c))
  BY <1>7, <1>9, FS_Surjection
<1>11. ASSUME NoneComesBack(c, x)
       PROVE  g \notin Injection(C, Classes(c))
  <2>1. PICK j \in Indices : <<x, j>> \notin C
    BY <1>2, <1>3
  <2>2. PICK k \in Indices : data[x][j] = <<x, k>> /\ c[k] = c[j]
    BY <1>5 DEF Class
  <2>3. k # j
    BY <1>3, <2>1, <2>2
  <2>4. PICK l \in Indices : data[x][k] = <<x, l>> /\ c[l] = c[k]
    BY <1>5 DEF Class
  <2>5. l # k
    <3>1. \A t \in On(x) : pc[t] # "store_b"
      BY DEF AtRest, On
    <3> QED
      BY <1>11, <2>2, <2>3, <2>4, <3>1 DEF NoneComesBack
  <2>6. /\ <<x, k>> \in C /\ <<x, l>> \in C /\ <<x, k>> # <<x, l>>
        /\ g[<<x, k>>] = g[<<x, l>>]
    BY <1>3, <2>2, <2>4, <2>5
  <2> HIDE DEF g
  <2> QED
    BY <1>9, <2>6 DEF Injection, IsInjective, Surjection
<1>12. /\ Cardinality(Indices) \in Nat /\ Cardinality(Classes(c)) \in Nat
       /\ Cardinality(SwapsOn(x)) \in Nat /\ Cardinality(StoredOn(x)) \in Nat
       /\ Cardinality(StoredOn(x)) <= Cardinality(SwapsOn(x))
  BY <1>2, IndicesFinite, ClassesFinite, SwapsFinite
<1> HIDE DEF g
<1> QED
  BY <1>1, <1>7, <1>10, <1>11, <1>12 DEF Joined, FewJoins

\* However the loads and stores of the swaps interleave, an array holds only
\* elements that were in it at the beginning, and fewer of them are lost than
\* there were swaps on it: for every number of threads, every length of the
\* array and every number of swaps (op, time_GSPS.cpp:62).
THEOREM RacesLoseFew == Spec => []RacesLoseFewElements
<1>1. GspsInv /\ JoinInv => RacesLoseFewElements
  <2> SUFFICES ASSUME GspsInv, JoinInv, NEW x \in Threads
               PROVE  /\ Contents(data[x])
                             \subseteq Contents(Fresh(max_index)[x])
                      /\ AtRest(x) =>
                             \/ Lost(x) = {}
                             \/ Cardinality(Lost(x)) < Cardinality(SwapsOn(x))
    BY DEF RacesLoseFewElements
  <2>1. Contents(data[x]) \subseteq Contents(Fresh(max_index)[x])
    BY DEF GspsInv, Own, Contents, Elements
  <2> QED
    BY <2>1, FewAreLost
<1> QED
  BY <1>1, RacesInvariant, PTL
=============================================================================
